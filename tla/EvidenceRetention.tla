-------------------------- MODULE EvidenceRetention --------------------------
(***************************************************************************)
(* The evidence of one organisation: metadata rows that all processes      *)
(* share, objects in the storage bucket, and an EvidenceService in each    *)
(* process with a cache of the rows it wrote and a retention policy of its *)
(* own.  The API process registers evidence and hands out links; an         *)
(* operator's purge runs there, the scheduled purge in the scheduler's     *)
(* process.  A purge is four kinds of step (list, mark the row, delete the *)
(* object, audit), any of which may raise or be its process's last.        *)
(*                                                                         *)
(* Days are the unit of time.  All evidence is of the kind snapshot, the   *)
(* only one the handlers register.  The scheduler's purge runs with        *)
(* scheduler_evidence_retention_confirm on; off, it only lists.            *)
(***************************************************************************)
EXTENDS FiniteSets, Integers

CONSTANTS
  Files,          \* pieces of evidence, by (incident_id, file_id)
  EdgeFiles,      \* those that edge workers register with a detection
  None,
  DefaultDays,    \* EvidenceRetentionPolicy.snapshot_days
  Days,           \* what the organisation may set it to
  MaxDay,         \* bound: days that pass
  MaxRegisters,   \* bound: registrations, repeated ones included
  MaxPolicies,    \* bound: changes of the policy
  MaxFaults       \* bound: calls that raise, processes that die

Entry == [created : 0..MaxDay, deleted : BOOLEAN]

ASSUME DaysAssumption ==
  DefaultDays \in Nat /\ Days \subseteq Nat /\ MaxDay \in Nat
ASSUME FilesAssumption ==
  EdgeFiles \subseteq Files /\ None \notin Files /\ None \notin Entry

VARIABLES
  today,
  row,            \* evidence_metadata: the entry of a file, or None
  cache,          \* repository.evidence of each process
  policy,         \* repository.retention_policies of each process
  term,           \* history: the term the organisation set last
  told,           \* history: the processes that were given that term
  object,         \* files that are in the bucket
  links,          \* files with an upload link that still works
  upload,         \* the registration under way in the API
  purge,          \* the purge under way in each process
  audited,        \* files with a purge.confirm record since they were registered
  registers, policies, faults,                            \* counted for bounds
  broken,         \* files a purge took and did not finish
  late,           \* files put over a deleted row
  apart,          \* files whose row and cached object were not written in step
  dead            \* files whose download link was given out after their purge

vars == <<today, row, cache, policy, term, told, object, links, upload, purge, audited,
          registers, policies, faults, broken, late, apart, dead>>
counters == <<registers, policies>>
stable == <<today, policy, term, told, links, upload, counters>>    \* no purge changes it
still == <<today, policy, term, told, purge, audited, policies>>    \* few requests do
ghosts == <<broken, late, apart, dead>>

Procs == {"api", "scheduler"}

Live(e) == e # None /\ ~e.deleted
Deleted(f) == row[f] # None /\ row[f].deleted
Purged(e) == [created |-> e.created, deleted |-> TRUE]

NoUpload == [pc |-> "idle", file |-> None]
(* Of a purge, `due` and `told` are history: the day up to which evidence    *)
(* had reached the organisation's own term when the purge listed it, and     *)
(* whether its process had been given that term.                            *)
NoPurge == [pc |-> "idle", limit |-> 0, due |-> 0, told |-> TRUE, todo |-> {},
            file |-> None, done |-> {}, raced |-> {}]

Init ==
  /\ today = 0
  /\ row = [f \in Files |-> None]
  /\ cache = [p \in Procs |-> [f \in Files |-> None]]
  /\ policy = [p \in Procs |-> DefaultDays]
  /\ term = DefaultDays /\ told = Procs
  /\ object = {} /\ links = {}
  /\ upload = NoUpload
  /\ purge = [p \in Procs |-> NoPurge]
  /\ audited = {}
  /\ registers = 0 /\ policies = 0 /\ faults = 0
  /\ broken = {} /\ late = {} /\ apart = {}
  /\ dead = {}

-----------------------------------------------------------------------------
(* What a process sees: its cache before the shared rows.                   *)

Found(p, f) == IF cache[p][f] # None THEN cache[p][f] ELSE row[f]
Limit(p) == today - policy[p]

OnlyCached(p, f) ==     \* mutant: the preview does not merge the shared rows
  Live(cache[p][f]) /\ cache[p][f].created <= Limit(p)

ExpiredEarly(p, f) ==   \* mutant: a day too early
  Live(Found(p, f)) /\ Found(p, f).created <= Limit(p) + 1

Expired(p, f) == Live(Found(p, f)) /\ Found(p, f).created <= Limit(p)

-----------------------------------------------------------------------------
(* The API: policy, registration, links.                                    *)

(* The policy is kept by the process that served the request, and only in   *)
(* its memory.                                                              *)
SetPolicy(d) ==
  /\ policies < MaxPolicies
  /\ policies' = policies + 1
  /\ policy' = [policy EXCEPT !["api"] = d]
  /\ term' = d /\ told' = {"api"}
  /\ UNCHANGED <<today, row, cache, object, links, upload, purge, audited,
                 registers, faults, broken, late, apart, dead>>

NewEntry == [created |-> today, deleted |-> FALSE]

(* register_evidence: the cache first, the row in a transaction after it.   *)
(* It is called by an upload request and by each POST of a detection, so    *)
(* also by those that repeat one.                                           *)
Register(f) ==
  /\ upload.pc = "idle"
  /\ registers < MaxRegisters
  /\ registers' = registers + 1
  /\ cache' = [cache EXCEPT !["api"][f] = NewEntry]
  /\ upload' = [pc |-> "save", file |-> f]
  /\ apart' = apart \cup {f}
  /\ UNCHANGED <<still, row, object, links, faults, broken, late,
                 dead>>

(* The row gets what the cached object holds now: a purge in the API may    *)
(* have marked it meanwhile.                                                *)
SaveRow ==
  /\ upload.pc = "save"
  /\ LET f == upload.file IN
     /\ row' = [row EXCEPT ![f] = cache["api"][f]]
     /\ upload' = IF f \in EdgeFiles THEN NoUpload
                  ELSE [upload EXCEPT !.pc = "link"]
     /\ purge' = [p \in Procs |->
                    IF f \in purge[p].todo \cup {purge[p].file}
                    THEN [purge[p] EXCEPT !.raced = @ \cup {f}]
                    ELSE purge[p]]
     /\ LET since == IF cache["api"][f].deleted THEN {} ELSE {f} IN
        /\ audited' = audited \ since
        /\ broken' = broken \ since
        /\ late' = late \ since
     /\ apart' = apart \ {f}
  /\ UNCHANGED <<today, cache, policy, term, told, object, links, faults,
                 dead, counters>>

(* The rest of request_upload_url: audit, presign. *)
LinkUpload ==
  /\ upload.pc = "link"
  /\ links' = links \cup {upload.file}
  /\ upload' = NoUpload
  /\ UNCHANGED <<still, row, cache, object, registers, faults, ghosts>>

RequestFails ==
  /\ upload.pc # "idle"
  /\ faults < MaxFaults
  /\ faults' = faults + 1
  /\ upload' = NoUpload
  /\ UNCHANGED <<still, row, cache, object, links, registers, ghosts>>

Put(f) ==
  /\ f \in links
  /\ f \notin object
  /\ object' = object \cup {f}
  /\ late' = IF Deleted(f) THEN late \cup {f} ELSE late
  /\ UNCHANGED <<stable, row, cache, purge, audited, faults,
                 broken, apart, dead>>

(* An edge worker puts its frame before it posts the detection. *)
PutFrame(f) ==
  /\ f \in EdgeFiles \ object
  /\ Found("api", f) = None
  /\ object' = object \cup {f}
  /\ UNCHANGED <<stable, row, cache, purge, audited, faults, ghosts>>

Download(f) ==
  /\ Live(Found("api", f))
  /\ dead' = IF Deleted(f) THEN dead \cup {f} ELSE dead
  /\ UNCHANGED <<stable, row, cache, object, purge, audited, faults,
                 broken, late, apart>>

-----------------------------------------------------------------------------
(* purge_expired_evidence in process p.  A purge that lists nothing writes   *)
(* one record without a file and has no step here.                          *)

Preview(p) ==
  /\ purge[p].pc = "idle"
  /\ \E f \in Files : Expired(p, f)
  /\ purge' = [purge EXCEPT ![p] =
                 [NoPurge EXCEPT !.pc = "item", !.limit = Limit(p),
                                 !.due = today - term,
                                 !.told = (p \in told),
                                 !.todo = {f \in Files : Expired(p, f)}]]
  /\ UNCHANGED <<stable, row, cache, object, audited, faults, ghosts>>

Skip(p, f) ==
  /\ purge[p].pc = "item"
  /\ f \in purge[p].todo
  /\ ~Live(Found(p, f))
  /\ purge' = [purge EXCEPT ![p].todo = @ \ {f}]
  /\ UNCHANGED <<stable, row, cache, object, audited, faults, ghosts>>

TakeRowOnly(p, f) ==    \* mutant: the cached object stays as it is
  /\ purge[p].pc = "item"
  /\ f \in purge[p].todo
  /\ Live(Found(p, f))
  /\ purge' = [purge EXCEPT ![p] =
                 [purge[p] EXCEPT !.pc = "mark", !.file = f, !.todo = @ \ {f}]]
  /\ UNCHANGED <<stable, row, cache, object, audited, faults, ghosts>>

(* evidence.deleted_at = now: on the cached object if there is one, else on *)
(* a copy of the row that only this purge has.                              *)
Take(p, f) ==
  /\ purge[p].pc = "item"
  /\ f \in purge[p].todo
  /\ Live(Found(p, f))
  /\ cache' = IF cache[p][f] = None THEN cache
              ELSE [cache EXCEPT ![p][f] = Purged(cache[p][f])]
  /\ purge' = [purge EXCEPT ![p] =
                 [purge[p] EXCEPT !.pc = "mark", !.file = f, !.todo = @ \ {f}]]
  /\ UNCHANGED <<stable, row, object, audited, faults, ghosts>>

MarkUncommitted(p) ==   \* mutant: the row's transaction is not committed
  /\ purge[p].pc = "mark"
  /\ purge' = [purge EXCEPT ![p].pc = "delete"]
  /\ UNCHANGED <<stable, row, cache, object, audited, faults, ghosts>>

Mark(p) ==
  /\ purge[p].pc = "mark"
  /\ LET f == purge[p].file IN
     /\ row' = IF row[f] = None THEN row ELSE [row EXCEPT ![f] = Purged(row[f])]
     /\ apart' = IF p = "scheduler" \/ f \in purge[p].raced
                 THEN apart \cup {f} ELSE apart
  /\ purge' = [purge EXCEPT ![p].pc = "delete"]
  /\ UNCHANGED <<stable, cache, object, audited, faults, broken,
                 late, dead>>

DeleteNothing(p) ==     \* mutant: the object is left where it is
  /\ purge[p].pc = "delete"
  /\ purge' = [purge EXCEPT ![p] =
                 [purge[p] EXCEPT !.pc = "item", !.file = None,
                                  !.done = @ \cup {purge[p].file}]]
  /\ UNCHANGED <<stable, row, cache, object, audited, faults, ghosts>>

Delete(p) ==
  /\ purge[p].pc = "delete"
  /\ object' = object \ {purge[p].file}
  /\ purge' = [purge EXCEPT ![p] =
                 [purge[p] EXCEPT !.pc = "item", !.file = None,
                                  !.done = @ \cup {purge[p].file}]]
  /\ UNCHANGED <<stable, row, cache, audited, faults, ghosts>>

AuditOnce(p, f) ==      \* mutant: one record for the whole purge
  /\ purge[p].pc = "item" /\ purge[p].todo = {}
  /\ f \in purge[p].done
  /\ audited' = audited \cup {f}
  /\ purge' = [purge EXCEPT ![p] = NoPurge]
  /\ UNCHANGED <<stable, row, cache, object, faults, ghosts>>

(* The records are written after the last item, one transaction each. *)
Audit(p, f) ==
  /\ purge[p].pc = "item" /\ purge[p].todo = {}
  /\ f \in purge[p].done
  /\ audited' = audited \cup {f}
  /\ purge' = [purge EXCEPT ![p] =
                 IF purge[p].done = {f} THEN NoPurge
                 ELSE [purge[p] EXCEPT !.done = @ \ {f}]]
  /\ UNCHANGED <<stable, row, cache, object, faults, ghosts>>

AuditNothing(p) ==
  /\ purge[p].pc = "item" /\ purge[p].todo = {} /\ purge[p].done = {}
  /\ purge' = [purge EXCEPT ![p] = NoPurge]
  /\ UNCHANGED <<stable, row, cache, object, audited, faults, ghosts>>

(* What a purge that stops here has begun and not finished. *)
Unfinished(p) == purge[p].done \cup ({purge[p].file} \cap Files)

(* The database or the bucket raises and the exception ends the purge.  A   *)
(* delete that raises may have been carried out.                            *)
PurgeRaises(p) ==
  /\ purge[p].pc # "idle"
  /\ faults < MaxFaults
  /\ faults' = faults + 1
  /\ purge' = [purge EXCEPT ![p] = NoPurge]
  /\ broken' = broken \cup Unfinished(p)
  /\ \/ object' = object
     \/ purge[p].pc = "delete" /\ object' = object \ {purge[p].file}
  /\ UNCHANGED <<stable, row, cache, audited, late, apart, dead>>

-----------------------------------------------------------------------------
(* Time and deaths.                                                         *)

Tick ==
  /\ today < MaxDay
  /\ today' = today + 1
  /\ links' = {}
  /\ UNCHANGED <<row, cache, policy, term, told, object, upload, purge, audited,
                 faults, counters, ghosts>>

Die(p) ==
  /\ faults < MaxFaults
  /\ faults' = faults + 1
  /\ cache' = [cache EXCEPT ![p] = [f \in Files |-> None]]
  /\ policy' = [policy EXCEPT ![p] = DefaultDays]
  /\ told' = IF policies = 0 THEN told ELSE told \ {p}
  /\ purge' = [purge EXCEPT ![p] = NoPurge]
  /\ broken' = broken \cup Unfinished(p)
  /\ upload' = IF p = "api" THEN NoUpload ELSE upload
  /\ UNCHANGED <<today, row, term, object, links, audited, late, apart,
                 dead, counters>>

PurgeStep(p) ==
  \/ Preview(p) \/ Mark(p) \/ Delete(p) \/ AuditNothing(p)
  \/ \E f \in Files : Skip(p, f) \/ Take(p, f) \/ Audit(p, f)

Serve ==
  \/ SaveRow \/ LinkUpload \/ RequestFails
  \/ \E f \in Files : Register(f) \/ Put(f) \/ PutFrame(f) \/ Download(f)

Next ==
  \/ Serve
  \/ Tick
  \/ \E d \in Days : SetPolicy(d)
  \/ \E p \in Procs : PurgeStep(p) \/ PurgeRaises(p) \/ Die(p)

Spec == Init /\ [][Next]_vars

(* run_forever starts a purge each interval and a purge runs to its end. *)
FairSpec == Spec /\ WF_vars(PurgeStep("scheduler"))

-----------------------------------------------------------------------------
(* Properties                                                               *)

PurgeState == [pc : {"idle", "item", "mark", "delete"}, limit : Int,
               due : Int, told : BOOLEAN, todo : SUBSET Files, file : Files \cup {None},
               done : SUBSET Files, raced : SUBSET Files]

TypeOK ==
  /\ today \in 0..MaxDay
  /\ row \in [Files -> Entry \cup {None}]
  /\ cache \in [Procs -> [Files -> Entry \cup {None}]]
  /\ policy \in [Procs -> Days \cup {DefaultDays}]
  /\ term \in Days \cup {DefaultDays} /\ told \subseteq Procs
  /\ object \subseteq Files
  /\ links \subseteq Files
  /\ upload \in [pc : {"idle", "save", "link"}, file : Files \cup {None}]
  /\ purge \in [Procs -> PurgeState]
  /\ audited \subseteq Files
  /\ registers \in Nat /\ policies \in Nat /\ faults \in Nat
  /\ broken \subseteq Files /\ late \subseteq Files
  /\ apart \subseteq Files /\ dead \subseteq Files

(* docs/security/evidence-retention.md: secure deletion at the end of the   *)
(* term.  The object of a deleted row is gone, unless a purge is about to   *)
(* remove it, a purge of it raised or died, or it was put over the row.     *)
PurgedIsGone ==
  \A f \in Files :
    Deleted(f) /\ f \in object =>
      \/ \E p \in Procs : purge[p].file = f
      \/ f \in broken \cup late

(* Every purge is on record with its reason and actor, unless it is still   *)
(* under way or did not reach its end.                                      *)
PurgedIsAudited ==
  \A f \in Files :
    Deleted(f) => \/ f \in audited \cup broken
                  \/ \E p \in Procs : f \in Unfinished(p)

(* docs/security/evidence-retention.md:9: "Cada organização define sua      *)
(* retenção padrão."  No purge, of whichever process, marks a live row that *)
(* had not reached the organisation's term when the purge listed it; a row  *)
(* registered again in between excepted.                                    *)
Marks(p, f) ==
  purge[p].pc = "mark" /\ purge'[p].pc = "delete" /\ purge[p].file = f

TermsAreKept ==
  [][\A p \in Procs : \A f \in Files :
       Marks(p, f) /\ Live(row[f])
       => row[f].created <= purge[p].due \/ f \in purge[p].raced]_vars

(* What the code does keep of it: though the cache a purge lists from may   *)
(* differ from the rows, it takes a row before the organisation's term only *)
(* in a process that was not given that term: the request that set it was   *)
(* served by another process, or by one that has died since.                *)
PurgesAreDue ==
  [][\A p \in Procs : \A f \in Files :
       Marks(p, f) /\ Live(row[f])
       => \/ row[f].created <= purge[p].due
          \/ f \in purge[p].raced
          \/ ~purge[p].told]_vars

(* An object goes only under a row that is not live: the mark comes first,  *)
(* so whoever finds a live row finds its object.  Again unless it was       *)
(* registered during the purge that removes it.                             *)
ObjectsOfLiveRowsStay ==
  [][\A f \in object \ object' :
       Live(row[f]) => \E p \in Procs : purge[p].file = f /\ f \in purge[p].raced]_vars

(* A purge in the API is seen by its next download request.  A link to      *)
(* purged evidence is handed out only where the API's cache and the row     *)
(* were not written in step: the scheduler's process marked the row, or the *)
(* evidence is registered again, before the purge ends or with its row not  *)
(* saved yet.                                                               *)
DeadLinksAreStale ==
  [][dead' \ dead \subseteq apart]_vars

(* No live row stays past the default term for good: the scheduled purge    *)
(* comes, and starts again after each one that failed.                      *)
Overdue(f) == Live(row[f]) /\ row[f].created <= today - DefaultDays
ExpiredGoes == \A f \in Files : []<>~Overdue(f)
=============================================================================
