--------------------------- MODULE NotificationJobs ---------------------------
(***************************************************************************)
(* The notification queue and the processes that empty it.                 *)
(*                                                                         *)
(* Any number of jobs_scheduler processes run cycles of                    *)
(* OperationalJobsService.run_notifications, one organization at a time,   *)
(* each under the Redis lock scheduler:notifications:<organization>.  A    *)
(* jobs_runner process runs the same job once, on an operator's request,   *)
(* and takes no lock.  A process may die at any step, Redis or the         *)
(* database may fail a call, and a lock's TTL may end while its holder is  *)
(* still at work.                                                          *)
(***************************************************************************)
EXTENDS FiniteSets, Naturals

CONSTANTS
  Schedulers,     \* jobs_scheduler processes
  Runners,        \* jobs_runner processes: the job without the lock
  Organizations,
  Notifications,  \* notification row ids
  OrgOf,          \* the organization_id column
  Tokens,         \* lock tokens that uuid4() may draw
  Channels,       \* channels of the rows the API may have enqueued
  Environments,   \* settings a process may be started with, see below
  PingResults,    \* what redis.ping() may say when a scheduler starts
  MaxFaults,      \* bound: deaths of a process, failed Redis and database calls
  MaxLapses,      \* bound: locks that expire under a living holder
  None

ASSUME JobsAssumption ==
  /\ OrgOf \in [Notifications -> Organizations]
  /\ Channels \subseteq {"email", "mock"}
  /\ Environments \subseteq [enabled : BOOLEAN, mode : {"mock", "resend"},
                            configured : BOOLEAN]
  /\ PingResults \subseteq BOOLEAN
  /\ MaxFaults \in Nat
  /\ MaxLapses \in Nat
  /\ None \notin Organizations \cup Notifications \cup Tokens
  /\ Schedulers \cap Runners = {}

VARIABLES
  queue,      \* table notifications: [status, channel] of every row
  sends,      \* history: how often the provider was asked to send a row
  lock,       \* Redis: the token stored under each organization's key
  connected,  \* whether the scheduler found Redis when it started
  conf,       \* the settings a process was started with
  pc, todo, org, token, batch, row, outcome,  \* locals of a process
  lapsed,     \* history: the process's lock expired while it held it
  faults, lapses

Processes == Schedulers \cup Runners

redisVars == <<lock, lapsed, lapses>>
tableVars == <<queue, sends>>
startVars == <<connected, conf>>
jobVars == <<batch, row, outcome>>
vars == <<tableVars, redisVars, startVars, pc, todo, org, token, jobVars, faults>>

-----------------------------------------------------------------------------
Settled == {"sent", "failed", "suppressed"}
NoRow == [status |-> "absent", channel |-> "mock"]

EveryRow(o) ==              \* mutant: the listing does not filter by status
  {n \in Notifications : queue[n] # NoRow /\ OrgOf[n] = o}
Queued(o) == {n \in Notifications : queue[n].status = "queued" /\ OrgOf[n] = o}

Init ==
  /\ queue = [n \in Notifications |-> NoRow]
  /\ sends = [n \in Notifications |-> 0]
  /\ lock = [o \in Organizations |-> None]
  /\ connected \in [Schedulers -> PingResults]
  /\ conf \in [Processes -> Environments]
  /\ pc = [p \in Processes |-> "idle"]
  /\ todo = [p \in Processes |-> {}]
  /\ org = [p \in Processes |-> None]
  /\ token = [p \in Processes |-> None]
  /\ batch = [p \in Processes |-> {}]
  /\ row = [p \in Processes |-> None]
  /\ outcome = [p \in Processes |-> "none"]
  /\ lapsed = [p \in Processes |-> FALSE]
  /\ faults = 0
  /\ lapses = 0

(* The API has queued a notification (IncidentStore!EnqueueNotification). *)
Enqueue(n) ==
  /\ queue[n] = NoRow
  /\ \E c \in Channels :
       queue' = [queue EXCEPT ![n] = [status |-> "queued", channel |-> c]]
  /\ UNCHANGED <<sends, redisVars, startVars, pc, todo, org, token, jobVars, faults>>

-----------------------------------------------------------------------------
(* JobScheduler                                                             *)

(* run_forever finds the interval elapsed; _orgs() names every organization *)
(* of the platform, and with it those that have queued rows.                *)
StartCycle(s) ==
  /\ pc[s] = "idle"
  /\ pc' = [pc EXCEPT ![s] = "next"]
  /\ todo' = [todo EXCEPT ![s] = Organizations]
  /\ UNCHANGED <<tableVars, redisVars, startVars, org, token, jobVars, faults>>

EndCycle(s) ==
  /\ pc[s] = "next"
  /\ todo[s] = {}
  /\ pc' = [pc EXCEPT ![s] = "idle"]
  /\ UNCHANGED <<tableVars, redisVars, startVars, todo, org, token, jobVars, faults>>

(* A token is fresh when nobody stores it or still holds it. *)
FreshTokens ==
  Tokens \ ({lock[o] : o \in Organizations} \cup {token[p] : p \in Processes})

LockIgnored(o) == TRUE      \* mutant: SET without NX
LockFree(o) == lock[o] = None

(* SET key token NX EX ttl: the lock is taken and the job begins. *)
Acquire(s, o) ==
  /\ pc[s] = "next"
  /\ o \in todo[s]
  /\ connected[s]
  /\ LockFree(o)
  /\ \E t \in FreshTokens :
       /\ lock' = [lock EXCEPT ![o] = t]
       /\ token' = [token EXCEPT ![s] = t]
  /\ todo' = [todo EXCEPT ![s] = @ \ {o}]
  /\ org' = [org EXCEPT ![s] = o]
  /\ lapsed' = [lapsed EXCEPT ![s] = FALSE]
  /\ pc' = [pc EXCEPT ![s] = "list"]
  /\ UNCHANGED <<tableVars, lapses, startVars, jobVars, faults>>

(* The job of the organization is skipped in this cycle: somebody has the   *)
(* lock, or the scheduler runs on the NullLockBackend it chose at its start. *)
Skip(s, o) ==
  /\ pc[s] = "next"
  /\ o \in todo[s]
  /\ ~connected[s] \/ lock[o] # None
  /\ todo' = [todo EXCEPT ![s] = @ \ {o}]
  /\ UNCHANGED <<tableVars, redisVars, startVars, pc, org, token, jobVars, faults>>

(* acquire() raises: the job is recorded as failed, the cycle goes on. *)
AcquireError(s, o) ==
  /\ pc[s] = "next"
  /\ o \in todo[s]
  /\ connected[s]
  /\ faults < MaxFaults
  /\ faults' = faults + 1
  /\ todo' = [todo EXCEPT ![s] = @ \ {o}]
  /\ UNCHANGED <<tableVars, redisVars, startVars, pc, org, token, jobVars>>

AfterRelease(s) ==
  /\ pc' = [pc EXCEPT ![s] = "next"]
  /\ org' = [org EXCEPT ![s] = None]
  /\ token' = [token EXCEPT ![s] = None]
  /\ lapsed' = [lapsed EXCEPT ![s] = FALSE]

OwnToken(s) == lock[org[s]] = token[s]

(* The release script: DEL only if the key still stores the caller's token. *)
Release(s) ==
  /\ pc[s] = "release"
  /\ lock' = [lock EXCEPT ![org[s]] = IF OwnToken(s) THEN None ELSE @]
  /\ AfterRelease(s)
  /\ UNCHANGED <<tableVars, lapses, startVars, todo, jobVars, faults>>

(* release() raises: the key stays until its TTL ends. *)
ReleaseError(s) ==
  /\ pc[s] = "release"
  /\ faults < MaxFaults
  /\ faults' = faults + 1
  /\ AfterRelease(s)
  /\ UNCHANGED <<tableVars, lock, lapses, startVars, todo, jobVars>>

-----------------------------------------------------------------------------
(* run_notifications, by a scheduler or by a runner                         *)

(* python -m vigia_api.scripts.jobs_runner notifications --organization-id o *)
StartRunner(r, o) ==
  /\ pc[r] = "idle"
  /\ pc' = [pc EXCEPT ![r] = "list"]
  /\ org' = [org EXCEPT ![r] = o]
  /\ UNCHANGED <<tableVars, redisVars, startVars, todo, token, jobVars, faults>>

(* list_notifications(status="queued"), in a transaction of its own. *)
List(p) ==
  /\ pc[p] = "list"
  /\ batch' = [batch EXCEPT ![p] = Queued(org[p])]
  /\ pc' = [pc EXCEPT ![p] = "row"]
  /\ UNCHANGED <<tableVars, redisVars, startVars, todo, org, token, row, outcome, faults>>

UsesProvider(p, n) == queue[n].channel = "email" /\ conf[p].mode = "resend"

(* The status chosen for a row the provider is not asked to send. *)
SettledUnsent(p, n) ==
  CASE ~UsesProvider(p, n) -> "sent"
    [] UsesProvider(p, n) /\ ~conf[p].enabled -> "suppressed"
    [] OTHER -> "failed"

Chosen(p, n, status) ==
  /\ row' = [row EXCEPT ![p] = n]
  /\ outcome' = [outcome EXCEPT ![p] = status]
  /\ pc' = [pc EXCEPT ![p] = "update"]

(* The row's turn without a send: mock rows, and mail that is off.          *)
SettleUnsent(p, n) ==
  /\ pc[p] = "row"
  /\ n \in batch[p]
  /\ UsesProvider(p, n) => ~conf[p].enabled \/ ~conf[p].configured
  /\ Chosen(p, n, SettledUnsent(p, n))
  /\ UNCHANGED <<tableVars, redisVars, startVars, todo, org, token, batch, faults>>

SwallowedError == "sent"    \* mutant: an exception is taken for a success
OnError == "failed"

(* _deliver asks the provider, which returns, or raises before or after it  *)
(* took the mail; whatever is raised makes the row "failed".                *)
Deliver(p, n) ==
  /\ pc[p] = "row"
  /\ n \in batch[p]
  /\ UsesProvider(p, n) /\ conf[p].enabled /\ conf[p].configured
  /\ \E taken, raised \in BOOLEAN :
       /\ taken \/ raised
       /\ sends' = [sends EXCEPT ![n] = IF taken THEN @ + 1 ELSE @]
       /\ Chosen(p, n, IF raised THEN OnError ELSE "sent")
  /\ UNCHANGED <<queue, redisVars, startVars, todo, org, token, batch, faults>>

(* update_notification_status: whatever the row says by now is overwritten. *)
Update(p) ==
  /\ pc[p] = "update"
  /\ queue' = [queue EXCEPT ![row[p]].status = outcome[p]]
  /\ batch' = [batch EXCEPT ![p] = @ \ {row[p]}]
  /\ row' = [row EXCEPT ![p] = None]
  /\ outcome' = [outcome EXCEPT ![p] = "none"]
  /\ pc' = [pc EXCEPT ![p] = "row"]
  /\ UNCHANGED <<sends, redisVars, startVars, todo, org, token, faults>>

(* The batch is done: a scheduler goes on to the release, a runner exits. *)
Finish(p) ==
  /\ pc[p] = "row"
  /\ batch[p] = {}
  /\ pc' = [pc EXCEPT ![p] = IF p \in Schedulers THEN "release" ELSE "idle"]
  /\ org' = [org EXCEPT ![p] = IF p \in Schedulers THEN @ ELSE None]
  /\ UNCHANGED <<tableVars, redisVars, startVars, todo, token, jobVars, faults>>

(* A database call of the job raises: the listing, the incident of a row or *)
(* the update of its status.  The exception leaves run_notifications and    *)
(* the rows not updated by then stay queued, mailed or not.  `finally`      *)
(* has a scheduler release its lock, and it records the job as failed; a    *)
(* runner exits.  (An update that raises once it is committed is Update,    *)
(* followed by this step or by Finish.)                                     *)
JobRaises(p) ==
  /\ pc[p] \in {"list", "row", "update"}
  /\ pc[p] = "row" => batch[p] # {}
  /\ faults < MaxFaults
  /\ faults' = faults + 1
  /\ pc' = [pc EXCEPT ![p] = IF p \in Schedulers THEN "release" ELSE "idle"]
  /\ org' = [org EXCEPT ![p] = IF p \in Schedulers THEN @ ELSE None]
  /\ batch' = [batch EXCEPT ![p] = {}]
  /\ row' = [row EXCEPT ![p] = None]
  /\ outcome' = [outcome EXCEPT ![p] = "none"]
  /\ UNCHANGED <<tableVars, redisVars, startVars, todo, token>>

JobStep(p) ==
  \/ List(p)
  \/ \E n \in Notifications : SettleUnsent(p, n) \/ Deliver(p, n)
  \/ Update(p)
  \/ Finish(p)

SchedulerStep(s) ==
  \/ StartCycle(s)
  \/ EndCycle(s)
  \/ \E o \in Organizations : Acquire(s, o) \/ Skip(s, o)
  \/ Release(s)
  \/ JobStep(s)

-----------------------------------------------------------------------------
(* The surroundings                                                         *)

(* A process dies and what it held in memory with it; it is started again,  *)
(* reads its settings and looks for Redis.  Its lock stays in Redis.        *)
Die(p) ==
  /\ pc[p] # "idle"
  /\ faults < MaxFaults
  /\ faults' = faults + 1
  /\ pc' = [pc EXCEPT ![p] = "idle"]
  /\ todo' = [todo EXCEPT ![p] = {}]
  /\ org' = [org EXCEPT ![p] = None]
  /\ token' = [token EXCEPT ![p] = None]
  /\ batch' = [batch EXCEPT ![p] = {}]
  /\ row' = [row EXCEPT ![p] = None]
  /\ outcome' = [outcome EXCEPT ![p] = "none"]
  /\ lapsed' = [lapsed EXCEPT ![p] = FALSE]
  /\ \E c \in PingResults :
       connected' = [s \in Schedulers |-> IF s = p THEN c ELSE connected[s]]
  /\ \E e \in Environments : conf' = [conf EXCEPT ![p] = e]
  /\ UNCHANGED <<tableVars, lock, lapses>>

Holders(o) == {s \in Schedulers : token[s] # None /\ token[s] = lock[o]}

NoTTL(o) == FALSE           \* mutant: SET without EX
HasTTL(o) == lock[o] # None

(* The TTL of a key whose holder is gone ends. *)
Expire(o) ==
  /\ HasTTL(o)
  /\ Holders(o) = {}
  /\ lock' = [lock EXCEPT ![o] = None]
  /\ UNCHANGED <<tableVars, lapsed, lapses, startVars, pc, todo, org, token, jobVars, faults>>

(* The TTL ends while the holder is still at work: nothing renews it. *)
Lapse(o) ==
  /\ HasTTL(o)
  /\ Holders(o) # {}
  /\ lapses < MaxLapses
  /\ lapses' = lapses + 1
  /\ lock' = [lock EXCEPT ![o] = None]
  /\ lapsed' = [p \in Processes |-> lapsed[p] \/ p \in Holders(o)]
  /\ UNCHANGED <<tableVars, startVars, pc, todo, org, token, jobVars, faults>>

-----------------------------------------------------------------------------
Next ==
  \/ \E n \in Notifications : Enqueue(n)
  \/ \E s \in Schedulers :
       \/ SchedulerStep(s)
       \/ \E o \in Organizations : AcquireError(s, o)
       \/ ReleaseError(s)
  \/ \E r \in Runners :
       \/ \E o \in Organizations : StartRunner(r, o)
       \/ JobStep(r)
  \/ \E p \in Processes : JobRaises(p) \/ Die(p)
  \/ \E o \in Organizations : Expire(o) \/ Lapse(o)

Spec == Init /\ [][Next]_vars

(* Schedulers run for ever and are scheduled; a runner that was started is  *)
(* scheduled to its end; a key without holder does reach the end of its TTL. *)
Fairness ==
  /\ \A s \in Schedulers : WF_vars(SchedulerStep(s))
  /\ \A r \in Runners : WF_vars(JobStep(r))
  /\ \A o \in Organizations : WF_vars(Expire(o))

FairSpec == Spec /\ Fairness

-----------------------------------------------------------------------------
(* Properties                                                               *)

(* Types: the table, the lock and every process's locals stay in their sets. *)
TypeOK ==
  /\ queue \in [Notifications -> [status : {"absent", "queued"} \cup Settled,
                                  channel : {"email", "mock"}]]
  /\ sends \in [Notifications -> Nat]
  /\ lock \in [Organizations -> Tokens \cup {None}]
  /\ connected \in [Schedulers -> BOOLEAN]
  /\ conf \in [Processes -> Environments]
  /\ pc \in [Processes -> {"idle", "next", "list", "row", "update", "release"}]
  /\ todo \in [Processes -> SUBSET Organizations]
  /\ org \in [Processes -> Organizations \cup {None}]
  /\ token \in [Processes -> Tokens \cup {None}]
  /\ batch \in [Processes -> SUBSET Notifications]
  /\ row \in [Processes -> Notifications \cup {None}]
  /\ outcome \in [Processes -> Settled \cup {"none"}]
  /\ lapsed \in [Processes -> BOOLEAN]
  /\ faults \in 0..MaxFaults
  /\ lapses \in 0..MaxLapses

(* The scheduler is inside the section that the lock of o protects. *)
InJob(s, o) == pc[s] \in {"list", "row", "update", "release"} /\ org[s] = o

(* A holder at work keeps its lock: no other process, not even one whose    *)
(* own lock had expired and that releases late, removes or replaces it.     *)
HolderKeepsLock ==
  \A s \in Schedulers, o \in Organizations :
    InJob(s, o) /\ ~lapsed[s] => lock[o] = token[s] /\ token[s] # None

(* Two schedulers are in the job of one organization only when the lock of  *)
(* one of them expired under it.                                            *)
MutualExclusion ==
  \A s, t \in Schedulers, o \in Organizations :
    InJob(s, o) /\ InJob(t, o) /\ ~lapsed[s] /\ ~lapsed[t] => s = t

(* Every repeated mail is paid for: a row is sent once, and once more for    *)
(* each runner that works without the lock, each death, each failed Redis   *)
(* or database call and each expired lock.  (docs/deployment/               *)
(* operational-jobs.md:15 calls the jobs idempotent: this is how far they   *)
(* are.)                                                                    *)
DuplicatesAreAccounted ==
  \A n \in Notifications : sends[n] <= 1 + Cardinality(Runners) + faults + lapses

(* A mail row reported "sent" was handed to the provider, whoever updated   *)
(* the row last (the environments of the run all have mode "resend").       *)
SentWasHanded ==
  \A n \in Notifications :
    queue[n] = [status |-> "sent", channel |-> "email"] => sends[n] >= 1

(* docs/deployment/operational-jobs.md: the jobs are idempotent.  Running   *)
(* the notification job again, or twice at once, mails nobody twice.        *)
SentOnce == \A n \in Notifications : sends[n] <= 1

(* A settled row stays as it was settled: "sent" is not turned to "failed"  *)
(* by a second process that had listed the row earlier.                     *)
StatusSettles ==
  [][\A n \in Notifications :
       queue[n].status \in Settled => queue'[n].status = queue[n].status]_vars

(* docs/deployment/operational-jobs.md: notifications leave the queue when  *)
(* the scheduler runs.  They do as long as a scheduler found Redis at its   *)
(* start, whatever dies or expires meanwhile.                               *)
QueueDrains ==
  \A n \in Notifications :
    queue[n].status = "queued"
      ~> queue[n].status \in Settled \/ \A s \in Schedulers : ~connected[s]
=============================================================================
