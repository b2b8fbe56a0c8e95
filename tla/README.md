# VigIA safety: a verification development

TLA+ models of the VigIA platform (the repository this directory sits beside),
the TLC configurations that check them on small instances, and proofs that TLAPS
checks for every instance. Paths such as `services/scheduler.py` are relative to
`src/apps/api/src/vigia_api/`, and `edge:` stands for
`src/apps/edge-worker/src/vigia_edge_worker/`.

To check a module: `tlc -config <cfg> <MC module>`; to check its proofs:
`tlapm <module>_proofs.tla`. `PROJECT.json` lists every run, the lines each
definition translates, the hazards and the theorems.

## 1. Inventory: the system and its parts

A camera watches a site. An **edge worker** beside it detects people and
missing protective equipment, applies the rules of the zone and posts a
**detection** to the **API**. The API turns it into an **incident**, audits it,
queues a **notification** and keeps the **evidence** (a frame) for a while.
Operators acknowledge, resolve or dismiss incidents in a **web console**.
**Operational jobs** send the queued notifications, look for silent workers and
purge old evidence. Everything belongs to one **organization** (tenant).

| part | state it keeps | operations | talks to | what is hard | what makes it correct |
|---|---|---|---|---|---|
| Incident store: `persistence/repositories.py:30-355`, `services/incidents.py`, `api/v1/incidents.py` | tables `incidents`, `incident_audit_logs`, `notifications` | `create_from_detection`, `transition` (acknowledge, resolve, dismiss), lists | called by the edge registry and the incident API; feeds the notification queue | every request on its own thread, every statement group its own transaction: races between them, deaths between them | one incident per event, every caller told the same one; terminal is terminal; every status audited; every notifiable incident queued once |
| Notification queue and jobs: `services/jobs.py`, `services/scheduler.py`, `services/notifications.py`, `scripts/jobs_*.py` | rows of `notifications`; Redis keys `scheduler:<job>:<organization>` | list, send, `update_notification_status`; acquire, release | the mail provider, Redis | several schedulers, a lock with a TTL, the runner without a lock, a death between send and update | nobody mailed twice, nothing reported sent that was not, the queue drains |
| Edge buffer and delivery: `edge:buffer.py`, `edge:client.py`, `edge:main.py` | directories `pending`, `sent`, `failed` | `enqueue`, `due`, `mark_sent`, `mark_failed`, drain, heartbeat | the API over HTTP | outages, lost answers, a crash between two files, retries that run out | no detection lost, none delivered as two incidents |
| Edge worker registry and presence: `services/edge_workers.py`, `api/v1/edge_workers.py` | table `edge_workers`, the process's `camera_catalog` | register, revoke, heartbeat, config, `submit_detection`, offline alert | edge workers, incident store, evidence, catalog | in-memory catalog against the table, restarts, several API processes | a revoked worker stays revoked; only a silent worker is reported offline |
| Evidence: `services/evidence.py`, `services/evidence_storage.py` | table `evidence_metadata`, a per-process cache and policy, the object store | register, links, preview, list, purge | object store, jobs | four-step purge, stale caches | purged means gone, everywhere; nothing purged early; every access audited |
| Operations catalog: `services/operations.py`, `persistence/operations_repository.py`, `api/v1/operations.py` | sites, departments, workers, cameras, zones, rules, required PPE | create, update, delete of each | config of the edge workers, incidents | generated ids, saves that overwrite by column, cascading deletes, relations across tables and tenants | relations stay inside a site and a tenant; a delete takes nothing that is in use |
| Sessions, invitations, recovery: `services/auth.py`, `services/invites.py`, `services/account_recovery.py` | sessions, memberships, invites, tokens | login, refresh, logout; create, resend, revoke, accept; request, confirm | each other (a reset revokes sessions) | read-modify-write requests that race | a token works once; what was revoked stays revoked |
| Platform administration: `services/platform_admin.py` | organizations, an audit list | create, suspend, reactivate | authentication | several writes without a transaction | an organization has an owner |
| Detection hub and live streams: `services/detection_stream.py`, `services/live_stream.py`, `api/v1/streams.py` | subscriber queues, a configuration cache | subscribe, publish, unsubscribe | edge workers, browsers | threads against an event loop, bounded queues, a cached configuration | the newest frame arrives, the picture never goes back, a revoked worker falls silent |
| Request protection: `security/*.py` | rate-limit windows | allow | Redis | fallback, fixed windows | a limit is a limit |
| Edge rules, geometry, source: `edge:rules.py`, `edge:geometry.py`, `edge:source.py` | cooldown table, connection | apply, reconnect | detectors | equal and reordered timestamps | one violation, one event per cooldown |
| Detectors and evaluation: `edge:*detector*.py`, `edge:evaluation*.py`, ... | none | inference, metrics | ONNX | numeric | not modelled |
| Seeds: `scripts/seed_*.py` | rows of the catalog and of accounts | create what is missing, redraw, reset passwords | the same tables as the API | written beside a running system | leaves the relations as they must be |
| Wiring and settings: `main.py`, `container.py`, `db.py`, `settings.py` | none of its own | builds the objects | all | none | not modelled |
| Web console: `src/apps/web/` | caches of server state | forms and lists | API | late answers | not modelled; the server enforces every rule |

## 2. The modules

Most important first: what an incident goes through from the edge to the
operator's mailbox, then what surrounds it. There is one run per module, or per
composition, unless two questions need different instances. A module is written so
that it can be proved about: constants with named assumptions, one action per
transaction or step, no RECURSIVE operator.

| | modules | composes / implements | questions its runs ask | proved |
|---|---|---|---|---|
| 3 | `IncidentLifecycle`, `IncidentStore` | the store implements the lifecycle | races, deaths, a violation of the documents | types, idempotent ingest, at most one notification, no reopening, gaps cost deaths, the lifecycle unless two operators race |
| 4 | `NotificationJobs` | the queue that the store fills | lock, duplicates, liveness | types, lock kept, exclusion, sent once without faults, duplicates paid for by faults, lapses and runners |
| 5 | `EdgeDelivery`, `EdgeToStore` | spool, network and an ingest that is one step; then the same with `IncidentStore` in its place | deaths between files, lost answers, retries that run out | nothing lost, sent means ingested, attempts, backoff; the store implements the ingest |
| 6 | `EvidenceRetention` | policy, caches and purge of two processes | failure between purge steps, stale links, registration during a purge; whose term a purge goes by | types, nothing purged before its time by a process that knows the term, objects after their rows, purged means gone and audited |
| 7 | `OperationsCatalog` | two tenants, the seed and the detections of an edge worker | id collisions, torn rows, moves, cascades, delete against ingest | all its properties |
| 8 | `Sessions` | login, refresh, recovery | token reuse, sessions after a reset | types and the three safety properties |
| 9 | `Tenancy` | organizations, members, invitations | last owner, double acceptance, a creation that dies | types and the three safety properties |
| 10 | `WorkerRow`, `EdgePresence` | heartbeats, revocation, offline job, cooldown | who is reported offline, who comes back, which events a clock lets through | all its properties |
| 11 | `DetectionHub`, `LiveView` | the hub's queue, extended by the worker, the API's threads and the cache | frames after a revocation, frames lost or out of order | all its properties |

## 3. The incident store

`IncidentLifecycle` is the promise: per detection event at most one incident,
which starts open and moves along the table of allowed transitions; the operator
whose closing was accepted is remembered.

`IncidentStore` is `SqlAlchemyIncidentRepository` under concurrency. FastAPI runs
each request on a thread, and the repository opens a session, hence a
transaction, per statement group. One action is one transaction:

- a detector's `create_from_detection`: `LookupHit` or `LookupMiss` (the SELECT),
  `Insert` or `InsertConflict` (the commit or the unique violation), `Reread`,
  `AuditCreated`, `EnqueueNotification`;
- an operator's `transition`: `Decide` (the read, the checks, the change of the
  copy), `MergeLoad` (session.merge loads the row again), `Flush` (the UPDATE of
  the columns that differ from what was loaded), `AuditMove`;
- `AbortDetector`, `AbortOperator`: the thread dies; what it committed stays.

The read of `Decide` and the load of `MergeLoad` are steps of their own because
the UPDATE compares the copy with the second and not with the first: which columns
a late writer overwrites depends on both. Of a row the model keeps the status and
who stamped each move. The in-memory repository has the same operations, each
atomic, so its behaviours are among those of the model. Refused requests (404,
409, 422) change nothing and are stuttering steps. Lists and pagination are left
out.

| run | instance | shows |
|---|---|---|
| `store` | 2 detectors on 2 events (1 notifiable), 1 operator, 1 death | one incident and one notification per event; an incident out of step with its audit trail or missing in the queue costs a death; the stamps agree with the status; the store implements `IncidentLifecycle` |
| `store_terminal` | 2 operators | **violation**: a second writer replaces a terminal status |

Bounds. Two requests per kind are what a race takes; a third detector only repeats
the loser's path, and both may work on the same event or each on its own.
`RowCoherent` and the refinement hold with one operator at a time, and
`store_terminal` shows why not with two. `MaxAborts` bounds the deaths;
`GapsAreDeaths` counts them against what is missing, so it says that a race alone
never loses an audit entry or a notification, and also that a death can: nothing
repairs the gap later, since a repeated detection finds the incident and returns
early, and a repeated transition is refused. A request starts as often as it
likes. Deadlock is checked. That a detection is served at all is a question for
the edge that repeats it: see `path` in section 5.

## 4. The notification jobs

`NotificationJobs` takes the rows that `IncidentStore` enqueues (`Enqueue` stands
for it) and models the processes that settle them:

- `jobs_scheduler` processes: `StartCycle`, then per organization `Acquire`
  (SET NX EX with a fresh token), `Skip` or `AcquireError`, the job, and `Release`
  (the compare-and-delete script) or `ReleaseError`;
- the job `run_notifications`: `List`, then per row `SettleUnsent` or `Deliver`,
  and `Update`, which is a transaction of its own and overwrites what is there;
- a `jobs_runner`: the same job without the lock. Its optional `--incident-id`
  only narrows the list, which the model does not show;
- `JobRaises`: a call of the repository raises (`services/jobs.py:36, 71, 88`). The
  exception leaves `run_notifications`, `finally` (`services/scheduler.py:87-88`)
  releases the lock and `_record_locked_job` swallows it (`101-103`): the process lives on,
  and a row that was mailed but not updated is mailed again in the next cycle;
- `Die` (and restart with settings and a Redis ping of its own), `Expire` (the TTL
  of a dead holder's key ends), `Lapse` (the TTL ends under a living holder).

Rows of an organization are taken in any order, and organizations of a cycle too.
A provider call may raise before or after it took the mail. Each process has an
environment (`enabled`, `mode`, `configured`), since nothing makes two processes
share it. The other two jobs run under the same lock code and change nothing here.

| run | instance | shows |
|---|---|---|
| `jobs_locked` | 2 schedulers that may or may not have found Redis, 1 runner, 1 fault, 1 lapse, mail and mock rows | mutual exclusion unless a lock expired, every duplicate is paid for by a runner, a fault (a death, a job that raises, a failed Redis call) or a lapse, sent means handed over, the queue drains |

Bounds: `MaxFaults` (deaths, jobs that raise and failed Redis calls) and
`MaxLapses`; a token per scheduler and one for a key left behind are enough for
every acquire to find a fresh one. `QueueDrains` excepts the state in which no
scheduler found Redis at its start: `main()` pings once, and a scheduler that got
the `NullLockBackend` skips every job until it is restarted. All processes of the
run have mail switched on and configured; the theorems hold for every mixture of
settings.

Fairness: schedulers run for ever and are scheduled (`run_forever`); a started
runner is scheduled to its end; a key without holder reaches the end of its TTL.
Nothing forces a fault, an `Enqueue` or a runner to happen.

## 5. From the spool to the store

`EdgeDelivery` is one edge worker with its spool (`EDGE_BUFFER_PATH` set), the
network and the API's threads. The worker is one thread, so its program counter
says where it is; what makes the module interesting is that it may die at any
point of it, and that the API does not stop when the worker does.

- the loop of `main()`: `ListDue` (`due()` reads the files once), `TakeDue` per
  listed record, `DrainDone`, then the pipeline: `Emit` (a fresh event id,
  `enqueue`), `QuietFrame`, `PipelineEnds` unless the source is live;
- the POST: `Post` hands it to a thread, `Unreachable` does not; `LoseAnswer` is
  a timeout or a broken connection, after which the thread goes on; `Refuse` is an
  HTTP error, before or after the incident was committed; `Answer`;
- `mark_sent` is `Unlink` then `WriteSent`, and `MarkSentRaises` sends the record
  of a delivered detection to `mark_failed`, because one `try` covers both;
  `mark_failed` is `Retry` or `GiveUp` then `Drop`;
- `BackoffEnds`, `Crash`, `Restart`.

A file is its `attempts` and whether its backoff is over; each `os.replace` and
`unlink` is atomic and survives the process (a power cut is not modelled). Events
are drawn by `uuid4()`, so they are fresh. `ingested`, the set of events with an
incident, stands for the API, whose `create_from_detection` is the single step
`Ingest`.

`EdgeToStore` drops that assumption: it instantiates `EdgeDelivery` and
`IncidentStore` together, `ingested` becomes the events with a row in the incident
table, and a POST runs the store's transactions. `ImplementsDelivery` checks that
the composition still is an `EdgeDelivery`.

| run | instance | shows |
|---|---|---|
| `edge_spool` | 2 events, 2 threads, 2 attempts, 3 failures, 2 deaths, 1 disk error | nothing lost, sent means ingested, no early end, attempts in step with the POSTs |
| `path` | 1 event, 2 threads, 3 attempts, 2 failures, 1 death of the worker, 1 disk error, 1 death in the store | `EdgeDelivery` is implemented; the queue empties; the alert is queued unless a request died in the store |

Bounds. Three failures against two attempts let a record fail for good, and be
posted by a restarted worker; two threads are one for an abandoned POST and one
for its repetition. `path` has one event, which several POSTs race over; two
events in one drained batch are in `edge_spool`. It allows fewer failures than
attempts, because a record that fails `EDGE_BUFFER_MAX_ATTEMPTS` times stays in
`failed/` by design. `AlertQueued` excepts a request that died between
incident and notification: the edge's repetition does not heal it.

Fairness: the worker's thread and the API's threads are scheduled, a backoff ends,
and a dead worker is restarted (`restart: unless-stopped` in
`src/infra/compose/docker-compose.dev.yml`). No detection, fault or quiet frame has
to happen.

## 6. Evidence and its retention

`EvidenceRetention` is the evidence of one organization in two processes: the API,
which registers evidence, hands out links and purges for an operator, and the
scheduler, which purges each interval. Both have an `EvidenceService` with a cache
of the rows it wrote (`cache`; only the API writes any) and a policy of its own
(`policy`), and share the table (`row`), its audit trail (`audited`) and the bucket
(`object`).

- `Register` replaces the cached object, `SaveRow` is the transaction that writes
  what the cached object says by then, `LinkUpload` audits and presigns;
  `RequestFails` is an exception in between. A detection of an edge worker
  registers its frame too, and each repetition of it does so again;
- `Put` is the client's upload while the link lasts (`Tick` ends it), `PutFrame`
  the edge worker's, which comes before the detection; `Download` looks in the cache
  before the table, as `_find_evidence` does;
- a purge is `Preview` (cache merged over rows), then per listed item `Skip`, or
  `Take` (the timestamp on the object, which is the cached one if there is one),
  `Mark` (the row's transaction) and `Delete` (the bucket), and after the last item
  one `Audit` per item, or `AuditNothing`; `PurgeRaises` ends it anywhere, and a
  delete that raises may have been carried out;
- `SetPolicy`, `Die` (the process loses its cache, its policy and what it was doing).

`term` is the term that the organization has set and `told` the processes that were
given it since they started, so that a purge can be judged by what the organization
asked for (`due`) and not by what its process knows (`limit`).

A day is the unit of time, a retention term a number of days, all evidence is a
snapshot. `raced`, `broken`, `late`, `apart` and `dead` are history: which file was
registered again while a purge had it listed, which a failed purge left, which was
uploaded over a purged row, whose cache and row were written apart, and whose link
was handed out after its purge. Properties name with them the exceptions that the
code has, so that everything else is asserted.

| run | instance | shows |
|---|---|---|
| `evidence` | a frame and a photo, days 0 and 1, terms 0 and 2 (set) and 1 (default), 2 registrations, 1 policy, 1 failure | a purge marks a row before the organization's term only in a process that was not given it, and deletes objects after their rows; what is left behind or unaudited is explained by a purge that failed or an upload that came late; a link to purged evidence needs a cache out of step; overdue rows go |
| `evidence_terms` | the same files, term 2 (set) and 1 (default), 1 registration, no failure | **violation**: an organization sets a longer term than the default, and the scheduler's purge marks its rows by the default |

What the exceptions say of the code: only the process that served the request knows
the organization's term, and only until it restarts (`evidence_terms`); an object
whose purge failed after `Mark` is never removed, because the next purge skips the
deleted row, and its purge is never audited; a purge by the scheduler is not seen by
the API's cache, which serves the link until the API restarts; and a detection
posted again after its evidence was purged makes the row young again, without an
object.

Bounds. Two files are what one purge needs to have an item done and another in
hand; two registrations allow one of each file, or one and its repetition while a
purge runs; one failure is the exception that the invariants name, and after it the
next purge is seen. One day is enough for a row to be due by the default term; the
term 0 makes a row due on the day it is registered, and the term 2 is longer than
the default, so that a process without it purges too early. Each process has one purge
and the API one registration at a time: an operator who starts a second purge beside
the first is not modelled. `CHECK_DEADLOCK FALSE`, because after the last day, with
nothing left to purge, every bounded action is used up.

Fairness: the scheduler's purge steps are fair, since `run_forever` starts the job
each interval and a purge runs to its end. The lock it runs under is
`NotificationJobs`' subject. The model has `scheduler_evidence_retention_confirm`
on; by its default (`settings.py:97`) the job only lists and `ExpiredGoes` would
need an operator.

## 7. The operations catalog

`OperationsCatalog` is the tables of sites, departments, workers, cameras, zones,
rules and required PPE of several organizations, with the id of each row and its
foreign keys and nothing else. `backend` chooses between the two repositories.

- Against Postgres a request is a sequence of transactions: `Start`, one `Load` per
  row that the service looks up (`Order`), `Number` (each create function counts the
  organization's rows and takes the next number,
  `persistence/operations_repository.py:86, 121, 169, 216, 273, 303`), or `Check`,
  then `Merge` and `Flush`, or `Delete`. `Merge` is the SELECT of `session.merge`,
  `Flush` the UPDATE at commit of the columns that differ from what was selected
  (`31-34`). `Abandon` is a refusal, a failed transaction or a dead thread. `Delete`
  takes what the foreign keys cascade to (`Cascade`), in one transaction.
- In memory a request is one step: `MemoryCreate`, `MemoryUpdate`, `MemoryDelete`.
  `InMemoryOperationsRepository` has no lock, but nothing in a call gives up the
  interpreter for long; that two such calls overlap is not modelled.
- HTTP creates, changes and deletes sites, cameras and zones (`HttpCalls`). The demo
  seed creates what it misses of every table (`SeedCalls`), through the same
  repository, while the API runs; its ids have number 0.
- `WorkerConfig` and `Detection` are the edge worker: it may report any of its
  cameras with any zone that its site had when it read its configuration, and an
  incident keeps both as text, without a foreign key.

`past`, `torn` and `late` are history: every row that was saved or stored under an id,
the ids whose row has columns of two saves that crossed, and, per delete in flight,
what was saved or reported after its check.

| run | instance | shows |
|---|---|---|
| `catalog` | 2 organizations (one with 2 sites, a camera in each and one more in the first, a zone and a rule), 1 name, 2 requests, numbers to 3, 3 calls, 1 incident | a row leads to another tenant only over an id both have used; a zone is in a site its camera was in, unless its row is torn; a delete takes nothing it should spare but what came after its check |

What the exceptions say of the code: an id is a name and the number of rows left,
so after a delete the next create computes an id that exists, and
`session.merge` replaces the row whoever it belongs to. Two saves of one row that
cross leave it with the organization of one and a reference of the other, or with
the site of one and the camera of the other, a combination that neither checked. A
camera that moves to another site leaves its zones behind. `delete_camera` counts
incidents in one transaction and deletes in the next, and it counts its own: a zone
that has incidents with another camera goes with it (section 13).

Bounds. Three calls are a delete, a create that gets the id again, and a third
that uses it; two requests at once are what the checks race with, and two updates of
the zone that cross with two cameras to choose from are how a row is torn. One name
suffices, because ids of different names never meet. `CHECK_DEADLOCK` stays on.

## 8. Sessions and account recovery

`Sessions` is `services/auth.py` and `services/account_recovery.py`: passwords (as
numbers, one per change), session rows, recovery tokens. A request is a sequence
of repository calls, each a transaction.

- `Login` checks the password; `Refresh` reads the row by its token's hash, `Rotate`
  saves it as revoked; `Open` saves the new row of either; `Logout` reads, `Close`
  saves;
- `Ask`, `Issue`, `Mail` are the request for a reset or a verification; a token is
  `known` once mailed;
- `Confirm` reads the token, `MarkExpired` saves that it is over, `Apply` sets the
  password or verifies the address, `Select` looks the unrevoked sessions of the
  user up and `Revoke` revokes those at commit
  (`persistence/auth_repository.py:71-75`; in memory `Revoke` is one step over all
  sessions, and `RevokeSome` is the loop over the dictionary in memory, which fails
  when a session is added under it), `Use` saves the token as used;
- `Abandon` (a request dies between two calls), `Elapse` (a session or a token
  passes its `expires_at`), `Seed` (`seed_demo.py` writes its accounts and their
  password again).

`unrevoked`, `spent`, `reread`, and `raced` and `shared` of a session, are history.
`unrevoked` are the users whose password changed and whose sessions nobody has looked
up and revoked since; `raced` marks a session whose opening (or that of one it comes
from) was under way when sessions were looked up or revoked.

| run | instance | shows |
|---|---|---|
| `sessions` | 2 users (1 of the seed), 3 sessions, 2 tokens, 2 requests, 2 password changes, 5 calls, 1 expiry | a session does not outlive its password unless it was being opened while the sessions were looked up or revoked; a refresh token has one successor, and a recovery token works once, unless two requests read it before either saved |

The exceptions are behaviour of the code: a refresh that read its row before a
reset saves its new session after it, or begins between the SELECT and the COMMIT of
the revocation, and that session survives; two refreshes
with one token both succeed, since nothing detects reuse; two confirmations with
one token both set the password; and the seed changes a password without
revoking anything.

Bounds. Two requests are every race between a pair of calls; five calls are a
login, a request and a confirmation of a reset, and two refreshes. Three sessions
are one and its two racing successors, or two of one user and one of the other. Sessions,
tokens and requests are interchangeable and the run uses this symmetry.
`CHECK_DEADLOCK FALSE`, because the bounded calls are used up.

## 9. Organizations, members, invitations

`Tenancy` is `services/invites.py`, `services/platform_admin.py` and the member part
of `services/auth.py`, `api/v1/members.py` and `api/v1/platform.py`. Permissions are
checked where a request begins (`May`, `AllowedRoles`), and what it read then is
what it works with:

- `CreateInvite`, `SaveInvite`; `Accept` reads the invitation, then come
  `FindUser`, `AddUser`, `Join`, `SaveOutcome`; `Revoke`, and an acceptance that
  finds the invitation expired, go to `SaveOutcome` directly; `Resend`,
  `SaveResent` (a new token, hence `gen`). The endpoints of `Resend` and `Revoke`
  look the invitation up in a dictionary that only the repository in memory has,
  so against Postgres they never act;
- `CreateOrganization`, `SaveOrganization`, then `FindUser`, `AddUser` and `Join`
  for the owner; `SetStatus`, `SaveStatus` suspend and reactivate;
- `Patch` checks `OwnerGuard`, `Update` writes the membership (a removal makes the
  member inactive);
- `Abandon`, `Elapse`.

Saving an invitation and mailing its token are one step, because nobody has the
token before the mail, and a mail that fails is an invitation nobody accepts.
`contested`, `unfinished`, `grants` and `stale` are history. A request past its owner
guard is `stale` once an active owner of its organization went, or a first one came.

| run | instance | shows |
|---|---|---|
| `tenancy` | 2 organizations (1 founded, its owner, an admin), 4 users, 3 addresses, 2 invitations, 3 roles, 1 resend, 2 requests, 3 calls | an organization has members unless its creation died; an uncontested invitation admits once and says so; the last owner goes only by a change whose guard had passed before another owner went, or by his own acceptance of an invitation to a lower role |

The exceptions are behaviour of the code: the writes of `create_organization` are
separate transactions, and a death between them leaves an organization nobody
administers; two owners who demote each other at once both pass the guard; and
accepting an invitation replaces the role of a member, the last owner's too,
without asking the guard.

Bounds. Three calls are two invitations and an acceptance, or an invitation and
two acceptances, or two changes of members after a third; two requests at once
are what every guard races with. The role `auditor_viewer` stands for the roles
that manage nothing. `CHECK_DEADLOCK FALSE`, as for the sessions.

## 10. Presence of an edge worker, and its cooldown

`EdgePresence` is one worker's row in the API (`services/edge_workers.py`), the
worker's frame loop (`edge:main.py`), the offline job, and `DetectionCooldown` of
`edge:rules.py`. Time is a count of coarse ticks. `WorkerRow` declares what the
live view shares with it: the time, the row's status and the API's threads.

- `Start`, `Die`, `Frame` (one turn of the loop, which checks whether a heartbeat
  is due), `CycleEnds`; `Heartbeat` hands the request to a thread of the API, which
  checks the token there and records the beat later (`WriteBeat`, with the time it
  took at its begin); `AfterBeat` is the answer, `BeatFails` a timeout, after which
  the thread goes on;
- `Emit` and `QuietFrame`: the cooldown decides by the frame's timestamp, and
  timestamps may come equal and out of order, as a camera's clock can give them;
- `Revoke`, `RestartApi`, `JobStarts` and `JobReports`: the job takes its time first
  and reads the row after it.

`clean` and `events` are history.

| run | instance | shows |
|---|---|---|
| `presence` | 2 threads, interval 1, threshold 2, cooldown 2, stamps 0 to 2, 4 ticks | a worker reported offline did not have its beats answered and frames delivered in time; two events are a cooldown apart, whatever order the frames come in; a revoked worker stays revoked |

What the exceptions say: the loop sends the heartbeats, so a worker whose camera
delivers nothing for longer than the threshold is reported offline while it runs.

Bounds. Two threads are an abandoned heartbeat and a new one, which may be recorded
in either order. Four ticks are a beat, the threshold and one past it. Three
stamps have a pair within the cooldown and one at it. Only the number of ticks is
bounded. Deadlock is checked: at the last tick the worker and the API go on.

## 11. The live view

`DetectionHub` is `services/detection_stream.py` for one subscriber: `Subscribe`,
`Unsubscribe`, `Publish` (which only schedules a callback on the event loop),
`RunCall` (`_put_latest` on the bounded queue) and `Show` (the browser reads).
`LiveView` extends it by the worker that posts analyses and waits for the answer
(`Analyse`, `GiveUp`), the API's threads (`Fetch`, `FetchRefused`, `StoreConfig`,
`PublishFrame`), the cached configuration that admits them (`expiry`),
`RevokeWorker` and `RestartStreams`. A frame is its number, and time a count of
coarse ticks. `revokedAt`, `overlap` and `latest` are history.

| run | instance | shows |
|---|---|---|
| `live_view` | 2 threads, a cache of 2 ticks, a queue of 2, 5 ticks, 5 frames | after a revocation the cache admits frames for its term at most; the newest frame is always on its way to who watches, and the picture never goes back unless the worker gave up on an answer |

Bounds. Five frames fill the queue of two twice over; five ticks are an entry made
before the revocation, its end, and one more. Two threads are an abandoned request
and the next one, which is how frames overtake. Other subscribers have queues of
their own and would repeat this one.

There is no fairness in sections 7 to 11: their properties are about what may be
reached and what a step may do. The operators that a comment marks as a mutant
(here and in the other modules) are in no action: each is a plausible slip in the
definition beside it, and shows which property would notice.

## 12. What is proved

`IncidentStore_proofs`, for any sets of requests, events, incidents and rows, any
number of deaths and any settings, from `StoreAssumption` alone:

- `TypeCorrect`: `TypeOK`, with `Locals` (what each local variable may hold at
  each program point), is inductive.
- `StoreInvariant`: `StoreInv` is inductive. It adds to the types that an event
  has one row (`UniqueRows`), that two requests never create the same incident
  (`CreatorsDiffer`) and that a notification row comes after the "created" entry
  of a request that has passed it (`CreationInOrder`); `RepliesAgree` alone is not
  inductive because nothing in it keeps a second row away.
- `IngestIsIdempotent` (`RepliesAgree`), `NotifiedAtMostOnce`
  (`NotifiedOnceAfterAudit`) and `NoReopening` (`NeverReopened`: no step takes an
  acknowledged, resolved or dismissed incident back to open) follow.
- `GapsCostDeaths` (`GapsAreDeaths`): `GapInv`. Every step but a death leaves the
  two sets of gaps as they are or smaller (`NoNewGaps`), and a death adds at most
  the incident its request worked on (`NamesOwn`), so nothing need be assumed about
  the size of the constants.
- `UnracedRowsCohere` (`RowCoherent`) and `UnracedImplements`
  (`ImplementsLifecycle`), while `Unraced` holds: no two operators are between the
  read and the write of one incident. Any number may work on different incidents,
  and detections, deaths and repeated requests are as free as ever. `CopiesFresh`
  carries both: what a request is about to write is the row as it stands, moved
  along the transition table and stamped by its operator. It is what a second
  operator breaks in `store_terminal`, so the hypothesis cannot be dropped. The
  refinement maps `Insert` to `Open` and `Flush` to `Move`; every other step is a
  stutter, because nothing else writes the table (`TableWrites`).
- `SerialRowsCohere`, `SerialImplements`: with one operator `Unraced` always holds,
  so both are true of `Spec` alone. This is the instance of `store`.

`NotificationJobs_proofs`, from `JobsAssumption`:

- `JobsInvariant`: `IInv` is inductive: types, what the locals hold at each program
  point, and that a token under a key belongs to at most one scheduler.
- `JobsTypeCorrect`, `LockIsKept` (`HolderKeepsLock`), `JobsExclude`
  (`MutualExclusion`), for any number of faults and lapses.
- `OrderlySendsOnce`, `OrderlySettles`: with no runner, no fault (a death, a job
  that raises, a failed Redis call) and no lapse (`Orderly`), `SentOnce` and
  `StatusSettles`. The strengthening `SerialInv` says that a row in a scheduler's
  batch is queued and unsent until its own turn.

- `SentIsHanded` (`SentWasHanded`): with every process in mode `resend`, and any
  deaths, lapses and runners. `HandInv` says that a process about to write `sent`
  for a mail row has called the provider for it.
- `DuplicatesCostFaults` (`DuplicatesAreAccounted`), if the runners are finitely
  many, without which the bound is no number. `Account` is a budget per row: while
  it is queued, the mails sent and those still owed by a process that listed it are
  no more than the processes that listed it and the faults, raising jobs included;
  schedulers that listed it exclude each other but for lapses (`FewListers`, from
  `MutualExclusion`); and the first update closes the list, after which the budget
  can only be used up.

`EdgeDelivery_proofs`, from `EdgeAssumption`:

- `EdgeInvariant`: `IInv` is inductive. `EdgeLosesNothing` (`NothingLost`),
  `EdgeSentIsIngested`, `EdgeGivesUpLate`, `EdgeCountsAttempts` and
  `EdgeTypeCorrect` are its parts. What they need besides each other: what the
  worker's step says about the record it holds (`HeldInv`: a record at `unlink` is
  ingested, one at `drop` is in `failed/`), that a listed record still says what
  its file says (`BatchInv`), that a thread succeeds only with an incident
  (`CallInv`), that nothing precedes its detection (`HistoryInv`) and how far the
  counted attempts are from the POSTs (`CountInv`).
- `EdgeKeepsBackoff` (`BackoffKept`), for steps, from the same invariant.

`EvidenceRetention_proofs`, from `DaysAssumption` and `FilesAssumption`:

- `EvidenceInvariant`: `IInv` is inductive. `EvidencePurgedIsGone`,
  `EvidencePurgedIsAudited` and `EvidenceTypeCorrect` are parts of it. Neither
  safety property is inductive alone, because a registration may save a cached
  object that a purge marked: `CacheInv` gives the cached object the same
  excuses as its row, `ShapeInv` says what a purge holds at each step.
- `EvidencePurgesAreDue`, `EvidenceObjectsStay` and `EvidenceDeadLinks` are about
  steps. They need that dates only grow from row to cache to today (`DateInv`),
  that a listed file was due by its row or has been registered since (`ListInv`),
  that a process that was given the organization's term goes by it (`TermInv`), and
  where a cache may contradict a deleted row (`StaleInv`).
- `DefaultTermIsKept`: `TermsAreKept`, the promise that `evidence_terms` violates,
  holds of an organization that never sets a term, in every process.

`OperationsCatalog_proofs`, from `CatalogAssumption`:

- `TypeCorrect` (`TypeOK`, with what a call in flight may hold), `TenantsCorrect`
  (`TenantsMeetInSharedIds`), `ZonesCorrect` (`ZonesFollowCameras`). Neither is
  inductive alone: a call carries the relations it checked to a later save, so
  `CallsVouched` says that what a call has loaded was once a row of its
  organization (and in its site), and `RowsVouched` the same of stored rows, or, of a
  torn row, of the saves whose columns it mixes: `FlushWrites` says that each column
  is the call's or the one that is there. Both are stable because `past` only grows.
- `DeletesCorrect` (`DeletesSpare`): `DeleteInv` says that foreign keys hold
  (`Whole`), that what a check established is true up to what came after it
  (`Checked`), and that the rows a cascade takes are all that depend on the deleted
  one (`CascadeComplete`: four steps reach every dependent row, by `Depth`).

`Sessions_proofs`, from `SessionsAssumption`:

- `TypeCorrect`, with what each request holds at each step (`LocalsOK`).
- `SuccessorCorrect` (`OneSuccessor`): `SuccInv` says of two requests that rotate the
  same row, or of one that does and a session it has already become, that both
  know it (`shared`).
- `PasswordCorrect` (`SessionsEndWithPassword`): `PassInv` says what it does of the
  requests that are about to open a session, and `SelInv` that a request which has
  looked sessions up, and not revoked them yet, misses none of those it should
  revoke but what was opened or being opened since, which is marked.
- `TokensCorrect` (`TokensWorkOnce`): `TokInv` counts what a token has done against
  where its only holder is.

`Tenancy_proofs`, from `TenancyAssumption`:

- `TypeCorrect`, again with `LocalsOK`.
- `FoundersCorrect` (`FoundersBelong`): `FoundInv`; a membership never goes away.
- `OwnersCorrect` (`LastOwnerLeaves`): `GuardInv` says that a change which takes an owner
  away, and is not `stale`, leaves another one, and `OneOwnerLeaves` that a single
  write takes one owner.
- `InvitesCorrect` (`InvitesAdmitOnce`): `AdmitInv`, which `AdmitOne` proves per
  invitation, counts its memberships against where its only holder is.

`EdgeWorker_proofs`, first about `EdgePresence`, from `TimeAssumption`,
`NoneAssumption`, `IntervalAssumption` and `CooldownAssumption`:

- `TypeCorrect`; `RevokedCorrect` (`RevokedStaysRevoked`); `EventsCorrect`
  (`EventsSpaced`), from `RulesInv`: the cooldown remembers the latest event;
- `SilenceCorrect` (`OfflineIsSilence`): `SilenceInv` says how old the row's beat may
  be at each point of the loop (`Covered`).

and about `LiveView`, from the first two, `ViewAssumption` and `QueueAssumption`:

- `ViewInvariant`: `ViewInv` is inductive. `ViewTypeCorrect`, `ViewFallsSilent`
  (`RevokedFallsSilent`) and `ViewCatchesUp` (`ViewersCatchUp`) follow.
- `SilentInv`: a cached configuration ends at most `TTL` after the revocation,
  because its term counts from the begin of the request that read it, and a request
  that has read the row began before the revocation.
- `NewestInv`: the frame published last is the last scheduled callback or, without
  one, the last of the queue or, without either, on the screen. It is inductive only
  with what an unwatched hub holds, which is nothing.
- `OrderInv`, while the worker has not given up on an answer: there is one request,
  its frame is the youngest, and screen, queue and callbacks ascend in this order.
  `PutLatestKeeps`, `AppendOrder`, `TailOrder` and `ConcatOrder` are the facts about
  sequences behind it.

and about `EdgeToStore`, from `PathAssumption`:

- `PathImplements` (`ImplementsDelivery`): every step of the composition is a step
  of `EdgeDelivery` over the events that have an incident, or a stutter. `Insert` is
  `Ingest`, the transaction that returns is `Complete`, a request that dies in the
  store is `Refuse`, and the rest of `create_from_detection` stutters. It needs
  `PathInv`: a thread at work creates the incident of the event it serves and has
  not succeeded yet, and from the insert on it names an incident of that event.
  What is proved of `EdgeDelivery` above therefore holds of the composition, by
  reading the theorems one after the other: the prover does not apply a theorem of
  a module to an instance of it.
- `PathUsesStore`: every step of the composition is also a step of `IncidentStore`
  without operators, or leaves the tables alone, so that what is proved of the store
  holds here in the same way.
- `PathAlerts` (`SentIsAlerted`, the safety half of `AlertQueued`): a detection filed
  under `sent/` has an incident and, when notifiable, a row in the notification
  queue, unless the request that created it is about to write the row or requests
  have died in the store. The exception for a request still at work is needed: a
  repeated POST that finds the incident succeeds before the abandoned POST that
  inserted it has queued the notification. The invariant has three parts: `PathInv`;
  `SentInv`, by which a POST succeeds, is answered and is filed only after its
  event is ingested; `AlertInv`, by which an ingested notifiable event has its row,
  its creator or a death.

`NeverReopened`, `HolderKeepsLock`, `SentOnce`, `StatusSettles`, `BackoffKept` and
`SentIsAlerted` are proved and in no run.

Only model-checked: the liveness properties `QueueDrains`, `QueueEmpties`,
`AlertQueued` and `ExpiredGoes`, since liveness under fairness is beyond the prover.
Every other property of a passing run is a theorem, `RowCoherent` and
`ImplementsLifecycle` of `store` for every behaviour in which operators do not race.

## 13. Disagreements between code and documents

Two are shown by a run that finds the document's sentence violated:

- `store_terminal`. `docs/architecture/incident-lifecycle.md:36`: "`resolved` e
  `dismissed` são estados terminais". Two operators who both read an incident while
  it was open both write it, and the later one replaces the earlier's terminal status.
- `evidence_terms`. `docs/security/evidence-retention.md:9-10`: "Cada organização
  define sua retenção padrão" and "O sistema deve suportar políticas diferentes por
  tenant". The term is known to the API process that received it, until it restarts;
  the scheduler purges by the default. `PurgesAreDue` states what remains.

The following the models contain too. Each is the exception that a property names, so
that the run passes beside the sentence; the property says that nothing else breaks it.

- `docs/deployment/operational-jobs.md:15`: "Os jobs são idempotentes e
  tenant-safe". A row is mailed again after a death or an exception between the
  provider's call and the update, after a failed Redis call or an expired lock, and
  by a runner, which takes no lock. `DuplicatesAreAccounted` counts how often.
- `docs/security/evidence-retention.md:24`: "Garantir exclusão segura ao final do
  prazo". An object whose delete failed after its row was marked stays for good
  (`broken` in `PurgedIsGone`), and its purge is never audited.
- `docs/architecture/operations-catalog-mvp.md:14`: "relações entre site, câmera,
  zona, trabalhador e regra devem pertencer ao mesmo tenant", and
  `docs/security/tenant-isolation-threat-model.md:27` lists "cross-tenant
  read/write". Ids that two organizations compute alike are one row, a save takes it
  over whoever it belongs to, and two saves that cross can tear it.
  `TenantsMeetInSharedIds` confines this to such ids.
- A zone's camera is to belong to the zone's site
  (`persistence/operations_repository.py:214-215`). A camera that moves leaves its
  zones behind, and a torn zone has the site of one save and the camera of another:
  `ZonesFollowCameras`.
- `persistence/operations_repository.py:325-327`: "Zona com incidente no histórico
  não é apagada", and `341-342` names the cascade as a reason to refuse the camera.
  `delete_camera` asks only for incidents of the camera: a zone whose incidents name
  another camera (a worker may report any of its cameras with any zone of its site)
  goes with its own, without any race. `DeletesSpare` excepts exactly these, and
  what came after the check.
- `docs/security/password-reset-email-verification.md:6`: "Password reset completion
  revokes existing sessions for the user". A session that was being opened meanwhile
  stays: `raced` in `SessionsEndWithPassword`.
- The same page, line 4: tokens "are one-time use". Two confirmations that read the
  token before either saved it both set the password: `reread` in `TokensWorkOnce`.
  Likewise `docs/security/auth-session-strategy.md:4`, "rotated on every refresh":
  two overlapping refreshes get a session each (`shared` in `OneSuccessor`).
- `docs/architecture/org-invites.md:3`: "Invites are one-time tokens". Two
  acceptances, or (with the repository in memory) an acceptance and a revocation,
  that read the invitation before either saved it both take effect: `contested` in
  `InvitesAdmitOnce`.
- `docs/architecture/database-constraints.md:27`: "Não permitir remover, suspender
  ou deletar o último membro ativo com papel `org_owner` de uma organização", and
  `api/v1/members.py:31` "last active org_owner cannot be changed". Two owners who
  demote each other at once both pass the guard, and the last owner who accepts an
  invitation to a lower role asks no guard at all, without any race:
  `LastOwnerLeaves` names the two.

And these need no property, since a reading settles them: a worker on a live camera
does not return to its queue, because the frame loop does not end
(`docs/architecture/risks.md:11` counts on "Buffer local, reenvio idempotente");
heartbeats stop with the frames, so that a worker whose camera is silent counts as
offline; a scheduler whose one ping at the start failed skips every job until it is
restarted (`docs/deployment/operational-jobs.md:16` calls it "falha seguro"); and the
dictionary of cameras is one per process and no start fills it.

## 14. What is not modelled

- Detectors and offline evaluation: numeric code without a protocol. Geometry is a
  pure function of one frame, and the models choose its outcome.
- Wiring, settings, logging, metrics: what they decide (which repository, which
  settings) is a constant or an initial choice of the modules.
- The web console: the server enforces every rule it shows.
- Rate limits: the window counts requests and nothing else, apart from its two
  copies (Redis and memory), for whose sum no bound is promised. CSRF and origin
  checks, live tickets and stream authentication are predicates over one request.
- The audit list of platform administration, which nothing reads but its page.
- In the edge registry, registration (the initial state) and `camera_catalog`, which
  a worker sees as a refused POST. In the spool, a worker without
  `EDGE_BUFFER_PATH`. In the hub, further subscribers.
- In the evidence service, kinds that no handler registers, a file under two object
  keys, two purges or two registrations at once in one process.
- Password hashing, token formats, HTTP parsing, lists and pagination.

`PROJECT.json` names the hazards that no property covers, each with its reason.
