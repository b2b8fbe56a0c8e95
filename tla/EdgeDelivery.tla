---------------------------- MODULE EdgeDelivery ----------------------------
(***************************************************************************)
(* The edge worker's spool of detections (buffer.py) and the loop that     *)
(* delivers them to the API (main.py, client.py).                          *)
(*                                                                         *)
(* A detection is written to pending/ before it is posted.  An answer      *)
(* moves it to sent/, any exception counts an attempt, and the last        *)
(* attempt moves it to failed/.  The worker process may die between any    *)
(* two file operations, a POST may be lost, refused, or go on being served *)
(* after the worker gave up waiting, and the disk may refuse a write.      *)
(* EDGE_BUFFER_PATH is set: without it there is no spool.                  *)
(***************************************************************************)
EXTENDS FiniteSets, Integers

CONSTANTS
  Events,         \* event ids that uuid4() may draw
  Threads,        \* threads of the API
  MaxAttempts,    \* EDGE_BUFFER_MAX_ATTEMPTS
  Live,           \* the frame source is a live camera: its frames never end
  MaxFailures,    \* bound: POSTs lost, timed out or refused
  MaxCrashes,     \* bound: deaths of the worker process
  MaxDiskErrors,  \* bound: file operations of mark_sent that raise
  None

ASSUME EdgeAssumption ==
  /\ MaxAttempts \in Nat
  /\ Live \in BOOLEAN
  /\ MaxFailures \in Nat
  /\ MaxCrashes \in Nat
  /\ MaxDiskErrors \in Nat
  /\ None \notin Events \cup Threads \cup Nat

VARIABLES
  pending,        \* pending/<event>.json: its "attempts", None without a file
  waiting,        \* the pending files whose next_attempt_at is not reached
  sent, failed,   \* the events with a file in sent/ and in failed/
  pc, batch, cur, attempts, back, call,  \* the worker process, see below
  serving, done,  \* what each API thread serves, and whether it has succeeded
  ingested,       \* the events with an incident
  emitted, tries, \* history: events detected, and POSTs made for each
  faults          \* failures, crashes and disk errors so far

spool == <<pending, waiting, sent, failed>>
worker == <<pc, batch, cur, attempts, back, call>>
api == <<serving, done, ingested>>
vars == <<spool, worker, api, emitted, tries, faults>>

-----------------------------------------------------------------------------
HasFile == {e \in Events : pending[e] # None}

NeverRetried == {e \in HasFile : pending[e] = 0} \* mutant: fresh records only
Due == HasFile \ waiting

FirstAttempt(r) == 1                \* mutant: the attempts on file are ignored
NextAttempt(r) == r.attempts + 1

NoFaults == [failures |-> 0, crashes |-> 0, disk |-> 0]
Failure == /\ faults.failures < MaxFailures
           /\ faults' = [faults EXCEPT !.failures = @ + 1]
DiskError == /\ faults.disk < MaxDiskErrors
             /\ faults' = [faults EXCEPT !.disk = @ + 1]

Init ==
  /\ pending = [e \in Events |-> None]
  /\ waiting = {}
  /\ sent = {}
  /\ failed = {}
  /\ pc = "start"
  /\ batch = {}
  /\ cur = None
  /\ attempts = 0
  /\ back = "drain"
  /\ call = None
  /\ serving = [t \in Threads |-> None]
  /\ done = [t \in Threads |-> FALSE]
  /\ ingested = {}
  /\ emitted = {}
  /\ tries = [e \in Events |-> 0]
  /\ faults = NoFaults

-----------------------------------------------------------------------------
(* The loop of main(): drain what is due, then run the pipeline.            *)

(* run_once reaches _drain_buffer: due() reads the files once. *)
ListDue ==
  /\ pc = "start"
  /\ batch' = {[event |-> e, attempts |-> pending[e]] : e \in Due}
  /\ pc' = "drain"
  /\ UNCHANGED <<spool, cur, attempts, back, call, api, emitted, tries, faults>>

(* The next record of the drain is posted. *)
TakeDue ==
  /\ pc = "drain"
  /\ \E r \in batch :
       /\ batch' = batch \ {r}
       /\ cur' = r.event
       /\ attempts' = NextAttempt(r)
  /\ back' = "drain"
  /\ pc' = "post"
  /\ UNCHANGED <<spool, call, api, emitted, tries, faults>>

DrainDone ==
  /\ pc = "drain"
  /\ batch = {}
  /\ pc' = "pipeline"
  /\ UNCHANGED <<spool, batch, cur, attempts, back, call, api, emitted, tries, faults>>

EmitUnspooled(e) ==                 \* mutant: posted before it is written
  /\ pc = "pipeline"
  /\ e \notin emitted
  /\ emitted' = emitted \cup {e}
  /\ cur' = e
  /\ attempts' = 1
  /\ back' = "pipeline"
  /\ pc' = "post"
  /\ UNCHANGED <<spool, batch, call, api, tries, faults>>

(* A frame gives a detection with a fresh event id; enqueue() writes it. *)
Emit(e) ==
  /\ pc = "pipeline"
  /\ e \notin emitted
  /\ emitted' = emitted \cup {e}
  /\ pending' = [pending EXCEPT ![e] = 0]
  /\ cur' = e
  /\ attempts' = 1
  /\ back' = "pipeline"
  /\ pc' = "post"
  /\ UNCHANGED <<waiting, sent, failed, batch, call, api, tries, faults>>

(* A frame without a detection, or whose detections the rules hold back. *)
QuietFrame ==
  /\ pc = "pipeline"
  /\ UNCHANGED vars

(* A file or a bounded source ends; after poll_interval_seconds the loop of *)
(* main() starts over.  A live source reconnects instead.                   *)
PipelineEnds ==
  /\ pc = "pipeline"
  /\ ~Live
  /\ pc' = "start"
  /\ UNCHANGED <<spool, batch, cur, attempts, back, call, api, emitted, tries, faults>>

-----------------------------------------------------------------------------
(* send_detection: one POST, and whatever happens to it                     *)

Tried == tries' = [tries EXCEPT ![cur] = @ + 1]
ToWorker(next) == pc' = next /\ call' = None

Post(t) ==
  /\ pc = "post"
  /\ serving[t] = None
  /\ serving' = [serving EXCEPT ![t] = cur]
  /\ call' = t
  /\ pc' = "await"
  /\ Tried
  /\ UNCHANGED <<spool, batch, cur, attempts, back, done, ingested, emitted, faults>>

(* URLError: the request does not reach the API. *)
Unreachable ==
  /\ pc = "post"
  /\ Failure
  /\ ToWorker("fail")
  /\ Tried
  /\ UNCHANGED <<spool, batch, cur, attempts, back, api, emitted>>

(* The worker stops waiting (timeout, connection lost, an answer it cannot  *)
(* read); the API thread does not know.                                     *)
LoseAnswer ==
  /\ pc = "await"
  /\ Failure
  /\ ToWorker("fail")
  /\ UNCHANGED <<spool, batch, cur, attempts, back, api, emitted, tries>>

Free(t) == /\ serving' = [serving EXCEPT ![t] = None]
           /\ done' = [done EXCEPT ![t] = FALSE]

(* submit_detection: create_from_detection commits the incident... *)
Ingest(t) ==
  /\ serving[t] # None
  /\ ~done[t]
  /\ serving[t] \notin ingested
  /\ ingested' = ingested \cup {serving[t]}
  /\ UNCHANGED <<spool, worker, serving, done, emitted, tries, faults>>

(* ...or finds it, and the request is ready to be answered. *)
Complete(t) ==
  /\ serving[t] \in ingested
  /\ ~done[t]
  /\ done' = [done EXCEPT ![t] = TRUE]
  /\ UNCHANGED <<spool, worker, serving, ingested, emitted, tries, faults>>

(* HTTPError: refused (403, 422), or failed (500) before or after the       *)
(* incident was committed; or the API process dies with its thread.         *)
Refuse(t) ==
  /\ serving[t] # None
  /\ Failure
  /\ Free(t)
  /\ IF call = t THEN ToWorker("fail") ELSE UNCHANGED <<pc, call>>
  /\ UNCHANGED <<spool, batch, cur, attempts, back, ingested, emitted, tries>>

AnyAnswer(t) == TRUE                \* mutant: an answer of any kind will do
Succeeded(t) == done[t]

Answer(t) ==
  /\ pc = "await"
  /\ call = t
  /\ Succeeded(t)
  /\ Free(t)
  /\ ToWorker("unlink")
  /\ UNCHANGED <<spool, batch, cur, attempts, back, ingested, emitted, tries, faults>>

(* The answer of a request whose worker is gone. *)
Unheard(t) ==
  /\ call # t
  /\ done[t]
  /\ Free(t)
  /\ UNCHANGED <<spool, worker, ingested, emitted, tries, faults>>

-----------------------------------------------------------------------------
(* mark_sent and mark_failed, file operation by file operation              *)

Return == /\ pc' = back
          /\ cur' = None
          /\ attempts' = 0
RemovePending == /\ pending' = [pending EXCEPT ![cur] = None]
                 /\ waiting' = waiting \ {cur}

Unlink ==
  /\ pc = "unlink"
  /\ RemovePending
  /\ pc' = "write_sent"
  /\ UNCHANGED <<sent, failed, batch, cur, attempts, back, call, api, emitted, tries, faults>>

WriteSent ==
  /\ pc = "write_sent"
  /\ sent' = sent \cup {cur}
  /\ Return
  /\ UNCHANGED <<pending, waiting, failed, batch, back, call, api, emitted, tries, faults>>

(* mark_sent raises inside the try of the POST: the delivered detection is  *)
(* handed to mark_failed.                                                   *)
MarkSentRaises ==
  /\ pc \in {"unlink", "write_sent"}
  /\ DiskError
  /\ pc' = "fail"
  /\ UNCHANGED <<spool, batch, cur, attempts, back, call, api, emitted, tries>>

OneEarly == MaxAttempts - 1         \* mutant: off by one
LastAttempt == MaxAttempts

(* mark_failed before the last attempt: written again with its backoff. *)
Retry ==
  /\ pc = "fail"
  /\ attempts < LastAttempt
  /\ pending' = [pending EXCEPT ![cur] = attempts]
  /\ waiting' = waiting \cup {cur}
  /\ Return
  /\ UNCHANGED <<sent, failed, batch, back, call, api, emitted, tries, faults>>

(* mark_failed at the last attempt: failed/ is written, then pending/ goes. *)
GiveUp ==
  /\ pc = "fail"
  /\ attempts >= LastAttempt
  /\ failed' = failed \cup {cur}
  /\ pc' = "drop"
  /\ UNCHANGED <<pending, waiting, sent, batch, cur, attempts, back, call, api, emitted, tries, faults>>

Drop ==
  /\ pc = "drop"
  /\ RemovePending
  /\ Return
  /\ UNCHANGED <<sent, failed, batch, back, call, api, emitted, tries, faults>>

(* The backoff of a record is over. *)
BackoffEnds(e) ==
  /\ e \in waiting
  /\ waiting' = waiting \ {e}
  /\ UNCHANGED <<pending, sent, failed, worker, api, emitted, tries, faults>>

-----------------------------------------------------------------------------
(* The process dies (killed, a FrameSourceError, an exception of            *)
(* mark_failed): the files stay, and so does what the API is serving.       *)
Crash ==
  /\ pc # "down"
  /\ faults.crashes < MaxCrashes
  /\ faults' = [faults EXCEPT !.crashes = @ + 1]
  /\ ToWorker("down")
  /\ batch' = {}
  /\ cur' = None
  /\ attempts' = 0
  /\ UNCHANGED <<spool, back, api, emitted, tries>>

Restart ==
  /\ pc = "down"
  /\ pc' = "start"
  /\ UNCHANGED <<spool, batch, cur, attempts, back, call, api, emitted, tries, faults>>

FileStep == Unlink \/ WriteSent \/ Retry \/ GiveUp \/ Drop

WorkerStep ==
  \/ ListDue \/ TakeDue \/ DrainDone \/ PipelineEnds
  \/ \E t \in Threads : Post(t) \/ Answer(t)
  \/ FileStep
  \/ Restart

ServerStep(t) == Ingest(t) \/ Complete(t) \/ Unheard(t)

Next ==
  \/ WorkerStep
  \/ \E e \in Events : Emit(e) \/ BackoffEnds(e)
  \/ \E t \in Threads : ServerStep(t) \/ Refuse(t)
  \/ QuietFrame \/ Unreachable \/ LoseAnswer \/ MarkSentRaises \/ Crash

Spec == Init /\ [][Next]_vars

(* The worker's process and the API's threads are scheduled, a container    *)
(* that died is started again (restart: unless-stopped), time passes.       *)
Fairness ==
  /\ WF_vars(WorkerStep)
  /\ \A t \in Threads : WF_vars(ServerStep(t))
  /\ \A e \in Events : WF_vars(BackoffEnds(e))

FairSpec == Spec /\ Fairness

-----------------------------------------------------------------------------
(* Properties                                                               *)

(* Types: files, locals of the worker and threads stay in their sets. *)
TypeOK ==
  /\ pending \in [Events -> Nat \cup {None}]
  /\ waiting \subseteq HasFile
  /\ sent \subseteq Events
  /\ failed \subseteq Events
  /\ pc \in {"down", "start", "drain", "pipeline", "post", "await", "unlink",
             "write_sent", "fail", "drop"}
  /\ batch \subseteq [event : Events, attempts : Nat]
  /\ cur \in Events \cup {None}
  /\ attempts \in Nat
  /\ back \in {"drain", "pipeline"}
  /\ call \in Threads \cup {None}
  /\ serving \in [Threads -> Events \cup {None}]
  /\ done \in [Threads -> BOOLEAN]
  /\ ingested \subseteq Events
  /\ emitted \subseteq Events
  /\ tries \in [Events -> Nat]
  /\ faults \in [failures : 0..MaxFailures, crashes : 0..MaxCrashes,
                 disk : 0..MaxDiskErrors]

(* docs/architecture/risks.md: a local buffer and repeated delivery stand   *)
(* against outages.  Whatever dies and whichever write fails, a detection   *)
(* that was written once is at the API or still has a file to be found in.  *)
NothingLost == emitted \subseteq ingested \cup HasFile \cup failed

(* A record is filed under sent/ only if the API has its incident, and it   *)
(* is then neither pending nor ever posted again.                           *)
SentIsIngested ==
  /\ sent \subseteq ingested
  /\ sent \cap HasFile = {}

(* A record ends in failed/ only after MaxAttempts POSTs of it: restarts,   *)
(* disk errors and late answers never use up its attempts.                  *)
GivesUpLate == \A e \in failed : tries[e] >= MaxAttempts

(* Restarts and late answers do not corrupt the count: the attempts on file *)
(* never run ahead of the POSTs made, and fall behind them by no more than  *)
(* the POST under way and one for each death of the process.                *)
AttemptsCount ==
  \A e \in HasFile :
    /\ pending[e] <= tries[e]
    /\ tries[e] <= pending[e] + faults.crashes + (IF cur = e THEN 1 ELSE 0)

(* A record in its backoff is not posted before the backoff ends.           *)
BackoffKept ==
  [][\A e \in Events : tries'[e] # tries[e] => e \notin waiting]_vars

(* docs/deployment/staging-pilot.md: the offline queue goes back to 0 when  *)
(* the API is available.                                                    *)
QueueEmpties == \A e \in Events : pending[e] # None ~> pending[e] = None
=============================================================================
