---------------------------- MODULE EdgePresence ----------------------------
(* What the API knows of an edge worker, and how it comes to know it.        *)
(*                                                                           *)
(* The API (services/edge_workers.py) has a row per worker.  The offline job *)
(* runs in the process of the scheduler.  The worker (edge: main.py) sends   *)
(* its heartbeats from the frame loop, with blocking requests that it may    *)
(* give up on while their thread in the API goes on, and raises an event     *)
(* when the cooldown of rules.py allows it.                                  *)
EXTENDS WorkerRow, FiniteSets

CONSTANTS Interval,     \* edge_heartbeat_interval_seconds
          Threshold,    \* threshold_seconds of the offline job
          Cooldown,     \* edge_detection_cooldown_seconds
          Stamps        \* timestamps of frames, by the worker's own clock

ASSUME IntervalAssumption == {Interval, Threshold} \subseteq Nat
ASSUME CooldownAssumption == Cooldown \in Nat \ {0} /\ Stamps \subseteq Int

VARIABLES beat,        \* the row's last_heartbeat_at
          jobAt,       \* the time a run of the offline job began, None without one
          worker,      \* the frame loop
          lastSeen,    \* DetectionCooldown._last_seen of one camera, zone and type
          req,         \* per thread, the heartbeat it is about to record, by its time
          clean,       \* history: the last heartbeat was recorded and answered at once
          events       \* history: the timestamps of the events this process raised

row == <<active, beat>>
rules == <<lastSeen, events>>
vars == <<now, row, rules, jobAt, worker, req, clean>>

TypeOK ==
    /\ now \in Time
    /\ {active, clean} \subseteq BOOLEAN
    /\ {beat, jobAt} \subseteq Time \cup {None}
    /\ worker \in [pc : {"down", "wait", "beat", "last", "detect"}, started : Time,
                   beatAt : Time, frame : Time \cup {-1}, waits : Threads \cup {None}]
    /\ req \in [Threads -> Time \cup {None}]
    /\ lastSeen \in Stamps \cup {None}
    /\ events \subseteq Stamps

(* register_worker has saved the row. *)
Registered == active = TRUE /\ beat = None

Init ==
    /\ now = 0
    /\ Registered
    /\ jobAt = None
    /\ worker = [pc |-> "down", started |-> 0, beatAt |-> 0, frame |-> -1, waits |-> None]
    /\ lastSeen = None /\ events = {}
    /\ req = [t \in Threads |-> None]
    /\ clean = TRUE

Tick ==
    /\ now < MaxTime
    /\ now' = now + 1
    /\ UNCHANGED <<row, rules, jobAt, worker, req, clean>>

-----------------------------------------------------------------------------
(* The worker.                                                               *)

(* run_once starts a pipeline: the clock of the heartbeats starts with it. *)
Start ==
    /\ worker.pc = "down"
    /\ worker' = [worker EXCEPT !.pc = "wait", !.started = now, !.beatAt = now]
    /\ UNCHANGED <<now, row, rules, jobAt, req, clean>>

(* The process dies, its cooldown with it; its request goes on in the API. *)
Die ==
    /\ worker' = [worker EXCEPT !.pc = "down", !.waits = None]
    /\ lastSeen' = None /\ events' = {}
    /\ clean' = (clean /\ worker.pc \notin {"beat", "last"})
    /\ UNCHANGED <<now, row, jobAt, req>>

(* (Mutant: a heartbeat falls due a tick late.) *)
BeatDueLate == now - worker.beatAt > Interval

BeatDue == now - worker.beatAt >= Interval

(* The source yields a frame.  Bound: one per tick. *)
Frame ==
    /\ worker.pc = "wait"
    /\ now > worker.frame
    /\ worker' = [worker EXCEPT !.pc = IF BeatDue THEN "beat" ELSE "detect", !.frame = now]
    /\ UNCHANGED <<now, row, rules, jobAt, req, clean>>

(* The source ends (a live one does not): a last heartbeat closes the cycle, *)
(* and main() sleeps before the next.                                        *)
CycleEnds ==
    /\ worker.pc = "wait"
    /\ worker' = [worker EXCEPT !.pc = "last"]
    /\ UNCHANGED <<now, row, rules, jobAt, req, clean>>

(* Its key is right, and the row's status decides. *)
Authenticates == active

(* heartbeat() authenticates, takes the time, and writes it later. *)
Heartbeat(t) ==
    /\ worker.pc \in {"beat", "last"} /\ worker.waits = None
    /\ req[t] = None
    /\ Authenticates
    /\ req' = [req EXCEPT ![t] = now]
    /\ worker' = [worker EXCEPT !.waits = t]
    /\ UNCHANGED <<now, row, rules, jobAt, clean>>

(* Where the loop goes on after a heartbeat, whatever became of it. *)
AfterBeat ==
    worker' = [worker EXCEPT !.pc = IF worker.pc = "beat" THEN "detect" ELSE "down",
                             !.beatAt = now, !.waits = None]

(* The request does not arrive, is refused, or takes too long. *)
BeatFails ==
    /\ worker.pc \in {"beat", "last"}
    /\ AfterBeat
    /\ clean' = FALSE
    /\ UNCHANGED <<now, row, rules, jobAt, req>>

(* (Mutant: the heartbeat saves the worker it read, status and all.) *)
SaveWorker(t) == beat' = req[t] /\ active' = TRUE

(* update_last_heartbeat writes that column and no other. *)
RecordBeat(t) == beat' = req[t] /\ active' = active

(* The thread writes; the worker that still waits hears of it. *)
WriteBeat(t) ==
    /\ req[t] # None
    /\ RecordBeat(t)
    /\ req' = [req EXCEPT ![t] = None]
    /\ clean' = (worker.waits = t /\ req[t] = now)
    /\ IF worker.waits = t THEN AfterBeat ELSE UNCHANGED worker
    /\ UNCHANGED <<now, rules, jobAt>>

LaterOf(a, b) == IF a = None \/ a < b THEN b ELSE a

(* (Mutant: a cooldown that a clock gone back does not meet.) *)
AllowsEarlier(s) == lastSeen # None => s <= lastSeen \/ s - lastSeen >= Cooldown

(* DetectionCooldown.allow.  A clock that went back counts as no time passed. *)
Allows(s) == lastSeen # None => s = lastSeen \/ s - lastSeen >= Cooldown

(* The frame shows a violation, and the cooldown lets it become an event. *)
Emit(s) ==
    /\ worker.pc = "detect"
    /\ Allows(s)
    /\ lastSeen' = LaterOf(lastSeen, s)
    /\ events' = events \cup {s}
    /\ worker' = [worker EXCEPT !.pc = "wait"]
    /\ UNCHANGED <<now, row, jobAt, req, clean>>

(* Nothing to see, or the cooldown drops it. *)
QuietFrame ==
    /\ worker.pc = "detect"
    /\ worker' = [worker EXCEPT !.pc = "wait"]
    /\ UNCHANGED <<now, row, rules, jobAt, req, clean>>

-----------------------------------------------------------------------------
(* The API, its operators and the offline job.                               *)

Revoke ==
    /\ active' = FALSE
    /\ UNCHANGED <<now, beat, rules, jobAt, worker, req, clean>>

(* The API dies and starts again: requests end where they are, the row stays. *)
RestartApi ==
    /\ req' = [t \in Threads |-> None]
    /\ IF worker.waits = None THEN UNCHANGED <<worker, clean>>
                              ELSE AfterBeat /\ clean' = FALSE
    /\ UNCHANGED <<now, row, rules, jobAt>>

(* run_offline_workers takes the time and lists the rows, ... *)
JobStarts ==
    /\ jobAt = None
    /\ jobAt' = now
    /\ UNCHANGED <<now, row, rules, worker, req, clean>>

(* ... and then reads each row again to report the worker or not. *)
IsOffline == beat = None \/ jobAt - beat > Threshold

JobReports ==
    /\ jobAt # None
    /\ jobAt' = None
    /\ UNCHANGED <<now, row, rules, worker, req, clean>>

Next ==
    \/ Tick \/ Start \/ Die \/ Frame \/ CycleEnds \/ BeatFails
    \/ \E t \in Threads : Heartbeat(t) \/ WriteBeat(t)
    \/ \E s \in Stamps : Emit(s)
    \/ QuietFrame
    \/ Revoke \/ RestartApi
    \/ JobStarts \/ JobReports

Spec == Init /\ [][Next]_vars

-----------------------------------------------------------------------------
(* The job reports a worker whose heartbeats go through only for the silence *)
(* of its camera (main.py:257 sends them from the frame loop): since the     *)
(* threshold began, or the pipeline did, no frame came that would have       *)
(* carried a heartbeat.                                                      *)
OfflineIsSilence ==
    jobAt # None /\ IsOffline /\ clean /\ worker.pc \notin {"beat", "last"}
        => worker.frame < LaterOf(jobAt - Threshold, worker.started) + Interval

(* A revoked worker stays revoked, whatever heartbeat authenticated before   *)
(* and is written afterwards (edge_workers.py:171 against :203).             *)
RevokedStaysRevoked == [][~active => ~active']_vars

(* Two events of one camera, zone and type carry the same timestamp or are   *)
(* a cooldown apart, though the worker's clock may go back (rules.py:33).    *)
EventsSpaced == \A s, u \in events : s < u => u - s >= Cooldown
=============================================================================
