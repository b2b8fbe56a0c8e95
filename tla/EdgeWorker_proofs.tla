------------------------ MODULE EdgeWorker_proofs ------------------------
(* Proofs about EdgePresence, for any interval, threshold, cooldown, set of   *)
(* timestamps, set of threads and bound on time; about LiveView, for any      *)
(* lifetime of the cache, bound on the queue, set of threads and number of    *)
(* frames; and about EdgeToStore, for any events, threads, tables and bounds. *)
EXTENDS EdgePresence, LiveView, EdgeToStore, SequenceTheorems, TLAPS

Sending == worker.pc \in {"beat", "last"}

\* The last frame would not have carried a heartbeat, or the one on record is
\* as late as if it had.
Covered ==
    \/ worker.frame < worker.started + Interval
    \/ beat # None /\ (worker.frame <= beat \/ worker.frame < beat + Interval)

SilenceInv ==
    /\ worker.started <= now /\ worker.frame <= now
    /\ worker.waits # None => Sending
    /\ clean /\ ~Sending => Covered
    /\ clean /\ ~Sending /\ worker.pc # "down" =>
         worker.beatAt = worker.started \/ beat = worker.beatAt

\* The cooldown remembers the last event of the process.
RulesInv ==
    /\ lastSeen = None => events = {}
    /\ lastSeen # None => lastSeen \in events
    /\ \A s \in events : lastSeen # None /\ s <= lastSeen
    /\ EventsSpaced

-----------------------------------------------------------------------------
(* Types                                                                     *)

LEMMA InitTyped == Init => TypeOK
BY TimeAssumption, IntervalAssumption, NoneAssumption DEF Init, TypeOK, Time, Registered

WorkerType == [pc : {"down", "wait", "beat", "last", "detect"}, started : Time,
               beatAt : Time, frame : Time \cup {-1}, waits : Threads \cup {None}]

\* After a heartbeat the loop is in a state it can be in.
LEMMA AfterBeatTyped ==
    ASSUME worker \in WorkerType, now \in Time, AfterBeat
    PROVE  /\ worker' \in WorkerType
           /\ worker'.pc \in {"detect", "down"} /\ worker'.waits = None
           /\ worker'.beatAt = now
           /\ worker'.started = worker.started /\ worker'.frame = worker.frame
<1> DEFINE p == IF worker.pc = "beat" THEN "detect" ELSE "down"
<1>1. worker' = [worker EXCEPT !.pc = p, !.beatAt = now, !.waits = None]
  BY DEF AfterBeat
<1>2. p \in {"detect", "down"}
  OBVIOUS
<1> HIDE DEF p
<1> QED BY <1>1, <1>2 DEF WorkerType

\* The API writes a time, or the row's status, and nothing else.
LEMMA LaterTyped ==
    ASSUME NEW a \in Stamps \cup {None}, NEW b \in Stamps
    PROVE  LaterOf(a, b) \in Stamps
BY DEF LaterOf

\* Every step keeps every variable in its type.
LEMMA NextTyped == TypeOK /\ [Next]_vars => TypeOK'
<1> SUFFICES ASSUME TypeOK, [Next]_vars PROVE TypeOK'
  OBVIOUS
<1> USE TimeAssumption, IntervalAssumption, NoneAssumption
<1>0. worker \in WorkerType /\ now \in Time
  BY DEF TypeOK, WorkerType
<1>1. CASE Tick
  BY <1>1 DEF Tick, TypeOK, Time, row, rules
<1>2. CASE Start
  BY <1>2 DEF Start, TypeOK, row, rules
<1>3. CASE Die
  BY <1>3 DEF Die, TypeOK, row
<1>4. CASE Frame
  <2> DEFINE p == IF BeatDue THEN "beat" ELSE "detect"
  <2>1. worker' = [worker EXCEPT !.pc = p, !.frame = now]
    BY <1>4 DEF Frame
  <2>2. p \in {"beat", "detect"}
    OBVIOUS
  <2> HIDE DEF p
  <2> QED BY <1>4, <2>1, <2>2 DEF Frame, TypeOK, row, rules
<1>5. CASE CycleEnds
  BY <1>5 DEF CycleEnds, TypeOK, row, rules
<1>6. CASE BeatFails
  BY <1>0, <1>6, AfterBeatTyped DEF BeatFails, TypeOK, WorkerType, row, rules
<1>7. CASE \E t \in Threads : Heartbeat(t)
  BY <1>7 DEF Heartbeat, TypeOK, row, rules
<1>8. ASSUME NEW t \in Threads, WriteBeat(t) PROVE TypeOK'
  <2>1. worker' \in WorkerType
    BY <1>0, <1>8, AfterBeatTyped DEF WriteBeat
  <2>2. beat' \in Time \cup {None} /\ active' \in BOOLEAN /\ clean' \in BOOLEAN
    BY <1>8 DEF WriteBeat, RecordBeat, TypeOK
  <2>3. req' \in [Threads -> Time \cup {None}]
    BY <1>8 DEF WriteBeat, TypeOK
  <2> QED BY <1>8, <2>1, <2>2, <2>3 DEF WriteBeat, TypeOK, WorkerType, rules
<1>9. ASSUME NEW s \in Stamps, Emit(s) PROVE TypeOK'
  <2>1. lastSeen' \in Stamps /\ events' \subseteq Stamps
    BY <1>9, LaterTyped DEF Emit, TypeOK
  <2> QED BY <1>9, <2>1 DEF Emit, TypeOK, row
<1>10. CASE QuietFrame
  BY <1>10 DEF QuietFrame, TypeOK, row, rules
<1>11. CASE Revoke
  BY <1>11 DEF Revoke, TypeOK, rules
<1>12. CASE RestartApi
  <2>1. worker' \in WorkerType /\ clean' \in BOOLEAN
    BY <1>0, <1>12, AfterBeatTyped DEF RestartApi, TypeOK
  <2> QED BY <1>12, <2>1 DEF RestartApi, TypeOK, WorkerType, row, rules
<1>13. CASE JobStarts \/ JobReports
  BY <1>13 DEF JobStarts, JobReports, TypeOK, row, rules
<1>14. CASE UNCHANGED vars
  BY <1>14 DEF TypeOK, vars, row, rules
<1> QED
  BY <1>1, <1>2, <1>3, <1>4, <1>5, <1>6, <1>7, <1>8, <1>9, <1>10, <1>11, <1>12, <1>13,
     <1>14 DEF Next

\* The row, the frame loop, the cooldown and the requests keep their types.
THEOREM TypeCorrect == Spec => []TypeOK
<1> QED BY InitTyped, NextTyped, PTL DEF Spec

-----------------------------------------------------------------------------
(* Silence                                                                   *)

LEMMA SilenceStep == TypeOK /\ SilenceInv /\ [Next]_vars => SilenceInv'
<1> SUFFICES ASSUME TypeOK, SilenceInv, [Next]_vars PROVE SilenceInv'
  OBVIOUS
<1> USE TimeAssumption, IntervalAssumption, NoneAssumption
<1>0. /\ worker \in WorkerType /\ now \in Nat /\ now \in Time
      /\ worker.started \in Nat /\ worker.beatAt \in Nat /\ worker.frame \in Int
      /\ beat # None => beat \in Nat
  BY DEF TypeOK, WorkerType, Time
<1>1. CASE Tick
  BY <1>0, <1>1 DEF Tick, SilenceInv, Covered, Sending, row
<1>2. CASE Start
  <2>1. /\ worker'.pc = "wait" /\ worker'.started = now /\ worker'.beatAt = now
        /\ worker'.frame = worker.frame /\ worker'.waits = worker.waits
        /\ beat' = beat /\ clean' = clean /\ now' = now
    BY <1>0, <1>2 DEF Start, WorkerType, row
  <2>2. worker.pc = "down" /\ ~Sending
    BY <1>2 DEF Start, Sending
  <2> QED BY <1>0, <2>1, <2>2 DEF SilenceInv, Covered, Sending
<1>3. CASE Die
  <2>1. /\ worker'.pc = "down" /\ worker'.started = worker.started
        /\ worker'.frame = worker.frame /\ worker'.waits = None
        /\ beat' = beat /\ now' = now /\ clean' = (clean /\ ~Sending)
    BY <1>0, <1>3 DEF Die, WorkerType, row, Sending
  <2> QED BY <1>0, <2>1 DEF SilenceInv, Covered, Sending
<1>4. CASE Frame
  <2> DEFINE p == IF BeatDue THEN "beat" ELSE "detect"
  <2>1. worker' = [worker EXCEPT !.pc = p, !.frame = now]
    BY <1>4 DEF Frame
  <2>2. /\ worker'.pc = p /\ worker'.frame = now /\ worker'.waits = worker.waits
        /\ worker'.started = worker.started /\ worker'.beatAt = worker.beatAt
        /\ beat' = beat /\ now' = now /\ clean' = clean
    BY <1>0, <1>4, <2>1 DEF Frame, WorkerType, row
  <2>3. worker.pc = "wait" /\ ~Sending /\ worker.waits = None
    BY <1>4 DEF Frame, Sending, SilenceInv
  <2>4. CASE BeatDue
    BY <1>0, <2>2, <2>3, <2>4 DEF SilenceInv, Sending
  <2>5. CASE ~BeatDue
    <3>1. now < worker.beatAt + Interval
      BY <1>0, <2>5 DEF BeatDue
    <3>2. p = "detect"
      BY <2>5
    <3> QED BY <1>0, <2>2, <2>3, <3>1, <3>2 DEF SilenceInv, Covered, Sending
  <2> QED BY <2>4, <2>5
<1>5. CASE CycleEnds
  BY <1>0, <1>5 DEF CycleEnds, SilenceInv, Covered, Sending, WorkerType, row
<1>6. CASE BeatFails
  <2>1. /\ worker'.waits = None /\ worker'.started = worker.started
        /\ worker'.frame = worker.frame /\ clean' = FALSE /\ now' = now
    BY <1>0, <1>6, AfterBeatTyped DEF BeatFails
  <2> QED BY <2>1 DEF SilenceInv, Covered, Sending
<1>7. CASE \E t \in Threads : Heartbeat(t)
  BY <1>0, <1>7 DEF Heartbeat, SilenceInv, Covered, Sending, WorkerType, row
<1>8. ASSUME NEW t \in Threads, WriteBeat(t) PROVE SilenceInv'
  <2>1. now' = now /\ beat' = req[t] /\ clean' = (worker.waits = t /\ req[t] = now)
    BY <1>8 DEF WriteBeat, RecordBeat
  <2>2. CASE worker.waits = t
    <3>1. /\ worker'.pc \in {"detect", "down"} /\ worker'.waits = None
          /\ worker'.beatAt = now /\ worker'.started = worker.started
          /\ worker'.frame = worker.frame
      BY <1>0, <1>8, <2>2, AfterBeatTyped DEF WriteBeat
    <3>2. clean' => beat' = now /\ beat' # None
      <4>1. clean' => req[t] = now
        BY <2>1, Zenon
      <4> QED BY <1>0, <2>1, <4>1
    <3>3. worker.frame <= now /\ worker.started <= now
      BY DEF SilenceInv
    <3> QED BY <1>0, <2>1, <3>1, <3>2, <3>3 DEF SilenceInv, Covered, Sending
  <2>3. CASE worker.waits # t
    <3>1. worker' = worker /\ ~clean'
      BY <1>8, <2>1, <2>3 DEF WriteBeat
    <3> QED BY <2>1, <3>1 DEF SilenceInv, Covered, Sending
  <2> QED BY <2>2, <2>3
<1>9. CASE QuietFrame \/ \E s \in Stamps : Emit(s)
  <2>1. /\ worker' = [worker EXCEPT !.pc = "wait"] /\ worker.pc = "detect"
        /\ now' = now /\ beat' = beat /\ clean' = clean
    BY <1>9 DEF QuietFrame, Emit, row
  <2> QED BY <1>0, <2>1 DEF SilenceInv, Covered, Sending, WorkerType
<1>10. CASE RestartApi
  <2>1. now' = now /\ beat' = beat
    BY <1>10 DEF RestartApi, row
  <2>2. CASE worker.waits = None
    BY <1>10, <2>1, <2>2 DEF RestartApi, SilenceInv, Covered, Sending
  <2>3. CASE worker.waits # None
    <3>1. /\ worker'.waits = None /\ worker'.started = worker.started
          /\ worker'.frame = worker.frame /\ clean' = FALSE
      BY <1>0, <1>10, <2>3, AfterBeatTyped DEF RestartApi
    <3> QED BY <2>1, <3>1 DEF SilenceInv, Covered, Sending
  <2> QED BY <2>2, <2>3
<1>11. CASE Revoke \/ JobStarts \/ JobReports
  BY <1>11 DEF Revoke, JobStarts, JobReports, SilenceInv, Covered, Sending, row
<1>12. CASE UNCHANGED vars
  BY <1>12 DEF SilenceInv, Covered, Sending, vars, row
<1> QED
  BY <1>1, <1>2, <1>3, <1>4, <1>5, <1>6, <1>7, <1>8, <1>9, <1>10, <1>11, <1>12 DEF Next

LEMMA SilenceInit == Init => SilenceInv
BY TimeAssumption, IntervalAssumption DEF Init, SilenceInv, Covered, Sending

LEMMA LaterBounds ==
    ASSUME NEW a \in Int, NEW b \in Int
    PROVE  LaterOf(a, b) \in Int /\ LaterOf(a, b) >= a /\ LaterOf(a, b) >= b
BY NoneAssumption DEF LaterOf

LEMMA SilenceHolds == TypeOK /\ SilenceInv => OfflineIsSilence
<1> SUFFICES ASSUME TypeOK, SilenceInv, jobAt # None, IsOffline, clean, ~Sending
             PROVE  worker.frame < LaterOf(jobAt - Threshold, worker.started) + Interval
  BY DEF OfflineIsSilence, Sending
<1> DEFINE due == jobAt - Threshold
           l == LaterOf(due, worker.started)
<1>1. /\ jobAt \in Int /\ Threshold \in Int /\ Interval \in Nat
      /\ worker.started \in Int /\ worker.frame \in Int
      /\ beat # None => beat \in Int
  BY TimeAssumption, IntervalAssumption DEF TypeOK, Time
<1>2. due \in Int
  BY <1>1
<1>3. beat # None => beat < due
  BY <1>1 DEF IsOffline
<1>4. l \in Int /\ l >= due /\ l >= worker.started
  BY <1>1, <1>2, LaterBounds
<1>5. Covered
  BY DEF SilenceInv
<1> HIDE DEF due, l
<1>6. worker.frame < l + Interval
  BY <1>1, <1>2, <1>3, <1>4, <1>5 DEF Covered
<1> QED BY <1>6 DEF l, due

\* Of a worker whose heartbeats go through, the offline job reports only the
\* silence of the camera: edge_workers.py:247 against main.py:257.
THEOREM SilenceCorrect == Spec => []OfflineIsSilence
<1>1. Init => TypeOK /\ SilenceInv
  BY InitTyped, SilenceInit
<1>2. (TypeOK /\ SilenceInv) /\ [Next]_vars => (TypeOK /\ SilenceInv)'
  BY NextTyped, SilenceStep
<1> QED BY <1>1, <1>2, SilenceHolds, PTL DEF Spec

-----------------------------------------------------------------------------
(* Events and revocation                                                     *)

LEMMA RulesStep == TypeOK /\ RulesInv /\ [Next]_vars => RulesInv'
<1> SUFFICES ASSUME TypeOK, RulesInv, [Next]_vars PROVE RulesInv'
  OBVIOUS
<1> USE CooldownAssumption, NoneAssumption
<1>1. CASE Die
  BY <1>1 DEF Die, RulesInv, EventsSpaced
<1>2. ASSUME NEW s \in Stamps, Emit(s) PROVE RulesInv'
  <2>1. /\ s \in Int /\ s # None /\ events \subseteq Int
        /\ lastSeen # None => lastSeen \in Int
    BY DEF TypeOK
  <2>2. CASE lastSeen = None
    <3>1. lastSeen' = s /\ events' = {s}
      BY <1>2, <2>2 DEF Emit, LaterOf, RulesInv
    <3> QED BY <2>1, <3>1 DEF RulesInv, EventsSpaced
  <2>3. CASE lastSeen # None
    <3>1. s = lastSeen \/ s - lastSeen >= Cooldown
      BY <1>2, <2>3 DEF Emit, Allows
    <3>2. lastSeen' = s /\ events' = events \cup {s}
      BY <1>2, <2>1, <2>3, <3>1 DEF Emit, LaterOf
    <3>3. \A u \in events : u = s \/ u <= s
      BY <2>1, <2>3, <3>1 DEF RulesInv
    <3>4. \A u \in events : u < s => s - u >= Cooldown
      <4> SUFFICES ASSUME NEW u \in events, u < s PROVE s - u >= Cooldown
        OBVIOUS
      <4>1. u \in Int /\ u <= lastSeen /\ lastSeen \in Int
        BY <2>1, <2>3 DEF RulesInv
      <4>2. CASE s = lastSeen
        <5>1. s \in events
          BY <2>3, <4>2 DEF RulesInv
        <5> QED BY <5>1 DEF RulesInv, EventsSpaced
      <4>3. CASE s - lastSeen >= Cooldown
        BY <2>1, <4>1, <4>3
      <4> QED BY <3>1, <4>2, <4>3
    <3>5. EventsSpaced'
      BY <2>1, <3>2, <3>3, <3>4 DEF RulesInv, EventsSpaced
    <3> QED BY <2>1, <3>2, <3>3, <3>5 DEF RulesInv
  <2> QED BY <2>2, <2>3
<1>3. CASE UNCHANGED rules
  BY <1>3 DEF RulesInv, EventsSpaced, rules
<1> QED
  BY <1>1, <1>2, <1>3 DEF Next, Tick, Start, Frame, CycleEnds, BeatFails, Heartbeat, WriteBeat,
     QuietFrame, Revoke, RestartApi, JobStarts, JobReports, vars

\* Two events of one camera, zone and type carry one timestamp or are a
\* cooldown apart, whatever the worker's clock does: rules.py:33.
THEOREM EventsCorrect == Spec => []EventsSpaced
<1>1. Init => TypeOK /\ RulesInv
  BY InitTyped DEF Init, RulesInv, EventsSpaced
<1>2. (TypeOK /\ RulesInv) /\ [Next]_vars => (TypeOK /\ RulesInv)'
  BY NextTyped, RulesStep
<1>3. RulesInv => EventsSpaced
  BY DEF RulesInv
<1> QED BY <1>1, <1>2, <1>3, PTL DEF Spec

LEMMA RevokedStep == TypeOK /\ [Next]_vars => [~active => ~active']_vars
<1> SUFFICES ASSUME Next PROVE ~active => ~active'
  OBVIOUS
<1> QED
  BY DEF Next, Tick, Start, Die, Frame, CycleEnds, BeatFails, Heartbeat, WriteBeat, RecordBeat,
     Emit, QuietFrame, Revoke, RestartApi, JobStarts, JobReports, row

\* A revoked worker stays revoked, whatever heartbeat is written afterwards.
THEOREM RevokedCorrect == Spec => RevokedStaysRevoked
<1> QED BY TypeCorrect, RevokedStep, PTL DEF Spec, RevokedStaysRevoked
-----------------------------------------------------------------------------
(* LiveView: the same worker and the same row, the frames it analyses, and a  *)
(* browser that watches them                                                  *)

Working(t) == requests[t].pc # "idle"

\* A request under way is about a frame that was posted, and began in the past.
RequestInv == \A t \in Threads : Working(t) =>
    /\ requests[t].frame \in 1 .. posted
    /\ requests[t].at <= now

\* A cached configuration was read while the worker was active, by a request
\* that had begun before.
SilentInv ==
    /\ active <=> revokedAt = None
    /\ expiry # None => expiry <= (IF active THEN now ELSE revokedAt) + TTL
    /\ revokedAt # None =>
         /\ revokedAt <= now
         /\ \A t \in Threads : requests[t].pc = "fetched" => requests[t].at <= revokedAt
    /\ RevokedFallsSilent

\* The newest of the frames on their way to the browser.
Newest == IF calls # <<>> THEN calls[Len(calls)]
          ELSE IF queue # <<>> THEN queue[Len(queue)] ELSE shown

NewestInv ==
    /\ ~watched => queue = <<>> /\ calls = <<>> /\ shown = NoFrame /\ latest = NoFrame
    /\ watched => latest = Newest

Ascends(s) == \A i, j \in 1 .. Len(s) : i < j => s[i] < s[j]
Below(s, n) == \A i \in 1 .. Len(s) : s[i] < n
Above(s, n) == \A i \in 1 .. Len(s) : n < s[i]
Precedes(s, r) == \A i \in 1 .. Len(s), j \in 1 .. Len(r) : s[i] < r[j]

\* Everything sent to the browser is below this.
Ceiling == IF waits = None THEN posted + 1 ELSE posted

\* While the worker waits for each answer there is one request at a time, and
\* its frame is younger than all that the browser was sent.
OrderInv ==
    /\ Ascends(queue) /\ Ascends(calls) /\ Precedes(queue, calls)
    /\ Below(queue, Ceiling) /\ Below(calls, Ceiling)
    /\ shown # NoFrame => Above(queue, shown) /\ Above(calls, shown) /\ shown < Ceiling
    /\ \A t \in Threads : Working(t) => waits = t /\ requests[t].frame = posted

ViewInv ==
    /\ ViewTypeOK
    /\ RequestInv
    /\ SilentInv
    /\ NewestInv
    /\ ~overlap => OrderInv

-----------------------------------------------------------------------------
(* Sequences of frames                                                        *)

LEMMA AppendOrder ==
    ASSUME NEW s \in Seq(Int), NEW x \in Int
    PROVE  /\ Append(s, x) \in Seq(Int)
           /\ Ascends(s) /\ Below(s, x) => Ascends(Append(s, x))
           /\ \A n \in Int : Below(s, n) /\ x < n => Below(Append(s, x), n)
           /\ \A n \in Int : Above(s, n) /\ n < x => Above(Append(s, x), n)
           /\ \A r \in Seq(Int) : Precedes(r, s) /\ Below(r, x) => Precedes(r, Append(s, x))
           /\ \A r \in Seq(Int) : Precedes(s, r) /\ Above(r, x) => Precedes(Append(s, x), r)
<1>1. /\ Append(s, x) \in Seq(Int)
      /\ Len(Append(s, x)) = Len(s) + 1
      /\ \A i \in 1 .. Len(s) : Append(s, x)[i] = s[i]
      /\ Append(s, x)[Len(s) + 1] = x
      /\ Len(s) \in Nat
      /\ \A i \in 1 .. Len(s) : s[i] \in Int
  OBVIOUS
<1>2. \A i \in 1 .. Len(s) + 1 : i \in 1 .. Len(s) \/ i = Len(s) + 1
  BY <1>1
<1>3. Ascends(s) /\ Below(s, x) => Ascends(Append(s, x))
  BY <1>1, <1>2 DEF Ascends, Below
<1>4. /\ \A n \in Int : Below(s, n) /\ x < n => Below(Append(s, x), n)
      /\ \A n \in Int : Above(s, n) /\ n < x => Above(Append(s, x), n)
  BY <1>1, <1>2 DEF Below, Above
<1>5. \A r \in Seq(Int) : Precedes(r, s) /\ Below(r, x) => Precedes(r, Append(s, x))
  BY <1>1, <1>2 DEF Precedes, Below
<1>6. \A r \in Seq(Int) : Precedes(s, r) /\ Above(r, x) => Precedes(Append(s, x), r)
  BY <1>1, <1>2 DEF Precedes, Above
<1> QED BY <1>1, <1>3, <1>4, <1>5, <1>6

LEMMA TailOrder ==
    ASSUME NEW s \in Seq(Int), s # <<>>
    PROVE  /\ Tail(s) \in Seq(Int)
           /\ Ascends(s) => Ascends(Tail(s)) /\ Above(Tail(s), Head(s))
           /\ \A n \in Int : Below(s, n) => Below(Tail(s), n) /\ Head(s) < n
           /\ \A n \in Int : Above(s, n) => Above(Tail(s), n) /\ n < Head(s)
           /\ \A r \in Seq(Int) : Precedes(r, s) => Precedes(r, Tail(s)) /\ Below(r, Head(s))
           /\ \A r \in Seq(Int) : Precedes(s, r) => Precedes(Tail(s), r) /\ Above(r, Head(s))
<1>1. /\ Tail(s) \in Seq(Int)
      /\ Len(s) \in Nat \ {0}
      /\ Len(Tail(s)) = Len(s) - 1
      /\ \A i \in 1 .. Len(s) - 1 : Tail(s)[i] = s[i + 1]
      /\ Head(s) = s[1]
      /\ \A i \in 1 .. Len(s) : s[i] \in Int
  OBVIOUS
<1>2. \A i \in 1 .. Len(s) - 1 : i + 1 \in 1 .. Len(s) /\ 1 < i + 1
  BY <1>1
<1>3. 1 \in 1 .. Len(s)
  BY <1>1
<1>4. Ascends(s) => Ascends(Tail(s)) /\ Above(Tail(s), Head(s))
  BY <1>1, <1>2, <1>3 DEF Ascends, Above
<1>5. /\ \A n \in Int : Below(s, n) => Below(Tail(s), n) /\ Head(s) < n
      /\ \A n \in Int : Above(s, n) => Above(Tail(s), n) /\ n < Head(s)
  BY <1>1, <1>2, <1>3 DEF Below, Above
<1>6. \A r \in Seq(Int) : Precedes(r, s) => Precedes(r, Tail(s)) /\ Below(r, Head(s))
  BY <1>1, <1>2, <1>3 DEF Precedes, Below
<1>7. \A r \in Seq(Int) : Precedes(s, r) => Precedes(Tail(s), r) /\ Above(r, Head(s))
  BY <1>1, <1>2, <1>3 DEF Precedes, Above
<1> QED BY <1>1, <1>4, <1>5, <1>6, <1>7

\* Taking the oldest element leaves the newest, unless it was the only one.
LEMMA TailKeepsLast ==
    ASSUME NEW S, NEW s \in Seq(S), s # <<>>
    PROVE  IF Len(s) = 1 THEN Tail(s) = <<>> /\ Head(s) = s[Len(s)]
                         ELSE Tail(s) # <<>> /\ Tail(s)[Len(Tail(s))] = s[Len(s)]
<1>1. /\ Tail(s) \in Seq(S)
      /\ Len(s) \in Nat \ {0}
      /\ Len(Tail(s)) = Len(s) - 1
      /\ \A i \in 1 .. Len(s) - 1 : Tail(s)[i] = s[i + 1]
      /\ Head(s) = s[1]
  OBVIOUS
<1>2. CASE Len(s) = 1
  <2>1. Tail(s) = <<>>
    <3>1. Len(Tail(s)) = 0
      BY <1>1, <1>2
    <3> QED BY <1>1, <3>1, EmptySeq
  <2>2. Head(s) = s[Len(s)]
    BY <1>1, <1>2
  <2> QED BY <1>2, <2>1, <2>2
<1>3. CASE Len(s) # 1
  <2>1. /\ Len(s) - 1 \in 1 .. Len(s) - 1
        /\ Tail(s)[Len(Tail(s))] = s[Len(s)]
    BY <1>1, <1>3
  <2>2. Tail(s) # <<>>
    <3>1. Len(Tail(s)) # 0
      BY <1>1, <1>3
    <3> QED BY <3>1, EmptySeq
  <2> QED BY <1>3, <2>1, <2>2
<1> QED BY <1>2, <1>3

\* _put_latest makes room where it must, and appends: the queue never holds
\* more than its bound, and what it loses is its oldest frame.
LEMMA PutLatestKeeps ==
    ASSUME NEW S, NEW q \in Seq(S), Len(q) <= MaxQueue, NEW f \in S
    PROVE  /\ PutLatest(q, f) \in Seq(S)
           /\ Len(PutLatest(q, f)) \in 1 .. MaxQueue
           /\ \/ PutLatest(q, f) = Append(q, f)
              \/ q # <<>> /\ PutLatest(q, f) = Append(Tail(q), f)
<1>1. CASE Len(q) = MaxQueue
  <2>1. q # <<>> /\ Tail(q) \in Seq(S) /\ Len(Tail(q)) = MaxQueue - 1 /\ MaxQueue \in Nat \ {0}
    BY <1>1, ViewAssumption, QueueAssumption
  <2>2. PutLatest(q, f) = Append(Tail(q), f)
    BY <1>1 DEF PutLatest
  <2> QED BY <2>1, <2>2
<1>2. CASE Len(q) # MaxQueue
  <2>1. PutLatest(q, f) = Append(q, f)
    BY <1>2 DEF PutLatest
  <2>2. Len(q) \in Nat /\ Len(q) + 1 <= MaxQueue /\ MaxQueue \in Nat
    BY <1>2, ViewAssumption, QueueAssumption
  <2> QED BY <2>1, <2>2
<1> QED BY <1>1, <1>2

LEMMA NumbersToo ==
    ASSUME NEW s \in Seq(FrameNo), MaxFrames \in Nat
    PROVE  s \in Seq(Int)
<1>1. /\ Len(s) \in Nat
      /\ s = [i \in 1 .. Len(s) |-> s[i]]
      /\ \A i \in 1 .. Len(s) : s[i] \in FrameNo
  OBVIOUS
<1>2. \A i \in 1 .. Len(s) : s[i] \in Int
  BY <1>1 DEF FrameNo
<1>3. [i \in 1 .. Len(s) |-> s[i]] \in Seq(Int)
  BY <1>1, <1>2
<1> QED BY <1>1, <1>3

LEMMA FramesAreNumbers ==
    ASSUME ViewTypeOK
    PROVE  /\ queue \in Seq(Int) /\ calls \in Seq(Int)
           /\ shown # NoFrame => shown \in Int
           /\ posted \in Int
BY NumbersToo, ViewAssumption, QueueAssumption DEF ViewTypeOK, HubTypeOK, FrameNo
-----------------------------------------------------------------------------
(* Types                                                                      *)

LEMMA ViewStart == ViewInit => ViewInv
<1> SUFFICES ASSUME ViewInit PROVE ViewInv
  OBVIOUS
<1> USE TimeAssumption, NoneAssumption, ViewAssumption, QueueAssumption
<1>1. /\ now = 0 /\ posted = 0 /\ active = TRUE /\ expiry = None
      /\ requests = [t \in Threads |-> Idle]
      /\ waits = None /\ overlap = FALSE /\ revokedAt = None
      /\ watched = FALSE /\ queue = <<>> /\ calls = <<>>
      /\ shown = NoFrame /\ latest = NoFrame
  BY DEF ViewInit, HubInit
<1>2. \A t \in Threads : /\ requests[t] = [pc |-> "idle", at |-> 0, frame |-> 1]
                         /\ ~Working(t)
  BY <1>1 DEF Idle, Working
<1>3. ViewTypeOK
  <2>1. /\ queue \in Seq(FrameNo) /\ calls \in Seq(FrameNo)
        /\ Len(queue) <= MaxQueue
    <3>1. queue \in Seq(FrameNo) /\ calls \in Seq(FrameNo) /\ Len(queue) = 0
      BY <1>1
    <3> QED BY <3>1
  <2>2. HubTypeOK(FrameNo)
    BY <1>1, <2>1 DEF HubTypeOK
  <2>3. Idle \in [pc : {"idle", "miss", "fetched", "publish"}, at : 0 .. MaxTime, frame : Nat]
    BY DEF Idle
  <2>4. 0 \in 0 .. MaxTime /\ 0 \in 0 .. MaxFrames
    OBVIOUS
  <2> QED BY <1>1, <2>2, <2>3, <2>4 DEF ViewTypeOK, Time
<1>4. RequestInv /\ NewestInv
  BY <1>1, <1>2 DEF RequestInv, NewestInv, Newest
<1>5. SilentInv
  BY <1>1, <1>2 DEF SilentInv, RevokedFallsSilent
<1>6. OrderInv
  BY <1>1, <1>2 DEF OrderInv, Ascends, Below, Precedes, Ceiling
<1> QED BY <1>3, <1>4, <1>5, <1>6 DEF ViewInv

\* What the browser was sent stays a queue of frames, within its bound.
LEMMA HubTyped ==
    ASSUME HubTypeOK(FrameNo),
           \/ Deserted \/ HubNext \/ UNCHANGED hub
           \/ \E f \in FrameNo : Publish(f)
    PROVE  HubTypeOK(FrameNo)'
<1> USE DEF HubTypeOK
<1>1. CASE Deserted \/ Unsubscribe
  <2>1. /\ watched' = FALSE /\ queue' = <<>> /\ calls' = <<>>
        /\ shown' = NoFrame /\ latest' = NoFrame
    BY <1>1 DEF Deserted, Unsubscribe
  <2>2. queue' \in Seq(FrameNo) /\ calls' \in Seq(FrameNo) /\ Len(queue') = 0
    BY <2>1
  <2>3. Len(queue') <= MaxQueue
    BY <2>2, ViewAssumption, QueueAssumption
  <2> QED BY <2>1, <2>2, <2>3
<1>2. CASE Subscribe \/ UNCHANGED hub
  BY <1>2 DEF Subscribe, hub
<1>3. CASE RunCall
  <2>1. /\ calls # <<>> /\ UNCHANGED <<watched, shown, latest>>
        /\ queue' = PutLatest(queue, Head(calls)) /\ calls' = Tail(calls)
    BY <1>3 DEF RunCall
  <2>2. Head(calls) \in FrameNo /\ calls' \in Seq(FrameNo)
    BY <2>1
  <2>3. queue' \in Seq(FrameNo) /\ Len(queue') <= MaxQueue
    <3>1. queue \in Seq(FrameNo) /\ Len(queue) <= MaxQueue
      OBVIOUS
    <3>2. PutLatest(queue, Head(calls)) \in Seq(FrameNo)
          /\ Len(PutLatest(queue, Head(calls))) \in 1 .. MaxQueue
      BY <2>2, <3>1, PutLatestKeeps
    <3> QED BY <2>1, <3>2, ViewAssumption, QueueAssumption
  <2> QED BY <2>1, <2>2, <2>3
<1>4. CASE Show
  <2>1. /\ queue # <<>> /\ UNCHANGED <<watched, calls, latest>>
        /\ shown' = Head(queue) /\ queue' = Tail(queue)
    BY <1>4 DEF Show
  <2>2. Head(queue) \in FrameNo /\ queue' \in Seq(FrameNo) /\ Len(queue') <= Len(queue)
    BY <2>1
  <2>3. Len(queue) \in Nat /\ Len(queue') \in Nat
    BY <2>2
  <2> QED BY <2>1, <2>2, <2>3, ViewAssumption, QueueAssumption
<1>5. ASSUME NEW f \in FrameNo, Publish(f) PROVE HubTypeOK(FrameNo)'
  <2>1. /\ UNCHANGED <<watched, queue, shown>>
        /\ calls' \in {calls, Append(calls, f)} /\ latest' \in {latest, f}
    BY <1>5 DEF Publish
  <2>2. calls' \in Seq(FrameNo)
    BY <2>1
  <2> QED BY <2>1, <2>2
<1> QED BY <1>1, <1>2, <1>3, <1>4, <1>5 DEF HubNext

\* What an action does to the hub.
LEMMA HubSteps ==
    ASSUME ViewTypeOK, RequestInv, [ViewNext]_viewVars
    PROVE  \/ Deserted \/ HubNext \/ UNCHANGED hub
           \/ \E f \in FrameNo : Publish(f)
<1>1. ASSUME NEW t \in Threads, PublishFrame(t)
      PROVE  \E f \in FrameNo : Publish(f)
  <2>1. requests[t].frame \in FrameNo
    <3>1. requests[t].frame \in 1 .. posted
      BY <1>1 DEF PublishFrame, RequestInv, Working
    <3>2. posted \in 0 .. MaxFrames /\ MaxFrames \in Nat
      BY ViewAssumption, QueueAssumption DEF ViewTypeOK
    <3> QED BY <3>1, <3>2 DEF FrameNo
  <2> QED BY <1>1, <2>1 DEF PublishFrame
<1> QED
  BY <1>1 DEF ViewNext, viewVars, hub, ViewTick, GiveUp, Analyse, Fetch,
     FetchRefused, StoreConfig, RevokeWorker, RestartStreams, Watch

\* The types of the other variables.
LEMMA ViewTyped ==
    ASSUME ViewTypeOK, RequestInv, [ViewNext]_viewVars
    PROVE  ViewTypeOK'
<1> USE TimeAssumption, NoneAssumption
<1>1. HubTypeOK(FrameNo) /\ HubTypeOK(FrameNo)'
  BY HubTyped, HubSteps DEF ViewTypeOK
<1> DEFINE Request == [pc : {"idle", "miss", "fetched", "publish"}, at : 0 .. MaxTime, frame : Nat]
<1>2. /\ now \in 0 .. MaxTime /\ posted \in 0 .. MaxFrames
      /\ {active, overlap} \subseteq BOOLEAN /\ expiry \in Nat \cup {None}
      /\ revokedAt \in (0 .. MaxTime) \cup {None} /\ waits \in Threads \cup {None}
      /\ requests \in [Threads -> Request]
  BY DEF ViewTypeOK, Time
<1>3. Idle \in Request
  BY DEF Idle
<1>4. SUFFICES /\ now' \in 0 .. MaxTime /\ posted' \in 0 .. MaxFrames
               /\ {active', overlap'} \subseteq BOOLEAN /\ expiry' \in Nat \cup {None}
               /\ revokedAt' \in (0 .. MaxTime) \cup {None} /\ waits' \in Threads \cup {None}
               /\ requests' \in [Threads -> Request]
  BY <1>1 DEF ViewTypeOK, Time
<1>5. CASE ViewTick \/ GiveUp \/ RevokeWorker \/ Watch \/ UNCHANGED viewVars
  <2>1. {active', overlap'} \subseteq BOOLEAN
    BY <1>2, <1>5
    DEF ViewTick, GiveUp, RevokeWorker, Watch, viewVars, api
  <2>2. /\ UNCHANGED <<posted, expiry, requests>>
        /\ waits' \in {waits, None} /\ revokedAt' \in {revokedAt, now}
        /\ now' = now \/ (now < MaxTime /\ now' = now + 1)
    BY <1>5 DEF ViewTick, GiveUp, RevokeWorker, Watch, viewVars, api
  <2> QED BY <1>2, <2>1, <2>2
<1>6. CASE RestartStreams
  BY <1>2, <1>3, <1>6 DEF RestartStreams
<1>7. ASSUME NEW t \in Threads, Analyse(t)
      PROVE  /\ now' \in 0 .. MaxTime /\ posted' \in 0 .. MaxFrames
             /\ {active', overlap'} \subseteq BOOLEAN /\ expiry' \in Nat \cup {None}
             /\ revokedAt' \in (0 .. MaxTime) \cup {None} /\ waits' \in Threads \cup {None}
             /\ requests' \in [Threads -> Request]
  <2>1. posted < MaxFrames /\ posted' = posted + 1 /\ waits' = t
        /\ UNCHANGED <<now, active, expiry, overlap, revokedAt>>
    BY <1>7 DEF Analyse
  <2>2. \E p \in {"publish", "miss"} :
          requests' = [requests EXCEPT ![t] = [pc |-> p, at |-> now, frame |-> posted + 1]]
    BY <1>7 DEF Analyse
  <2>3. requests' \in [Threads -> Request]
    BY <1>2, <2>2
  <2> QED BY <1>2, <2>1, <2>3, ViewAssumption, QueueAssumption
<1>8. ASSUME NEW t \in Threads,
             \/ Fetch(t) \/ FetchRefused(t)
             \/ StoreConfig(t) \/ PublishFrame(t)
      PROVE  /\ now' \in 0 .. MaxTime /\ posted' \in 0 .. MaxFrames
             /\ {active', overlap'} \subseteq BOOLEAN /\ expiry' \in Nat \cup {None}
             /\ revokedAt' \in (0 .. MaxTime) \cup {None} /\ waits' \in Threads \cup {None}
             /\ requests' \in [Threads -> Request]
  <2>1. /\ UNCHANGED <<now, posted, active, overlap, revokedAt>>
        /\ waits' \in {waits, None}
        /\ expiry' \in {expiry, requests[t].at + TTL}
    BY <1>8 DEF Fetch, FetchRefused, StoreConfig, PublishFrame, Answer,
                ExpiresAt
  <2>2. \/ requests' = [requests EXCEPT ![t] = Idle]
        \/ requests' = [requests EXCEPT ![t].pc = "fetched"]
        \/ requests' = [requests EXCEPT ![t].pc = "publish"]
    BY <1>8 DEF Fetch, FetchRefused, StoreConfig, PublishFrame
  <2>3. requests[t] \in Request
    BY <1>2
  <2>4. requests' \in [Threads -> Request]
    BY <1>2, <1>3, <2>2, <2>3
  <2> QED BY <1>2, <2>1, <2>3, <2>4, ViewAssumption, QueueAssumption
<1> QED
  BY <1>5, <1>6, <1>7, <1>8 DEF ViewNext
-----------------------------------------------------------------------------
(* The requests and the configuration they count on                           *)

\* What a step of one thread does to its request.
LEMMA OneRequest ==
    ASSUME ViewTypeOK, NEW t \in Threads,
           \/ Fetch(t) \/ FetchRefused(t)
           \/ StoreConfig(t) \/ PublishFrame(t)
    PROVE  /\ \A u \in Threads \ {t} : requests'[u] = requests[u]
           /\ Working(t)
           /\ Fetch(t) => requests'[t].pc = "fetched"
           /\ StoreConfig(t) => requests'[t].pc = "publish"
           /\ FetchRefused(t) \/ PublishFrame(t) => requests'[t].pc = "idle"
           /\ requests'[t].pc # "idle" =>
                requests'[t].at = requests[t].at /\ requests'[t].frame = requests[t].frame
           /\ UNCHANGED <<now, posted, active, revokedAt, overlap>>
           /\ requests[t].at \in Nat
<1>1. requests \in [Threads -> [pc : {"idle", "miss", "fetched", "publish"}, at : Time, frame : Nat]]
  BY DEF ViewTypeOK
<1>2. UNCHANGED <<now, posted, active, revokedAt, overlap>> /\ Working(t)
  BY DEF Fetch, FetchRefused, StoreConfig, PublishFrame, Working
<1>3. requests[t].at \in Nat
  BY <1>1, TimeAssumption DEF Time
<1>4. Fetch(t) =>
        /\ requests' = [requests EXCEPT ![t].pc = "fetched"] /\ requests[t].pc = "miss"
  BY DEF Fetch
<1>5. StoreConfig(t) =>
        /\ requests' = [requests EXCEPT ![t].pc = "publish"] /\ requests[t].pc = "fetched"
  BY DEF StoreConfig
<1>6. FetchRefused(t) \/ PublishFrame(t) =>
        /\ requests' = [requests EXCEPT ![t] = Idle] /\ requests[t].pc \in {"miss", "publish"}
  BY DEF FetchRefused, PublishFrame
<1>7. /\ Fetch(t) => requests'[t].pc = "fetched"
      /\ StoreConfig(t) => requests'[t].pc = "publish"
      /\ FetchRefused(t) \/ PublishFrame(t) => requests'[t].pc = "idle"
  BY <1>1, <1>4, <1>5, <1>6 DEF Idle
<1>8. /\ \A u \in Threads \ {t} : requests'[u] = requests[u]
      /\ requests'[t].pc # "idle" =>
           requests'[t].at = requests[t].at /\ requests'[t].frame = requests[t].frame
  BY <1>1, <1>4, <1>5, <1>6 DEF Idle
<1> QED BY <1>2, <1>3, <1>7, <1>8

\* The request that begins.
LEMMA NewRequest ==
    ASSUME ViewTypeOK, NEW t \in Threads, Analyse(t)
    PROVE  /\ \A u \in Threads \ {t} : requests'[u] = requests[u]
           /\ requests'[t].pc \in {"publish", "miss"}
           /\ requests'[t].pc = "publish" => Cached
           /\ requests'[t].at = now /\ requests'[t].frame = posted + 1
           /\ posted' = posted + 1 /\ waits = None /\ waits' = t
           /\ UNCHANGED <<now, active, expiry, revokedAt, overlap, hub>>
BY DEF ViewTypeOK, Analyse

LEMMA NumbersTyped ==
    ASSUME ViewTypeOK
    PROVE  /\ now \in Nat /\ posted \in Nat
           /\ expiry # None => expiry \in Nat
           /\ revokedAt # None => revokedAt \in Nat
           /\ \A t \in Threads : requests[t].at \in Nat /\ requests[t].frame \in Nat
           /\ TTL \in Nat \ {0}
<1>1. \A t \in Threads : requests[t].at \in 0 .. MaxTime /\ requests[t].frame \in Nat
  BY DEF ViewTypeOK, Time
<1> QED BY <1>1, TimeAssumption, ViewAssumption, QueueAssumption DEF ViewTypeOK, Time

LEMMA RequestsStep ==
    ASSUME ViewTypeOK, RequestInv, [ViewNext]_viewVars
    PROVE  RequestInv'
<1> USE NumbersTyped
<1>1. ASSUME NEW t \in Threads, Analyse(t) PROVE RequestInv'
  <2>1. \A u \in Threads : Working(u)' =>
          IF u = t THEN requests'[u].at = now /\ requests'[u].frame = posted + 1
                   ELSE Working(u) /\ requests'[u] = requests[u]
    BY <1>1, NewRequest DEF Working
  <2>2. posted' = posted + 1 /\ now' = now
    BY <1>1, NewRequest
  <2> QED BY <2>1, <2>2 DEF RequestInv
<1>2. ASSUME NEW t \in Threads,
             \/ Fetch(t) \/ FetchRefused(t)
             \/ StoreConfig(t) \/ PublishFrame(t)
      PROVE  RequestInv'
  <2>1. \A u \in Threads : Working(u)' =>
          /\ Working(u)
          /\ requests'[u].at = requests[u].at /\ requests'[u].frame = requests[u].frame
    BY <1>2, OneRequest DEF Working
  <2>2. posted' = posted /\ now' = now
    BY <1>2, OneRequest
  <2> QED BY <2>1, <2>2 DEF RequestInv
<1>3. CASE RestartStreams
  <2>1. \A u \in Threads : ~Working(u)'
    BY <1>3 DEF RestartStreams, Idle, Working
  <2> QED BY <2>1 DEF RequestInv
<1>4. CASE ViewTick \/ GiveUp \/ RevokeWorker \/ Watch \/ UNCHANGED viewVars
  <2>1. requests' = requests /\ posted' = posted /\ (now' = now \/ now' = now + 1)
    BY <1>4 DEF ViewTick, GiveUp, RevokeWorker, Watch, viewVars, api
  <2> QED BY <2>1 DEF RequestInv, Working
<1> QED BY <1>1, <1>2, <1>3, <1>4 DEF ViewNext

LEMMA SilentStep ==
    ASSUME ViewTypeOK, RequestInv, SilentInv, [ViewNext]_viewVars
    PROVE  SilentInv'
<1> USE NumbersTyped, NoneAssumption DEF SilentInv, RevokedFallsSilent
<1>1. ASSUME NEW t \in Threads, Analyse(t) PROVE SilentInv'
  <2>1. /\ UNCHANGED <<now, active, expiry, revokedAt>>
        /\ \A u \in Threads \ {t} : requests'[u] = requests[u]
        /\ requests'[t].pc \in {"publish", "miss"} /\ requests'[t].at = now
        /\ requests'[t].pc = "publish" => expiry # None /\ expiry > now
    BY <1>1, NewRequest DEF Cached
  <2> QED BY <2>1
<1>2. ASSUME NEW t \in Threads,
             \/ Fetch(t) \/ FetchRefused(t)
             \/ StoreConfig(t) \/ PublishFrame(t)
      PROVE  SilentInv'
  <2>1. /\ UNCHANGED <<now, active, revokedAt>>
        /\ \A u \in Threads \ {t} : requests'[u] = requests[u]
        /\ requests[t].at <= now
    BY <1>2, OneRequest DEF RequestInv
  <2>2. CASE Fetch(t)
    <3>1. active /\ expiry' = expiry /\ requests'[t].pc = "fetched"
      BY <2>2, OneRequest DEF Fetch
    <3> QED BY <2>1, <3>1
  <2>3. CASE StoreConfig(t)
    <3>1. /\ requests[t].pc = "fetched" /\ expiry' = requests[t].at + TTL
          /\ requests'[t].pc = "publish" /\ requests'[t].at = requests[t].at
      BY <2>3, OneRequest DEF StoreConfig, ExpiresAt
    <3>2. revokedAt # None => requests[t].at <= revokedAt
      BY <3>1
    <3> QED BY <2>1, <3>1, <3>2
  <2>4. CASE FetchRefused(t) \/ PublishFrame(t)
    <3>1. expiry' = expiry /\ requests'[t].pc = "idle"
      BY <2>4, OneRequest DEF FetchRefused, PublishFrame
    <3> QED BY <2>1, <3>1
  <2> QED BY <1>2, <2>2, <2>3, <2>4
<1>3. CASE RestartStreams
  <2>1. UNCHANGED <<now, active, revokedAt>> /\ expiry' = None
    BY <1>3 DEF RestartStreams
  <2>2. \A u \in Threads : requests'[u].pc = "idle"
    BY <1>3 DEF RestartStreams, Idle
  <2> QED BY <2>1, <2>2
<1>4. CASE RevokeWorker
  <2>1. /\ active /\ active' = FALSE /\ revokedAt' = now /\ now' = now
        /\ UNCHANGED <<expiry, requests>>
    BY <1>4 DEF RevokeWorker
  <2>2. \A u \in Threads : Working(u) => requests[u].at <= now
    BY DEF RequestInv
  <2> QED BY <2>1, <2>2 DEF Working
<1>5. CASE ViewTick \/ GiveUp \/ Watch \/ UNCHANGED viewVars
  <2>1. UNCHANGED <<active, expiry, requests, revokedAt>> /\ (now' = now \/ now' = now + 1)
    BY <1>5 DEF ViewTick, GiveUp, Watch, viewVars, api
  <2> QED BY <2>1
<1> QED BY <1>1, <1>2, <1>3, <1>4, <1>5 DEF ViewNext
-----------------------------------------------------------------------------
(* The frames on their way to the browser                                     *)

\* The frame published last is the newest of those on their way, whatever the
\* queue has to drop: _put_latest drops the oldest.
LEMMA NewestStep ==
    ASSUME ViewTypeOK, NewestInv,
           \/ Deserted \/ HubNext \/ UNCHANGED hub
           \/ \E f \in FrameNo : Publish(f)
    PROVE  NewestInv'
<1>1. /\ queue \in Seq(FrameNo) /\ calls \in Seq(FrameNo)
      /\ Len(queue) <= MaxQueue /\ watched \in BOOLEAN
  BY DEF ViewTypeOK, HubTypeOK
<1>2. CASE Deserted \/ Unsubscribe
  BY <1>2 DEF Deserted, Unsubscribe, NewestInv
<1>3. CASE Subscribe \/ UNCHANGED hub
  BY <1>3 DEF Subscribe, hub, NewestInv, Newest
<1>4. CASE RunCall
  <2>1. /\ calls # <<>> /\ UNCHANGED <<watched, shown, latest>>
        /\ queue' = PutLatest(queue, Head(calls)) /\ calls' = Tail(calls)
    BY <1>4 DEF RunCall
  <2>2. watched /\ latest = calls[Len(calls)]
    BY <2>1 DEF NewestInv, Newest
  <2>3. Head(calls) \in FrameNo /\ calls' \in Seq(FrameNo) /\ Len(calls) \in Nat \ {0}
    BY <1>1, <2>1
  <2>4. Len(queue') \in 1 .. MaxQueue /\ queue'[Len(queue')] = Head(calls)
    <3>1. PICK q : q = PutLatest(queue, Head(calls))
      OBVIOUS
    <3>2. Len(q) \in 1 .. MaxQueue
      BY <1>1, <2>3, <3>1, PutLatestKeeps
    <3>3. \E r \in Seq(FrameNo) : q = Append(r, Head(calls))
      <4>1. q = Append(queue, Head(calls)) \/ (queue # <<>> /\ q = Append(Tail(queue), Head(calls)))
        BY <1>1, <2>3, <3>1, PutLatestKeeps
      <4>2. queue # <<>> => Tail(queue) \in Seq(FrameNo)
        BY <1>1
      <4>3. queue \in Seq(FrameNo)
        BY <1>1
      <4> QED BY <4>1, <4>2, <4>3, Zenon
    <3>4. q[Len(q)] = Head(calls)
      BY <2>3, <3>3
    <3> QED BY <2>1, <3>1, <3>2, <3>4
  <2>5. CASE Len(calls) = 1
    <3>1. calls' = <<>> /\ Head(calls) = calls[Len(calls)]
      BY <1>1, <2>1, <2>5
    <3>2. queue' # <<>>
      BY <2>4
    <3> QED BY <2>1, <2>2, <2>4, <3>1, <3>2 DEF NewestInv, Newest
  <2>6. CASE Len(calls) # 1
    <3>1. calls' # <<>> /\ calls'[Len(calls')] = calls[Len(calls)]
      BY <1>1, <2>1, <2>6, TailKeepsLast
    <3> QED BY <2>1, <2>2, <3>1 DEF NewestInv, Newest
  <2> QED BY <2>5, <2>6
<1>5. CASE Show
  <2>1. /\ queue # <<>> /\ UNCHANGED <<watched, calls, latest>>
        /\ shown' = Head(queue) /\ queue' = Tail(queue)
    BY <1>5 DEF Show
  <2>2. watched /\ latest = Newest /\ Len(queue) \in Nat \ {0}
    BY <1>1, <2>1 DEF NewestInv
  <2>3. IF Len(queue) = 1 THEN queue' = <<>> /\ Head(queue) = queue[Len(queue)]
                          ELSE queue' # <<>> /\ queue'[Len(queue')] = queue[Len(queue)]
    BY <1>1, <2>1, TailKeepsLast
  <2> QED BY <2>1, <2>2, <2>3 DEF NewestInv, Newest
<1>6. ASSUME NEW f \in FrameNo, Publish(f) PROVE NewestInv'
  <2>1. /\ UNCHANGED <<watched, queue, shown>>
        /\ calls' = IF watched THEN Append(calls, f) ELSE calls
        /\ latest' = IF watched THEN f ELSE latest
    BY <1>6 DEF Publish
  <2>2. Append(calls, f) # <<>> /\ Append(calls, f)[Len(Append(calls, f))] = f
    BY <1>1
  <2> QED BY <1>1, <2>1, <2>2 DEF NewestInv, Newest
<1> QED BY <1>2, <1>3, <1>4, <1>5, <1>6 DEF HubNext

\* The hub keeps the order of what it was given.
LEMMA HubOrder ==
    ASSUME ViewTypeOK, OrderInv, HubNext,
           UNCHANGED <<requests, waits, posted>>
    PROVE  OrderInv'
<1>1. /\ queue \in Seq(Int) /\ calls \in Seq(Int)
      /\ shown # NoFrame => shown \in Int
      /\ posted \in Int /\ Ceiling \in Int /\ NoFrame \notin Int
  BY FramesAreNumbers, ViewAssumption, QueueAssumption DEF Ceiling
<1>2. /\ Ceiling' = Ceiling
      /\ \A t \in Threads : Working(t)' => waits' = t /\ requests'[t].frame = posted'
  BY DEF Ceiling, Working, OrderInv
<1>3. CASE Subscribe
  BY <1>2, <1>3 DEF Subscribe, OrderInv
<1>4. CASE Unsubscribe
  <2>1. queue' = <<>> /\ calls' = <<>> /\ shown' = NoFrame
    BY <1>4 DEF Unsubscribe, Deserted
  <2> QED BY <1>2, <2>1 DEF OrderInv, Ascends, Below, Precedes
<1>5. CASE RunCall
  <2>1. /\ calls # <<>> /\ shown' = shown
        /\ queue' = PutLatest(queue, Head(calls)) /\ calls' = Tail(calls)
    BY <1>5 DEF RunCall
  <2>2. /\ Head(calls) \in Int /\ Len(queue) <= MaxQueue
    BY <1>1, <2>1 DEF ViewTypeOK, HubTypeOK
  <2>3. PICK r \in Seq(Int) : /\ queue' = Append(r, Head(calls))
                              /\ r = queue \/ (queue # <<>> /\ r = Tail(queue))
    <3>1. LET q == PutLatest(queue, Head(calls))
          IN  \/ q = Append(queue, Head(calls))
              \/ queue # <<>> /\ q = Append(Tail(queue), Head(calls))
      BY <1>1, <2>2, PutLatestKeeps
    <3>2. queue # <<>> => Tail(queue) \in Seq(Int)
      BY <1>1
    <3> QED BY <1>1, <2>1, <3>1, <3>2
  <2>4. /\ Ascends(r) /\ Precedes(r, calls) /\ Below(r, Ceiling)
        /\ shown # NoFrame => Above(r, shown)
    BY <1>1, <2>3, TailOrder DEF OrderInv
  <2>5. /\ calls' \in Seq(Int) /\ Ascends(calls') /\ Above(calls', Head(calls))
        /\ Below(calls', Ceiling) /\ Head(calls) < Ceiling
        /\ shown # NoFrame => Above(calls', shown) /\ shown < Head(calls)
        /\ Precedes(r, calls') /\ Below(r, Head(calls))
    BY <1>1, <2>1, <2>4, TailOrder DEF OrderInv
  <2>6. /\ Ascends(queue') /\ Below(queue', Ceiling) /\ Precedes(queue', calls')
        /\ shown # NoFrame => Above(queue', shown)
    BY <1>1, <2>2, <2>3, <2>4, <2>5, AppendOrder
  <2> QED BY <1>2, <2>1, <2>5, <2>6 DEF OrderInv
<1>6. CASE Show
  <2>1. /\ queue # <<>> /\ calls' = calls
        /\ shown' = Head(queue) /\ queue' = Tail(queue)
    BY <1>6 DEF Show
  <2>2. /\ Ascends(queue') /\ Below(queue', Ceiling) /\ Precedes(queue', calls)
        /\ Above(queue', Head(queue)) /\ Above(calls, Head(queue)) /\ Head(queue) < Ceiling
    BY <1>1, <2>1, TailOrder DEF OrderInv
  <2> QED BY <1>2, <2>1, <2>2 DEF OrderInv
<1> QED BY <1>3, <1>4, <1>5, <1>6 DEF HubNext

\* What the worker and the API do: only the frame of the one request is
\* published, and a new one is numbered beyond all.
LEMMA ApiOrder ==
    ASSUME ViewTypeOK, ~overlap => OrderInv, [ViewNext]_viewVars
    PROVE  ~overlap' => OrderInv'
<1> USE NumbersTyped
<1>1. /\ queue \in Seq(Int) /\ calls \in Seq(Int)
      /\ shown # NoFrame => shown \in Int
      /\ posted \in Int /\ Ceiling \in Int
  BY FramesAreNumbers DEF Ceiling
<1>2. ASSUME NEW s \in Seq(Int), NEW n \in Int, NEW m \in Int, n <= m, Below(s, n)
      PROVE  Below(s, m)
  <2>1. \A i \in 1 .. Len(s) : s[i] \in Int
    OBVIOUS
  <2> QED BY <1>2, <2>1 DEF Below
<1>3. ASSUME UNCHANGED <<queue, calls, shown, overlap>>, Ceiling' \in Int, Ceiling <= Ceiling',
             \A t \in Threads : Working(t)' => waits' = t /\ requests'[t].frame = posted'
      PROVE  ~overlap' => OrderInv'
  BY <1>1, <1>2, <1>3 DEF OrderInv
<1>4. ASSUME NEW t \in Threads, Analyse(t) PROVE ~overlap' => OrderInv'
  <2>1. /\ posted' = posted + 1 /\ waits = None /\ waits' = t
        /\ requests'[t].frame = posted' /\ UNCHANGED <<queue, calls, shown, overlap>>
        /\ \A u \in Threads \ {t} : requests'[u] = requests[u]
    BY <1>4, NewRequest DEF hub
  <2>2. t # None
    BY NoneAssumption
  <2>3. Ceiling' = Ceiling
    BY <2>1, <2>2 DEF Ceiling
  <2>4. ~overlap => \A u \in Threads \ {t} : ~Working(u)'
    BY <2>1, NoneAssumption DEF Working, OrderInv
  <2> QED BY <1>1, <1>3, <2>1, <2>3, <2>4
<1>5. ASSUME NEW t \in Threads, \/ Fetch(t) \/ FetchRefused(t) \/ StoreConfig(t)
      PROVE  ~overlap' => OrderInv'
  <2>1. /\ UNCHANGED <<posted, overlap, queue, calls, shown>>
        /\ waits' = waits \/ waits' = None
        /\ \A u \in Threads : Working(u)' =>
             Working(u) /\ requests'[u].frame = requests[u].frame
    BY <1>5, OneRequest
    DEF Fetch, FetchRefused, StoreConfig, Answer, hub, Working
  <2>2. \A u \in Threads : Working(u)' /\ waits = u => waits' = waits
    BY <1>5, OneRequest
    DEF Fetch, FetchRefused, StoreConfig, Answer, Working
  <2>3. Ceiling' \in Int /\ Ceiling <= Ceiling'
    BY <1>1, <2>1 DEF Ceiling
  <2>4. ~overlap => \A u \in Threads : Working(u)' => waits' = u /\ requests'[u].frame = posted'
    BY <2>1, <2>2 DEF OrderInv
  <2> QED BY <1>3, <2>1, <2>3, <2>4
<1>6. ASSUME NEW t \in Threads, PublishFrame(t), ~overlap PROVE OrderInv'
  <2> DEFINE f == requests[t].frame
  <2>1. Working(t) /\ waits = t /\ f = posted /\ Ceiling = posted /\ f \in Int
    BY <1>1, <1>6, NoneAssumption DEF PublishFrame, Working, OrderInv, Ceiling
  <2>2. /\ UNCHANGED <<queue, shown, posted>> /\ waits' = None
        /\ calls' = calls \/ calls' = Append(calls, f)
    BY <1>6, <2>1 DEF PublishFrame, Publish, Answer
  <2>3. \A u \in Threads : ~Working(u)'
    BY <1>6, <2>1, OneRequest DEF Working, OrderInv
  <2>4. Ceiling' = posted + 1 /\ posted < posted + 1
    BY <1>1, <2>2 DEF Ceiling
  <2>5. /\ Ascends(queue) /\ Below(queue, posted) /\ Below(queue, posted + 1)
        /\ Below(calls, posted + 1) /\ (shown # NoFrame => shown < posted + 1 /\ shown < posted)
    BY <1>1, <1>2, <1>6, <2>1, <2>4 DEF OrderInv
  <2>6. /\ Ascends(calls') /\ Precedes(queue, calls') /\ Below(calls', posted + 1)
        /\ shown # NoFrame => Above(calls', shown)
    <3>1. CASE calls' = calls
      BY <1>6, <2>5, <3>1 DEF OrderInv
    <3>2. CASE calls' = Append(calls, f)
      BY <1>1, <1>6, <2>1, <2>4, <2>5, <3>2, AppendOrder DEF OrderInv
    <3> QED BY <2>2, <3>1, <3>2
  <2> QED BY <1>6, <2>2, <2>3, <2>4, <2>5, <2>6 DEF OrderInv
<1>7. CASE RestartStreams
  <2>1. queue' = <<>> /\ calls' = <<>> /\ shown' = NoFrame
    BY <1>7 DEF RestartStreams, Deserted
  <2>2. \A u \in Threads : ~Working(u)'
    BY <1>7 DEF RestartStreams, Idle, Working
  <2> QED BY <2>1, <2>2 DEF OrderInv, Ascends, Below, Precedes
<1>8. CASE GiveUp
  BY <1>8 DEF GiveUp
<1>9. CASE Watch
  <2>1. UNCHANGED <<requests, waits, posted, overlap>> /\ HubNext
    BY <1>9 DEF Watch, api
  <2> QED BY <2>1, HubOrder
<1>10. CASE ViewTick \/ RevokeWorker \/ UNCHANGED viewVars
  <2>1. UNCHANGED <<requests, waits, posted, overlap, queue, calls, shown>>
    BY <1>10 DEF ViewTick, RevokeWorker, viewVars, api, hub
  <2> QED BY <2>1 DEF OrderInv, Ceiling, Working
<1> QED
  BY <1>4, <1>5, <1>6, <1>7, <1>8, <1>9, <1>10 DEF ViewNext, PublishFrame
-----------------------------------------------------------------------------
(* What LiveView's runs check, for any bound on the queue, any life of the    *)
(* cache and any number of threads and frames                                 *)

LEMMA ViewStep == ViewInv /\ [ViewNext]_viewVars => ViewInv'
<1> SUFFICES ASSUME ViewInv, [ViewNext]_viewVars PROVE ViewInv'
  OBVIOUS
<1>1. /\ ViewTypeOK /\ RequestInv /\ SilentInv /\ NewestInv
      /\ ~overlap => OrderInv
  BY DEF ViewInv
<1>2. ViewTypeOK' /\ RequestInv' /\ SilentInv'
  BY <1>1, ViewTyped, RequestsStep, SilentStep
<1>3. NewestInv'
  BY <1>1, HubSteps, NewestStep
<1>4. ~overlap' => OrderInv'
  BY <1>1, ApiOrder
<1> QED BY <1>2, <1>3, <1>4 DEF ViewInv

THEOREM ViewInvariant == ViewSpec => []ViewInv
<1>1. ViewInit => ViewInv
  BY ViewStart
<1>2. ViewInv /\ [ViewNext]_viewVars => ViewInv'
  BY ViewStep
<1> QED BY <1>1, <1>2, PTL DEF ViewSpec

\* Types: the queue of a browser never outgrows its bound (TypeOK).
THEOREM ViewTypeCorrect == ViewSpec => []ViewTypeOK
<1>1. ViewInv => ViewTypeOK
  BY DEF ViewInv
<1> QED BY <1>1, ViewInvariant, PTL

\* A request that begins TTL after the revocation or later publishes nothing,
\* however the requests and the cache interleave (RevokedFallsSilent).
THEOREM ViewFallsSilent == ViewSpec => []RevokedFallsSilent
<1>1. ViewInv => RevokedFallsSilent
  BY DEF ViewInv, SilentInv
<1> QED BY <1>1, ViewInvariant, PTL

LEMMA ConcatOrder ==
    ASSUME NEW s \in Seq(Int), NEW r \in Seq(Int)
    PROVE  /\ s \o r \in Seq(Int)
           /\ Ascends(s) /\ Ascends(r) /\ Precedes(s, r) => Ascends(s \o r)
           /\ IF r = <<>> THEN s \o r = s
                          ELSE s \o r # <<>> /\ (s \o r)[Len(s \o r)] = r[Len(r)]
<1> DEFINE c == s \o r
<1>1. /\ c \in Seq(Int) /\ Len(c) = Len(s) + Len(r)
      /\ \A i \in 1 .. Len(s) + Len(r) : c[i] = IF i <= Len(s) THEN s[i] ELSE r[i - Len(s)]
      /\ Len(s) \in Nat /\ Len(r) \in Nat
  BY ConcatProperties
<1> HIDE DEF c
<1>2. ASSUME Ascends(s), Ascends(r), Precedes(s, r),
             NEW i \in 1 .. Len(c), NEW j \in 1 .. Len(c), i < j
      PROVE  c[i] < c[j]
  <2>4. /\ i \in 1 .. Len(s) + Len(r) /\ j \in 1 .. Len(s) + Len(r)
        /\ c[i] = IF i <= Len(s) THEN s[i] ELSE r[i - Len(s)]
        /\ c[j] = IF j <= Len(s) THEN s[j] ELSE r[j - Len(s)]
    <3>1. i \in 1 .. Len(s) + Len(r) /\ j \in 1 .. Len(s) + Len(r)
      BY <1>1
    <3> QED BY <1>1, <3>1, Zenon
  <2>1. CASE j <= Len(s)
    <3>1. i \in 1 .. Len(s) /\ j \in 1 .. Len(s) /\ c[i] = s[i] /\ c[j] = s[j]
      BY <1>1, <1>2, <2>1
    <3> QED BY <1>2, <3>1 DEF Ascends
  <2>2. CASE i > Len(s)
    <3>0. /\ i \in 1 .. Len(s) + Len(r) /\ j \in 1 .. Len(s) + Len(r)
          /\ Len(s) \in Nat /\ Len(r) \in Nat /\ i < j
      BY <1>1, <1>2
    <3>1. /\ i - Len(s) \in 1 .. Len(r) /\ j - Len(s) \in 1 .. Len(r)
          /\ i - Len(s) < j - Len(s)
      BY <2>2, <3>0
    <3>2. ~(i <= Len(s)) /\ ~(j <= Len(s))
      BY <2>2, <3>0
    <3>3. c[i] = r[i - Len(s)] /\ c[j] = r[j - Len(s)]
      BY <2>4, <3>2
    <3> QED BY <1>2, <3>1, <3>3 DEF Ascends
  <2>3. CASE i <= Len(s) /\ j > Len(s)
    <3>1. /\ i \in 1 .. Len(s) /\ j - Len(s) \in 1 .. Len(r)
      BY <1>1, <2>3, <2>4
    <3>2. c[i] = s[i] /\ c[j] = r[j - Len(s)]
      BY <1>1, <2>4, <2>3
    <3> QED BY <1>2, <3>1, <3>2 DEF Precedes
  <2> QED BY <1>1, <2>4, <2>1, <2>2, <2>3
<1>3. CASE r = <<>>
  BY <1>1, <1>2, <1>3, ConcatEmptySeq DEF Ascends, c
<1>4. CASE r # <<>>
  <2>1. Len(r) \in Nat \ {0}
    BY <1>4, EmptySeq
  <2>2. Len(c) # 0 /\ c[Len(c)] = r[Len(r)]
    <3>1. Len(c) \in 1 .. Len(s) + Len(r) /\ ~(Len(c) <= Len(s)) /\ Len(c) - Len(s) = Len(r)
      BY <1>1, <2>1
    <3>2. c[Len(c)] = r[Len(c) - Len(s)]
      BY <1>1, <3>1
    <3> QED BY <3>1, <3>2
  <2>3. c # <<>>
    BY <2>2, EmptySeq
  <2> QED BY <1>1, <1>2, <1>4, <2>2, <2>3 DEF Ascends, c
<1> QED BY <1>3, <1>4

\* However slow the browser, it ends up with the frame published last; while
\* the worker waits for the answer to each frame, the browser never sees an
\* older one after a newer (ViewersCatchUp).
THEOREM ViewCatchesUp == ViewSpec => []ViewersCatchUp
<1>1. ASSUME ViewInv PROVE ViewersCatchUp
  <2> DEFINE first == IF shown = NoFrame THEN <<>> ELSE <<shown>>
  <2>1. /\ queue \in Seq(Int) /\ calls \in Seq(Int)
        /\ shown # NoFrame => shown \in Int
    BY <1>1, FramesAreNumbers DEF ViewInv
  <2>2. first \in Seq(Int)
    BY <2>1
  <2>3. Ahead = (first \o queue) \o calls
    BY DEF Ahead
  <2>4. /\ first \o queue \in Seq(Int) /\ Ahead \in Seq(Int)
    BY <2>1, <2>2, <2>3, ConcatOrder
  <2>5. NewestArrives
    <3>1. SUFFICES ASSUME watched, latest # NoFrame
                   PROVE  Ahead # <<>> /\ Ahead[Len(Ahead)] = latest
      BY DEF NewestArrives
    <3>2. latest = Newest
      BY <1>1, <3>1 DEF ViewInv, NewestInv
    <3>3. CASE calls # <<>>
      BY <2>1, <2>3, <2>4, <3>2, <3>3, ConcatOrder DEF Newest
    <3>4. CASE calls = <<>> /\ queue # <<>>
      BY <2>1, <2>2, <2>3, <2>4, <3>2, <3>4, ConcatOrder DEF Newest
    <3>5. CASE calls = <<>> /\ queue = <<>>
      <4>1. Ahead = first
        BY <2>1, <2>2, <2>3, <2>4, <3>5, ConcatOrder
      <4>2. first = <<latest>>
        BY <3>1, <3>2, <3>5 DEF Newest
      <4> QED BY <4>1, <4>2
    <3> QED BY <3>3, <3>4, <3>5
  <2>6. ASSUME ~overlap PROVE NeverBack
    <3>1. OrderInv
      BY <1>1, <2>6 DEF ViewInv
    <3>2. Ascends(first) /\ Precedes(first, queue)
      BY <2>1, <3>1 DEF OrderInv, Ascends, Precedes, Above
    <3>3. Ascends(first \o queue)
      BY <2>1, <2>2, <3>1, <3>2, ConcatOrder DEF OrderInv
    <3>4. Precedes(first \o queue, calls)
      <4>1. ASSUME NEW i \in 1 .. Len(first \o queue), NEW j \in 1 .. Len(calls)
            PROVE  (first \o queue)[i] < calls[j]
        <5>1. /\ Len(first \o queue) = Len(first) + Len(queue)
              /\ Len(first) \in Nat /\ Len(queue) \in Nat
              /\ (first \o queue)[i] = IF i <= Len(first) THEN first[i] ELSE queue[i - Len(first)]
          BY <2>1, <2>2, ConcatProperties
        <5>2. CASE i <= Len(first)
          <6>1. shown # NoFrame /\ first = <<shown>> /\ i = 1
            BY <5>1, <5>2
          <6> QED BY <3>1, <5>1, <5>2, <6>1 DEF OrderInv, Above
        <5>3. CASE i > Len(first)
          <6>1. i - Len(first) \in 1 .. Len(queue)
            BY <5>1, <5>3
          <6> QED BY SMTT(30), <3>1, <5>1, <5>3, <6>1 DEF OrderInv, Precedes
        <5> QED BY <5>1, <5>2, <5>3
      <4> QED BY <4>1 DEF Precedes
    <3>5. Ascends(Ahead)
      BY <2>1, <2>3, <2>4, <3>1, <3>3, <3>4, ConcatOrder DEF OrderInv
    <3>6. DOMAIN Ahead = 1 .. Len(Ahead)
      BY <2>4, LenProperties
    <3> QED BY <3>5, <3>6 DEF NeverBack, Ascends
  <2> QED BY <2>5, <2>6 DEF ViewersCatchUp
<1> QED BY <1>1, ViewInvariant, PTL
-----------------------------------------------------------------------------
(* EdgeToStore: what the worker posts, served by the incident store          *)

(* What each thread is at: it creates the incident of the event it serves,  *)
(* has not succeeded while it is at it, and names an incident of that event *)
(* once it has inserted one.                                                *)
PathInv ==
  /\ cur \in Events \cup {Nothing}
  /\ \A r \in batch : r.event \in Events
  /\ serving \in [Handlers -> Events \cup {Nothing}]
  /\ done \in [Handlers -> BOOLEAN]
  /\ incidents \in [Incidents -> Store!Row]
  /\ dpc \in [Handlers -> {"idle", "insert", "reread", "audit", "notify"}]
  /\ dEvent \in [Handlers -> Events \cup {Nothing}]
  /\ dIncident \in [Handlers -> Incidents \cup {Nothing}]
  /\ \A t \in Handlers : dpc[t] # "idle" =>
       /\ serving[t] = dEvent[t]
       /\ serving[t] # Nothing
       /\ ~done[t]
  /\ \A t \in Handlers : dpc[t] \in {"audit", "notify"} =>
       dIncident[t] \in Store!IncidentsOf(dEvent[t])

LEMMA PathRows ==
  /\ Store!NoRow \in Store!Row /\ Store!NoRow.status = "absent"
  /\ \A e \in Events : /\ Store!NewRow(e) \in Store!Row
                       /\ Store!NewRow(e).event = e
                       /\ Store!NewRow(e).status = "open"
  BY DEF Store!NoRow, Store!NewRow, Store!Row, Store!Unstamped,
     Store!Status

LEMMA PathStart == PathInit => PathInv /\ Edge!Init
<1> SUFFICES ASSUME PathInit PROVE PathInv /\ Edge!Init
  OBVIOUS
<1>1. Store!Init /\ Edge!Init
  BY DEF PathInit
<1> QED
  BY <1>1, PathRows DEF PathInv, Store!Init, Edge!Init

(* The thread's transactions: what they do to the table. *)
LEMMA PathInsert ==
  ASSUME PathInv, NEW t \in Handlers, Store!Insert(t)
  PROVE  /\ incidents' \in [Incidents -> Store!Row]
         /\ dIncident' \in [Handlers -> Incidents \cup {Nothing}]
         /\ dIncident'[t] \in Store!IncidentsOf(dEvent[t])'
         /\ \A u \in Handlers \ {t} : dIncident'[u] = dIncident[u]
         /\ \A e : Store!IncidentsOf(e) \subseteq Store!IncidentsOf(e)'
         /\ ingested' = ingested \cup {dEvent[t]}
         /\ dEvent[t] \in Events \ ingested
<1>1. /\ dEvent[t] \in Events /\ Store!IncidentsOf(dEvent[t]) = {}
      /\ dEvent' = dEvent
  BY DEF PathInv, Store!Insert, Store!UniqueViolation
<1>2. PICK i \in Incidents \ Store!Stored :
        /\ incidents' = [incidents EXCEPT ![i] = Store!NewRow(dEvent[t])]
        /\ dIncident' = [dIncident EXCEPT ![t] = i]
  BY DEF Store!Insert
<1>3. /\ incidents' \in [Incidents -> Store!Row]
      /\ Store!Stored' = Store!Stored \cup {i}
      /\ incidents'[i].event = dEvent[t]
      /\ \A j \in Store!Stored : incidents'[j] = incidents[j]
  BY <1>1, <1>2, PathRows DEF PathInv, Store!Stored
<1>4. \A e \in Events : Store!IncidentsOf(e)' =
        IF e = dEvent[t] THEN {i} ELSE Store!IncidentsOf(e)
  BY <1>1, <1>3 DEF Store!IncidentsOf
<1>5. ingested' = ingested \cup {dEvent[t]} /\ dEvent[t] \notin ingested
  BY <1>1, <1>4 DEF ingested
<1>6. \A e : Store!IncidentsOf(e) \subseteq Store!IncidentsOf(e)'
  BY <1>3 DEF Store!IncidentsOf
<1>7. i \in Store!IncidentsOf(dEvent[t])'
  BY <1>1, <1>3 DEF Store!IncidentsOf
<1> QED
  BY <1>1, <1>2, <1>3, <1>5, <1>6, <1>7 DEF PathInv

LEMMA SameTable ==
  ASSUME incidents' = incidents
  PROVE  /\ \A e : Store!IncidentsOf(e)' = Store!IncidentsOf(e)
         /\ ingested' = ingested
  BY DEF Store!IncidentsOf, Store!Stored, ingested

(* create_from_detection, transaction by transaction: it stutters, ingests, *)
(* or completes.                                                            *)
LEMMA PathSubmits ==
  ASSUME PathInv, NEW t \in Handlers, Submit(t)
  PROVE  PathInv' /\ [Edge!Next]_(Edge!vars)
<1> USE DEF queueVars, edgeVars
<1>1. ASSUME Complete(t), serving[t] \in ingested, ~done[t], incidents' = incidents
      PROVE  Edge!Next
  <2>1. Edge!Complete(t)
    BY <1>1, SameTable DEF Complete, Edge!Complete, Edge!spool, Edge!worker
  <2> QED
    BY <2>1 DEF Edge!Next, Edge!ServerStep
<1>2. ASSUME UNCHANGED edgeVars, incidents' = incidents
      PROVE  UNCHANGED Edge!vars
  BY <1>2, SameTable DEF Edge!vars, Edge!spool, Edge!worker, Edge!api
<1>3. CASE Lookup(t)
  <2>1. serving[t] \in Events /\ ~done[t] /\ incidents' = incidents
    BY <1>3 DEF PathInv, Lookup, Store!LookupMiss, Store!LookupHit, Store!tables
  <2>2. CASE Store!LookupMiss(t, serving[t]) /\ UNCHANGED edgeVars
    <3>1. /\ dpc' = [dpc EXCEPT ![t] = "insert"]
          /\ dEvent' = [dEvent EXCEPT ![t] = serving[t]]
          /\ UNCHANGED <<dIncident, cur, batch, serving, done>>
          /\ dpc[t] = "idle" /\ serving[t] # Nothing
      BY <1>3, <2>2 DEF Lookup, Store!LookupMiss
    <3>2. PathInv'
      BY <2>1, <3>1, SameTable DEF PathInv
    <3> QED
      BY <1>2, <2>1, <2>2, <3>2
  <2>3. CASE Store!LookupHit(t, serving[t]) /\ Complete(t)
    <3>1. dpc[t] = "idle" /\ serving[t] \in ingested
      BY <2>1, <2>3 DEF Store!LookupHit, ingested
    <3>2. /\ UNCHANGED <<incidents, dpc, dEvent, dIncident, cur, batch, serving>>
          /\ done' = [done EXCEPT ![t] = TRUE]
      BY <2>3 DEF Store!LookupHit, Store!tables, Complete
    <3>3. PathInv'
      BY <3>1, <3>2, SameTable DEF PathInv
    <3> QED
      BY <1>1, <2>1, <2>3, <3>1, <3>3
  <2> QED
    BY <1>3, <2>2, <2>3 DEF Lookup
<1>4. CASE Store!Insert(t) /\ UNCHANGED edgeVars
  <2>1. /\ serving[t] = dEvent[t] /\ serving[t] # Nothing /\ ~done[t]
        /\ dpc' = [dpc EXCEPT ![t] = "audit"] /\ dEvent' = dEvent
    BY <1>4 DEF PathInv, Store!Insert
  <2>2. Edge!Ingest(t)
    BY <1>4, <2>1, PathInsert DEF Edge!Ingest, Edge!spool, Edge!worker
  <2>3. \A u \in Handlers : dpc'[u] \in {"audit", "notify"} =>
          dIncident'[u] \in Store!IncidentsOf(dEvent[u])'
    <3>1. ASSUME NEW u \in Handlers, dpc'[u] \in {"audit", "notify"}, u # t
          PROVE  dIncident'[u] \in Store!IncidentsOf(dEvent[u])'
      <4>1. dIncident[u] \in Store!IncidentsOf(dEvent[u]) /\ dIncident'[u] = dIncident[u]
        BY <1>4, <2>1, <3>1, PathInsert DEF PathInv
      <4>2. \A e : Store!IncidentsOf(e) \subseteq Store!IncidentsOf(e)'
        BY <1>4, PathInsert
      <4>3. PICK e : e = dEvent[u] /\ e = dEvent'[u]
        BY <2>1
      <4>4. dIncident[u] \in Store!IncidentsOf(e)'
        BY <4>1, <4>2, <4>3
      <4> QED
        BY <4>1, <4>3, <4>4 DEF Store!IncidentsOf
    <3> QED
      BY <1>4, <3>1, PathInsert
  <2>4. PathInv'
    BY <1>4, <2>1, <2>3, PathInsert DEF PathInv
  <2> QED
    BY <2>2, <2>4 DEF Edge!Next, Edge!ServerStep
<1>5. CASE (Store!InsertConflict(t) \/ Store!AuditCreated(t)) /\ UNCHANGED edgeVars
  <2>1. /\ incidents' = incidents /\ UNCHANGED <<dEvent, dIncident>>
        /\ \/ dpc[t] = "insert" /\ dpc' = [dpc EXCEPT ![t] = "reread"]
           \/ dpc[t] = "audit" /\ dpc' = [dpc EXCEPT ![t] = "notify"]
    BY <1>5 DEF Store!InsertConflict, Store!AuditCreated, Store!tables
  <2>2. PathInv'
    BY <1>5, <2>1, SameTable DEF PathInv
  <2> QED
    BY <1>2, <1>5, <2>1, <2>2
<1>6. CASE Return(t)
  <2>1. /\ incidents' = incidents /\ dpc[t] # "idle"
        /\ Store!DetectorIdle(t) /\ Complete(t)
        /\ Store!IncidentsOf(dEvent[t]) # {}
    BY <1>6 DEF Return, PathInv, Store!Reread, Store!EnqueueNotification,
       Store!tables
  <2>2. serving[t] \in ingested /\ ~done[t]
    BY <2>1 DEF PathInv, ingested
  <2>3. PathInv'
    BY <2>1, SameTable DEF PathInv, Store!DetectorIdle, Complete
  <2> QED
    BY <1>1, <2>1, <2>2, <2>3
<1> QED
  BY <1>3, <1>4, <1>5, <1>6 DEF Submit, Create

(* A step that leaves the store alone, and the threads that are at work.    *)
LEMMA PathCalm ==
  ASSUME PathInv, UNCHANGED storeVars,
         cur' \in Events \cup {Nothing}, \A r \in batch' : r.event \in Events,
         serving' \in [Handlers -> Events \cup {Nothing}], done' \in [Handlers -> BOOLEAN],
         \A t \in Handlers : dpc[t] # "idle" =>
           serving'[t] = serving[t] /\ done'[t] = done[t]
  PROVE  PathInv'
<1>1. UNCHANGED <<incidents, dpc, dEvent, dIncident>>
  BY DEF storeVars
<1> QED
  BY <1>1, SameTable DEF PathInv

(* What the worker does, and what frees a thread, is a step of EdgeDelivery *)
(* as it stands; no thread loses a request it is working on.                *)
LEMMA PathServes ==
  ASSUME PathInv, UNCHANGED storeVars,
         \/ Edge!WorkerStep
         \/ \E e \in Events : Edge!Emit(e) \/ Edge!BackoffEnds(e)
         \/ Edge!Unreachable \/ Edge!LoseAnswer
         \/ Edge!MarkSentRaises \/ Edge!Crash
         \/ \E t \in Handlers : Edge!Unheard(t)
         \/ \E t \in Handlers : Edge!Refuse(t) /\ dpc[t] = "idle"
  PROVE  PathInv' /\ Edge!Next
<1> USE DEF Edge!spool, Edge!worker, Edge!api
<1>1. Edge!Next
  BY DEF Edge!Next, Edge!ServerStep
<1>2. CASE Edge!ListDue
  <2>1. \A r \in batch' : r.event \in Events
    BY <1>2 DEF Edge!ListDue, Edge!Due, Edge!HasFile
  <2> QED
    BY <1>1, <1>2, <2>1, PathCalm DEF PathInv, Edge!ListDue
<1>3. CASE Edge!TakeDue
  BY <1>1, <1>3, PathCalm DEF PathInv, Edge!TakeDue
<1>4. CASE Edge!DrainDone \/ Edge!PipelineEnds \/ Edge!Restart
  BY <1>1, <1>4, PathCalm
  DEF PathInv, Edge!DrainDone, Edge!PipelineEnds, Edge!Restart
<1>5. ASSUME NEW t \in Handlers, Edge!Post(t) PROVE PathInv'
  <2>1. serving[t] = Nothing /\ serving' = [serving EXCEPT ![t] = cur]
        /\ UNCHANGED <<cur, batch, done>>
    BY <1>5 DEF Edge!Post
  <2> QED
    BY <2>1, PathCalm DEF PathInv
<1>6. ASSUME NEW t \in Handlers, done[t] \/ dpc[t] = "idle", Edge!Free(t),
             UNCHANGED <<cur, batch>>
      PROVE  PathInv'
  BY <1>6, PathCalm DEF PathInv, Edge!Free
<1>7. ASSUME NEW t \in Handlers,
             \/ Edge!Answer(t) \/ Edge!Unheard(t)
             \/ Edge!Refuse(t) /\ dpc[t] = "idle"
      PROVE  PathInv'
  <2>1. /\ done[t] \/ dpc[t] = "idle"
        /\ Edge!Free(t)
        /\ UNCHANGED <<cur, batch>>
    BY <1>7 DEF Edge!Answer, Edge!Succeeded, Edge!Unheard, Edge!Refuse
  <2> QED
    BY <1>6, <2>1
<1>8. CASE Edge!FileStep
  BY <1>1, <1>8, PathCalm
  DEF PathInv, Edge!FileStep, Edge!Unlink, Edge!WriteSent, Edge!Retry,
      Edge!GiveUp, Edge!Drop, Edge!Return
<1>9. ASSUME NEW e \in Events, Edge!Emit(e) \/ Edge!BackoffEnds(e) PROVE PathInv'
  BY <1>9, PathCalm DEF PathInv, Edge!Emit, Edge!BackoffEnds
<1>10. CASE Edge!Unreachable \/ Edge!LoseAnswer \/ Edge!MarkSentRaises
            \/ Edge!Crash
  BY <1>1, <1>10, PathCalm
  DEF PathInv, Edge!Unreachable, Edge!LoseAnswer, Edge!MarkSentRaises,
      Edge!Crash
<1> QED
  BY <1>1, <1>2, <1>3, <1>4, <1>5, <1>7, <1>8, <1>9, <1>10 DEF Edge!WorkerStep

(* A request that dies half way in the store is one that EdgeDelivery       *)
(* refuses: what it committed stays ingested.                               *)
LEMMA PathAborts ==
  ASSUME PathInv, NEW t \in Handlers, Store!AbortDetector(t), Edge!Refuse(t)
  PROVE  PathInv' /\ Edge!Next
<1>1. /\ incidents' = incidents
      /\ Store!DetectorIdle(t)
  BY DEF Store!AbortDetector, Store!tables
<1>2. Edge!Free(t) /\ UNCHANGED <<cur, batch>>
  BY DEF Edge!Refuse
<1>3. PathInv'
  BY <1>1, <1>2, SameTable DEF PathInv, Store!DetectorIdle, Edge!Free
<1> QED
  BY <1>3 DEF Edge!Next

LEMMA PathStep ==
  PathInv /\ [PathNext]_pathVars => PathInv' /\ [Edge!Next]_(Edge!vars)
<1> SUFFICES ASSUME PathInv, [PathNext]_pathVars
             PROVE  PathInv' /\ [Edge!Next]_(Edge!vars)
  OBVIOUS
<1>1. CASE WorkerStep \/ WorkerEvent \/ \E e \in Events : BackoffEnds(e)
  BY <1>1, PathServes DEF WorkerStep, WorkerEvent, BackoffEnds
<1>2. ASSUME NEW t \in Handlers, Submit(t)
      PROVE  PathInv' /\ [Edge!Next]_(Edge!vars)
  BY <1>2, PathSubmits
<1>3. ASSUME NEW t \in Handlers, Unheard(t) \/ Refuse(t)
      PROVE  PathInv' /\ [Edge!Next]_(Edge!vars)
  BY <1>3, PathServes, PathAborts DEF Unheard, Refuse
<1>4. CASE UNCHANGED pathVars
  <2>1. UNCHANGED <<incidents, dpc, dEvent, dIncident, cur, batch, serving, done>>
        /\ UNCHANGED edgeVars
    BY <1>4 DEF pathVars, edgeVars, queueVars, storeVars
  <2>2. PathInv'
    BY <2>1, SameTable DEF PathInv
  <2> QED
    BY <2>1, <2>2, SameTable
    DEF edgeVars, queueVars, Edge!vars, Edge!spool, Edge!worker,
        Edge!api
<1> QED
  BY <1>1, <1>2, <1>3, <1>4 DEF PathNext

(* The store is the API that EdgeDelivery assumes (ImplementsDelivery):     *)
(* whatever transactions a POST takes in create_from_detection, whichever   *)
(* repeated POSTs race it and wherever it dies, the event is ingested in    *)
(* one step, stays so, and only a POST that left an incident succeeds.      *)
THEOREM PathImplements == PathSpec => ImplementsDelivery
<1>1. PathInit => PathInv /\ Edge!Init
  BY PathStart
<1>2. PathInv /\ [PathNext]_pathVars => PathInv' /\ [Edge!Next]_(Edge!vars)
  BY PathStep
<1> QED
  BY <1>1, <1>2, PTL DEF PathSpec, ImplementsDelivery, Edge!Spec
-----------------------------------------------------------------------------
(* Seen from the tables, a step of the composition is a transaction of a    *)
(* POST, the death of one, or nothing.                                      *)
StoreStep(t) ==
  \/ \E e \in Events : Store!LookupHit(t, e) \/ Store!LookupMiss(t, e)
  \/ Store!DetectorStep(t)
  \/ Store!AbortDetector(t)

LEMMA PathStores ==
  ASSUME PathInv, [PathNext]_pathVars
  PROVE  UNCHANGED storeVars \/ \E t \in Handlers : StoreStep(t)
<1>1. ASSUME NEW t \in Handlers, Submit(t) PROVE StoreStep(t)
  <2>1. CASE Lookup(t)
    <3>1. serving[t] \in Events
      BY <2>1 DEF PathInv, Lookup
    <3> QED
      BY <2>1, <3>1 DEF Lookup, StoreStep
  <2>2. CASE Create(t) \/ Return(t)
    BY <2>2 DEF Create, Return, StoreStep, Store!DetectorStep
  <2> QED
    BY <1>1, <2>1, <2>2 DEF Submit
<1>2. ASSUME NEW t \in Handlers, Refuse(t)
      PROVE  UNCHANGED storeVars \/ StoreStep(t)
  BY <1>2 DEF Refuse, StoreStep
<1>3. CASE UNCHANGED pathVars
  BY <1>3 DEF pathVars
<1> QED
  BY <1>1, <1>2, <1>3
  DEF PathNext, WorkerStep, WorkerEvent, BackoffEnds, Unheard

(* The composition uses the store as it is: every one of its steps is a     *)
(* step of IncidentStore without operators, or leaves the tables alone.     *)
THEOREM PathUsesStore == PathSpec => Store!Spec
<1>1. PathInit => PathInv /\ Store!Init
  BY PathStart DEF PathInit
<1>2. PathInv /\ [PathNext]_pathVars => [Store!Next]_(Store!vars)
  <2> SUFFICES ASSUME PathInv, [PathNext]_pathVars
               PROVE  [Store!Next]_(Store!vars)
    OBVIOUS
  <2>1. ASSUME NEW t \in Handlers, StoreStep(t) PROVE Store!Next
    BY <2>1 DEF StoreStep, Store!Next
  <2>2. CASE UNCHANGED storeVars
    BY <2>2 DEF storeVars, Store!vars, Store!tables, Store!detectorVars,
       Store!operatorVars
  <2> QED
    BY <2>1, <2>2, PathStores
<1>3. PathInv /\ [PathNext]_pathVars => PathInv'
  BY PathStep
<1> QED
  BY <1>1, <1>2, <1>3, PTL DEF PathSpec, Store!Spec

-----------------------------------------------------------------------------
(* From the edge to the alert                                               *)

BeingCreated(e) ==
  \E t \in Handlers : dpc[t] \in {"audit", "notify"} /\ dEvent[t] = e

Alerted(e) == NotificationsFor(e) # {} \/ BeingCreated(e) \/ aborts > 0

(* What the worker files under sent/ has an incident, and, if its severity  *)
(* calls for it, a row in the notification queue: unless the request that   *)
(* created the incident is about to write it, or requests have died in the  *)
(* store.  The safety half of AlertQueued.                                  *)
SentIsAlerted ==
  \A e \in sent : e \in ingested /\ (e \in Notifiable => Alerted(e))

(* A POST succeeds, is answered and is filed only after the incident is     *)
(* there; the thread the worker waits for serves the detection it posted.   *)
SentInv ==
  /\ back \in {"drain", "pipeline"}
  /\ sent \subseteq ingested
  /\ pc \in {"unlink", "write_sent"} => cur \in ingested
  /\ pc = "await" => call \in Handlers /\ serving[call] = cur
  /\ \A t \in Handlers : done[t] => serving[t] \in ingested

AlertInv ==
  /\ aborts \in Nat
  /\ notifications \in [Notifications -> Store!NotificationRow]
  /\ \A e \in Notifiable \cap ingested : Alerted(e)

LEMMA SentStep ==
  ASSUME PathInv, SentInv, [Edge!Next]_(Edge!vars)
  PROVE  SentInv'
<1> USE DEF Edge!spool, Edge!worker, Edge!api
<1>1. ingested \subseteq Events /\ Nothing \notin ingested
  BY PathAssumption DEF ingested
<1>2. ASSUME UNCHANGED <<sent, ingested, serving, done>>,
             back' \in {"drain", "pipeline"},
             \/ UNCHANGED <<pc, cur, call>>
             \/ pc' \notin {"unlink", "write_sent", "await"}
      PROVE  SentInv'
  BY <1>2 DEF SentInv
<1>3. CASE \/ Edge!ListDue \/ Edge!TakeDue \/ Edge!DrainDone
           \/ Edge!PipelineEnds \/ Edge!Restart
           \/ \E e \in Events : Edge!Emit(e) \/ Edge!BackoffEnds(e)
  BY <1>2, <1>3
  DEF SentInv, Edge!ListDue, Edge!TakeDue, Edge!DrainDone, Edge!PipelineEnds,
      Edge!Restart, Edge!Emit, Edge!BackoffEnds
<1>4. CASE \/ Edge!QuietFrame \/ Edge!Unreachable \/ Edge!LoseAnswer
           \/ Edge!MarkSentRaises \/ Edge!Crash \/ UNCHANGED Edge!vars
  BY <1>2, <1>4
  DEF SentInv, Edge!QuietFrame, Edge!Unreachable, Edge!LoseAnswer,
      Edge!MarkSentRaises, Edge!Crash, Edge!ToWorker, Edge!vars
<1>5. ASSUME NEW t \in Handlers, Edge!Post(t) PROVE SentInv'
  <2>1. /\ pc' = "await" /\ call' = t
        /\ serving[t] = Nothing /\ serving' = [serving EXCEPT ![t] = cur]
        /\ UNCHANGED <<sent, cur, done, ingested, back>>
    BY <1>5 DEF Edge!Post, Edge!ToWorker
  <2>2. ~done[t]
    BY <1>1, <2>1 DEF SentInv
  <2> QED
    BY <2>1, <2>2 DEF SentInv, PathInv
<1>6. ASSUME NEW t \in Handlers, Edge!Answer(t) PROVE SentInv'
  <2>1. /\ pc = "await" /\ call = t /\ done[t] /\ pc' = "unlink"
        /\ serving' = [serving EXCEPT ![t] = Nothing]
        /\ done' = [done EXCEPT ![t] = FALSE]
        /\ UNCHANGED <<sent, cur, ingested, back>>
    BY <1>6 DEF Edge!Answer, Edge!Succeeded, Edge!Free, Edge!ToWorker
  <2>2. cur \in ingested
    BY <2>1 DEF SentInv
  <2> QED
    BY <2>1, <2>2 DEF SentInv, PathInv
<1>7. ASSUME NEW t \in Handlers, Edge!Free(t), UNCHANGED <<sent, cur, ingested, back>>,
             \/ call # t /\ UNCHANGED <<pc, call>>
             \/ pc' = "fail"
      PROVE  SentInv'
  BY <1>7 DEF Edge!Free, SentInv, PathInv
<1>8. ASSUME NEW t \in Handlers, Edge!Refuse(t) \/ Edge!Unheard(t)
      PROVE  SentInv'
  BY <1>7, <1>8 DEF Edge!Refuse, Edge!Unheard, Edge!ToWorker
<1>9. ASSUME NEW t \in Handlers, Edge!Ingest(t) \/ Edge!Complete(t)
      PROVE  SentInv'
  BY <1>9 DEF Edge!Ingest, Edge!Complete, SentInv, PathInv
<1>10. CASE Edge!FileStep
  <2>1. CASE Edge!Unlink
    BY <2>1 DEF Edge!Unlink, SentInv
  <2>2. CASE Edge!GiveUp
    BY <1>2, <2>2 DEF SentInv, Edge!GiveUp
  <2>3. CASE Edge!WriteSent \/ Edge!Retry \/ Edge!Drop
    <3>1. pc' \in {"drain", "pipeline"}
      BY <2>3 DEF SentInv, Edge!WriteSent, Edge!Retry, Edge!Drop, Edge!Return
    <3> QED
      BY <2>3, <3>1 DEF SentInv, Edge!WriteSent, Edge!Retry, Edge!Drop
  <2> QED
    BY <1>10, <2>1, <2>2, <2>3 DEF Edge!FileStep
<1> QED
  BY <1>3, <1>4, <1>5, <1>6, <1>8, <1>9, <1>10
  DEF Edge!Next, Edge!WorkerStep, Edge!ServerStep

(* The store's side: a thread that inserts is from then on about to write   *)
(* the notification; it writes it, or its request dies.                     *)
LEMMA AlertStep ==
  ASSUME PathInv, AlertInv, NEW t \in Handlers, StoreStep(t)
  PROVE  AlertInv'
<1>1. /\ aborts \in Nat /\ DOMAIN notifications = Notifications
      /\ dpc \in [Handlers -> {"idle", "insert", "reread", "audit", "notify"}]
      /\ dEvent \in [Handlers -> Events \cup {Nothing}]
  BY DEF PathInv, AlertInv
<1>2. ASSUME UNCHANGED <<incidents, notifications, aborts>>,
             \A e : BeingCreated(e) => BeingCreated(e)'
      PROVE  AlertInv'
  <2>1. \A e : NotificationsFor(e)' = NotificationsFor(e)
    BY <1>2 DEF NotificationsFor, Store!Enqueued, Store!IncidentsOf, Store!Stored
  <2>2. \A e : Alerted(e) => Alerted(e)'
    BY <1>2, <2>1 DEF Alerted
  <2> QED
    BY <1>2, <2>2, SameTable DEF AlertInv
<1>3. CASE \E e \in Events : Store!LookupHit(t, e) \/ Store!LookupMiss(t, e)
  <2>1. /\ UNCHANGED <<incidents, notifications, aborts>>
        /\ \/ UNCHANGED <<dpc, dEvent>>
           \/ /\ dpc[t] = "idle"
              /\ \E e \in Events : /\ dpc' = [dpc EXCEPT ![t] = "insert"]
                                   /\ dEvent' = [dEvent EXCEPT ![t] = e]
    BY <1>3 DEF Store!LookupHit, Store!LookupMiss, Store!tables
  <2>2. \A u \in Handlers : dpc[u] \in {"audit", "notify"} =>
          dpc'[u] = dpc[u] /\ dEvent'[u] = dEvent[u]
    BY <1>1, <2>1
  <2>3. \A e : BeingCreated(e) => BeingCreated(e)'
    BY <2>2 DEF BeingCreated
  <2> QED
    BY <1>2, <2>1, <2>3
<1>4. CASE \/ Store!InsertConflict(t) \/ Store!AuditCreated(t) \/ Store!Reread(t)
  <2>1. /\ UNCHANGED <<incidents, notifications, aborts>>
        /\ \/ /\ dpc[t] = "audit" /\ dpc' = [dpc EXCEPT ![t] = "notify"]
              /\ dEvent' = dEvent
           \/ /\ dpc[t] \in {"insert", "reread"}
              /\ \E p, e : /\ dpc' = [dpc EXCEPT ![t] = p]
                           /\ dEvent' \in {dEvent, [dEvent EXCEPT ![t] = e]}
    BY <1>4 DEF Store!InsertConflict, Store!AuditCreated, Store!Reread,
       Store!DetectorIdle, Store!tables
  <2>2. \A u \in Handlers : dpc[u] \in {"audit", "notify"} =>
          dpc'[u] \in {"audit", "notify"} /\ dEvent'[u] = dEvent[u]
    BY <1>1, <2>1
  <2>3. \A e : BeingCreated(e) => BeingCreated(e)'
    BY <2>2 DEF BeingCreated
  <2> QED
    BY <1>2, <2>1, <2>3
<1>5. CASE Store!Insert(t)
  <2>1. /\ UNCHANGED <<notifications, aborts, dEvent>>
        /\ dpc' = [dpc EXCEPT ![t] = "audit"]
    BY <1>5 DEF Store!Insert
  <2>2. /\ ingested' = ingested \cup {dEvent[t]}
        /\ \A e : Store!IncidentsOf(e) \subseteq Store!IncidentsOf(e)'
    BY <1>5, PathInsert
  <2>3. \A e : e = dEvent[t] => BeingCreated(e)'
    BY <1>1, <2>1 DEF BeingCreated
  <2>4. \A e : BeingCreated(e) => BeingCreated(e)'
    BY <1>1, <2>1 DEF BeingCreated
  <2>5. \A e : NotificationsFor(e) \subseteq NotificationsFor(e)'
    BY <2>1, <2>2 DEF NotificationsFor, Store!Enqueued
  <2>6. \A e : Alerted(e) => Alerted(e)'
    BY <2>1, <2>4, <2>5 DEF Alerted
  <2>7. \A e \in ingested' : e \in ingested \/ BeingCreated(e)'
    BY <2>2, <2>3
  <2> QED
    BY <2>1, <2>6, <2>7 DEF AlertInv, Alerted
<1>6. CASE Store!EnqueueNotification(t)
  <2>1. /\ UNCHANGED <<incidents, aborts>> /\ Store!DetectorIdle(t)
        /\ dpc[t] = "notify"
    BY <1>6 DEF Store!EnqueueNotification
  <2>2. dIncident[t] \in Store!IncidentsOf(dEvent[t]) /\ dIncident[t] \in Incidents
    BY <2>1 DEF PathInv, Store!IncidentsOf, Store!Stored
  <2> DEFINE Written ==
               /\ notifications' \in [Notifications -> Store!NotificationRow]
               /\ \A n \in Store!Enqueued : notifications'[n] = notifications[n]
               /\ dEvent[t] \in Notifiable =>
                    \E n \in Notifications :
                      /\ notifications'[n].incident = dIncident[t]
                      /\ notifications'[n].status # "absent"
  <2>3. Written
    <3>1. CASE ~Store!IsNotifiable(dEvent[t]) /\ UNCHANGED notifications
      BY <3>1 DEF AlertInv, Store!IsNotifiable
    <3>2. ASSUME NEW n \in Notifications \ Store!Enqueued,
                 notifications' = [notifications EXCEPT ![n] =
                   [incident |-> dIncident[t], channel |-> Store!Channel,
                    status |-> Store!EnqueuedStatus]]
          PROVE  Written
      <4>1. /\ Store!Channel \in {"email", "mock"}
            /\ Store!EnqueuedStatus \in {"queued", "suppressed", "failed"}
        BY DEF Store!Channel, Store!EnqueuedStatus
      <4>2. [incident |-> dIncident[t], channel |-> Store!Channel,
             status |-> Store!EnqueuedStatus] \in Store!NotificationRow
        BY <2>2, <4>1 DEF Store!NotificationRow
      <4> QED
        BY <1>1, <3>2, <4>1, <4>2 DEF AlertInv
    <3> QED
      BY <1>6, <3>1, <3>2 DEF Store!EnqueueNotification
  <2>4. \A e : NotificationsFor(e) \subseteq NotificationsFor(e)'
    BY <2>1, <2>3, SameTable DEF NotificationsFor, Store!Enqueued
  <2>5. \A e \in Notifiable : e = dEvent[t] => NotificationsFor(e)' # {}
    <3> SUFFICES ASSUME NEW e \in Notifiable, e = dEvent[t]
                 PROVE  NotificationsFor(e)' # {}
      OBVIOUS
    <3>1. dIncident[t] \in Store!IncidentsOf(e)'
      BY <2>1, <2>2, SameTable
    <3> QED
      BY <2>3, <3>1 DEF NotificationsFor, Store!Enqueued
  <2>6. \A e \in Notifiable : BeingCreated(e) =>
          BeingCreated(e)' \/ NotificationsFor(e)' # {}
    <3>1. \A u \in Handlers : u # t => dpc'[u] = dpc[u] /\ dEvent'[u] = dEvent[u]
      BY <1>1, <2>1 DEF Store!DetectorIdle
    <3> QED
      BY <2>5, <3>1 DEF BeingCreated
  <2> QED
    BY <2>1, <2>3, <2>4, <2>6, SameTable DEF AlertInv, Alerted
<1>7. CASE Store!AbortDetector(t)
  BY <1>1, <1>7 DEF Store!AbortDetector, Store!tables, AlertInv, Alerted
<1> QED
  BY <1>3, <1>4, <1>5, <1>6, <1>7 DEF StoreStep, Store!DetectorStep

(* From the edge to the alert (SentIsAlerted): a detection the edge counts  *)
(* as delivered has its incident, and its alert is queued, about to be      *)
(* queued, or lost with a request that died between the two transactions.   *)
THEOREM PathAlerts == PathSpec => []SentIsAlerted
<1> DEFINE IInv == PathInv /\ SentInv /\ AlertInv
<1>1. PathInit => IInv
  <2> SUFFICES ASSUME PathInit PROVE IInv
    OBVIOUS
  <2>1. Store!Init /\ Edge!Init
    BY DEF PathInit
  <2>2. ingested = {}
    BY <2>1, PathRows DEF Store!Init, ingested, Store!IncidentsOf, Store!Stored
  <2>3. SentInv
    BY <2>1 DEF SentInv, Edge!Init
  <2>4. AlertInv
    BY <2>1, <2>2 DEF AlertInv, Store!Init, Store!NoNotification,
       Store!NotificationRow
  <2> QED
    BY <2>3, <2>4, PathStart
<1>2. IInv /\ [PathNext]_pathVars => IInv'
  <2> SUFFICES ASSUME IInv, [PathNext]_pathVars PROVE IInv'
    OBVIOUS
  <2>1. PathInv' /\ [Edge!Next]_(Edge!vars)
    BY PathStep
  <2>2. SentInv'
    BY <2>1, SentStep
  <2>3. CASE UNCHANGED storeVars
    <3>1. UNCHANGED <<incidents, notifications, dpc, dEvent, aborts>>
      BY <2>3 DEF storeVars
    <3>2. \A e : /\ NotificationsFor(e)' = NotificationsFor(e)
                /\ BeingCreated(e)' = BeingCreated(e)
      BY <3>1 DEF NotificationsFor, BeingCreated, Store!Enqueued,
         Store!IncidentsOf, Store!Stored
    <3> QED
      BY <2>1, <2>2, <3>1, <3>2, SameTable DEF AlertInv, Alerted
  <2> QED
    BY <2>1, <2>2, <2>3, PathStores, AlertStep
<1>3. IInv => SentIsAlerted
  BY DEF SentInv, AlertInv, SentIsAlerted
<1> QED
  BY <1>1, <1>2, <1>3, PTL DEF PathSpec
=============================================================================
