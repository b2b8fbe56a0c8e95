---------------------------- MODULE DetectionHub ----------------------------
(* services/detection_stream.py: the frames a browser that watches one       *)
(* camera gets to see.  publish() runs on the thread of a request and only   *)
(* schedules a callback; the callbacks and the browser's socket share one    *)
(* event loop, so each of their steps is atomic.                             *)
EXTENDS Integers, Sequences

CONSTANTS MaxQueue,   \* MAX_QUEUE
          NoFrame

ASSUME QueueAssumption == MaxQueue \in Nat \ {0}

VARIABLES watched,    \* the browser is subscribed
          queue,      \* its asyncio.Queue
          calls,      \* the callbacks scheduled for it
          shown,      \* the frame it got last
          latest      \* history: the frame published to it last

hub == <<watched, queue, calls, shown, latest>>

HubTypeOK(Frame) ==
    /\ watched \in BOOLEAN
    /\ queue \in Seq(Frame)
    /\ Len(queue) <= MaxQueue
    /\ calls \in Seq(Frame)
    /\ {shown, latest} \subseteq Frame \cup {NoFrame}

(* Nobody watches; also what the end of the process leaves. *)
Deserted ==
    /\ watched' = FALSE
    /\ queue' = <<>> /\ calls' = <<>>
    /\ shown' = NoFrame /\ latest' = NoFrame

HubInit ==
    /\ watched = FALSE
    /\ queue = <<>> /\ calls = <<>>
    /\ shown = NoFrame /\ latest = NoFrame

Subscribe ==
    /\ ~watched
    /\ watched' = TRUE
    /\ UNCHANGED <<queue, calls, shown, latest>>

(* A callback that is still scheduled finds a queue nobody reads any more. *)
Unsubscribe == watched /\ Deserted

(* publish, with the count that precedes it: no subscriber, no frame. *)
Publish(f) ==
    /\ calls' = IF watched THEN Append(calls, f) ELSE calls
    /\ latest' = IF watched THEN f ELSE latest
    /\ UNCHANGED <<watched, queue, shown>>

(* (Mutants: a full queue keeps what it has; a queue without a bound.) *)
PutIfRoom(q, f) == IF Len(q) = MaxQueue THEN q ELSE Append(q, f)
PutAlways(q, f) == Append(q, f)

(* _put_latest: a full queue loses its oldest frame. *)
PutLatest(q, f) == Append(IF Len(q) = MaxQueue THEN Tail(q) ELSE q, f)

RunCall ==
    /\ calls # <<>>
    /\ queue' = PutLatest(queue, Head(calls))
    /\ calls' = Tail(calls)
    /\ UNCHANGED <<watched, shown, latest>>

(* queue.get() and send_json; a slow browser is one for whom this is late. *)
Show ==
    /\ queue # <<>>
    /\ shown' = Head(queue)
    /\ queue' = Tail(queue)
    /\ UNCHANGED <<watched, calls, latest>>

HubNext == Subscribe \/ Unsubscribe \/ RunCall \/ Show

(* Everything the browser has seen last and will see, oldest first. *)
Ahead == (IF shown = NoFrame THEN <<>> ELSE <<shown>>) \o queue \o calls

(* However slow the browser is, the frame published last is the one it ends  *)
(* up with: a full queue loses old frames and never that one.                *)
NewestArrives == watched /\ latest # NoFrame => Ahead # <<>> /\ Ahead[Len(Ahead)] = latest

(* The picture never goes back in time. *)
NeverBack == \A i, j \in DOMAIN Ahead : i < j => Ahead[i] < Ahead[j]
=============================================================================
