------------------------------ MODULE LiveView ------------------------------
(* What the detector sees now, from the worker to a browser: the worker      *)
(* (edge: main.py:52) posts the analysis of a frame and waits for the answer *)
(* until it gives up; a thread of the API checks the worker by a cached      *)
(* configuration (api/v1/streams.py:84) and publishes through DetectionHub.  *)
(* A frame is named by its number.                                           *)
EXTENDS DetectionHub, WorkerRow

CONSTANTS TTL,          \* frame_analysis_config_cache_seconds; 0 is no cache
          MaxFrames     \* bound on the frames analysed

ASSUME ViewAssumption ==
    /\ TTL \in Nat \ {0}
    /\ MaxFrames \in Nat
    /\ NoFrame \notin Int

VARIABLES expiry,       \* when the cached configuration ends, None without one
          requests,     \* per thread, its request: the step, its begin, its frame
          posted,       \* the number of frames posted so far
          waits,        \* the thread whose answer the worker waits for
          overlap,      \* history: the worker gave up on an answer
          revokedAt     \* history: when the worker was revoked

api == <<now, active, expiry, requests, posted, waits, overlap, revokedAt>>
viewVars == <<api, hub>>

FrameNo == 1 .. MaxFrames

Idle == [pc |-> "idle", at |-> 0, frame |-> 1]

ViewTypeOK ==
    /\ now \in Time /\ posted \in 0 .. MaxFrames
    /\ {active, overlap} \subseteq BOOLEAN
    /\ expiry \in Nat \cup {None}
    /\ revokedAt \in Time \cup {None}
    /\ waits \in Threads \cup {None}
    /\ requests \in [Threads -> [pc : {"idle", "miss", "fetched", "publish"}, at : Time, frame : Nat]]
    /\ HubTypeOK(FrameNo)

ViewInit ==
    /\ now = 0 /\ posted = 0
    /\ active = TRUE /\ expiry = None
    /\ requests = [t \in Threads |-> Idle]
    /\ waits = None
    /\ overlap = FALSE /\ revokedAt = None
    /\ HubInit

ViewTick ==
    /\ now < MaxTime
    /\ now' = now + 1
    /\ UNCHANGED <<active, expiry, requests, posted, waits, overlap, revokedAt, hub>>

(* cached[0] > now, read where the request begins. *)
Cached == expiry # None /\ expiry > now

Analyse(t) ==
    /\ waits = None
    /\ requests[t].pc = "idle"
    /\ posted < MaxFrames
    /\ posted' = posted + 1
    /\ requests' = [requests EXCEPT ![t] = [pc |-> IF Cached THEN "publish" ELSE "miss",
                                  at |-> now, frame |-> posted + 1]]
    /\ waits' = t
    /\ UNCHANGED <<now, active, expiry, overlap, revokedAt, hub>>

(* The client's timeout; _publish_frame_analysis swallows it, the thread of  *)
(* the API goes on.                                                          *)
GiveUp ==
    /\ waits # None
    /\ waits' = None
    /\ overlap' = TRUE
    /\ UNCHANGED <<now, active, expiry, requests, posted, revokedAt, hub>>

(* The worker hears from the thread, if it still waits for that one. *)
Answer(t) == waits' = IF waits = t THEN None ELSE waits

(* EdgeWorkerService.config authenticates by the row. *)
Fetch(t) ==
    /\ requests[t].pc = "miss"
    /\ active
    /\ requests' = [requests EXCEPT ![t].pc = "fetched"]
    /\ UNCHANGED <<now, active, expiry, posted, waits, overlap, revokedAt, hub>>

FetchRefused(t) ==
    /\ requests[t].pc = "miss"
    /\ ~active
    /\ requests' = [requests EXCEPT ![t] = Idle]
    /\ Answer(t)
    /\ UNCHANGED <<now, active, expiry, posted, overlap, revokedAt, hub>>

(* (Mutant: the snapshot lives from the time it is stored.) *)
ExpiresLater(t) == now + TTL

(* The snapshot lives from the time the request took before it read the row. *)
ExpiresAt(t) == requests[t].at + TTL

StoreConfig(t) ==
    /\ requests[t].pc = "fetched"
    /\ expiry' = ExpiresAt(t)
    /\ requests' = [requests EXCEPT ![t].pc = "publish"]
    /\ UNCHANGED <<now, active, posted, waits, overlap, revokedAt, hub>>

PublishFrame(t) ==
    /\ requests[t].pc = "publish"
    /\ Publish(requests[t].frame)
    /\ requests' = [requests EXCEPT ![t] = Idle]
    /\ Answer(t)
    /\ UNCHANGED <<now, active, expiry, posted, overlap, revokedAt>>

RevokeWorker ==
    /\ active
    /\ active' = FALSE
    /\ revokedAt' = now
    /\ UNCHANGED <<now, expiry, requests, posted, waits, overlap, hub>>

(* The process of the API ends with its threads, its cache and the browsers' *)
(* sockets.                                                                  *)
RestartStreams ==
    /\ requests' = [t \in Threads |-> Idle]
    /\ expiry' = None
    /\ waits' = None
    /\ overlap' = FALSE
    /\ Deserted
    /\ UNCHANGED <<now, active, posted, revokedAt>>

Watch == HubNext /\ UNCHANGED api

ViewNext ==
    \/ ViewTick \/ GiveUp
    \/ \E t \in Threads : \/ Analyse(t) \/ Fetch(t) \/ FetchRefused(t)
                          \/ StoreConfig(t) \/ PublishFrame(t)
    \/ RevokeWorker \/ RestartStreams \/ Watch

ViewSpec == ViewInit /\ [][ViewNext]_viewVars

-----------------------------------------------------------------------------
(* A publication counts on a configuration that was read before the worker   *)
(* was revoked: a request that begins TTL after the revocation, or later,    *)
(* publishes nothing, however the requests and the cache interleave.         *)
RevokedFallsSilent ==
    \A t \in Threads : requests[t].pc = "publish" /\ revokedAt # None => requests[t].at < revokedAt + TTL

(* A browser, however slow, ends up with the frame published last, and while *)
(* the worker waited for the answer to each frame it never sees an older one *)
(* after a newer (detection_stream.py:47: the drop and the put).             *)
ViewersCatchUp == NewestArrives /\ (overlap \/ NeverBack)
=============================================================================
