----------------------------- MODULE WorkerRow -----------------------------
(* What EdgePresence and LiveView say of the same edge worker: the status of *)
(* its row (services/edge_workers.py), the threads of the API that serve it, *)
(* and the time, in coarse ticks.                                            *)
EXTENDS Integers

CONSTANTS Threads,      \* the API's threads that serve this worker
          MaxTime,      \* bound on time
          None

ASSUME TimeAssumption == MaxTime \in Nat
ASSUME NoneAssumption == None \notin Int /\ None \notin Threads

VARIABLES now,
          active        \* the row's status is ACTIVE

Time == 0 .. MaxTime
=============================================================================
