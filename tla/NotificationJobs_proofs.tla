----------------------- MODULE NotificationJobs_proofs -----------------------
(***************************************************************************)
(* Machine-checked theorems about NotificationJobs, for every set of       *)
(* processes, organizations, rows and tokens and every environment.        *)
(***************************************************************************)
EXTENDS NotificationJobs, TLAPS, FiniteSetTheorems

JobPcs == {"list", "row", "update", "release"}

(* What the locals of a process hold at each of its steps.  TypeOK alone    *)
(* does not survive a step: it lets a process update a row it never chose.  *)
Locals ==
  /\ \A p \in Processes : pc[p] \in JobPcs => org[p] \in Organizations
  /\ \A p \in Processes : pc[p] = "update" =>
       row[p] \in Notifications /\ outcome[p] \in Settled
  /\ \A r \in Runners : token[r] = None
  /\ \A s \in Schedulers : token[s] # None <=> pc[s] \in JobPcs
  /\ \A p \in Processes : pc[p] \in {"next", "release"} => p \in Schedulers

(* No two schedulers hold the same token, and one whose lock has not lapsed *)
(* finds its token under the key of the organization it works for.          *)
LockInv ==
  /\ \A s, t \in Schedulers : token[s] # None /\ token[s] = token[t] => s = t
  /\ HolderKeepsLock

IInv == TypeOK /\ Locals /\ LockInv

-----------------------------------------------------------------------------
LEMMA InitInv == Init => IInv
  BY JobsAssumption
  DEF Init, IInv, TypeOK, Locals, LockInv, HolderKeepsLock, InJob, JobPcs,
      NoRow, Processes

(* The steps of run_notifications touch neither Redis nor a token.          *)
LEMMA JobType ==
  ASSUME IInv, NEW p \in Processes, JobStep(p)
  PROVE  TypeOK' /\ Locals'
<1> USE JobsAssumption DEF IInv, TypeOK, Locals, JobPcs, Processes, redisVars, startVars
<1>1. CASE List(p)
  BY <1>1 DEF List, Queued, tableVars
<1>2. ASSUME NEW n \in Notifications, SettleUnsent(p, n)
      PROVE  TypeOK' /\ Locals'
  <2>1. SettledUnsent(p, n) \in Settled
    BY DEF SettledUnsent, Settled
  <2> QED
    BY <1>2, <2>1 DEF SettleUnsent, Chosen, tableVars
<1>3. ASSUME NEW n \in Notifications, Deliver(p, n)
      PROVE  TypeOK' /\ Locals'
  <2>1. PICK raised \in BOOLEAN, taken \in BOOLEAN :
          /\ sends' = [sends EXCEPT ![n] = IF taken THEN @ + 1 ELSE @]
          /\ Chosen(p, n, IF raised THEN OnError ELSE "sent")
    BY <1>3 DEF Deliver
  <2>2. (IF raised THEN OnError ELSE "sent") \in Settled
    BY DEF OnError, Settled
  <2>3. sends' \in [Notifications -> Nat]
    BY <2>1
  <2> QED
    BY <1>3, <2>1, <2>2, <2>3 DEF Deliver, Chosen
<1>4. CASE Update(p)
  <2>1. row[p] \in Notifications /\ outcome[p] \in Settled
    BY <1>4 DEF Update
  <2>2. queue' \in [Notifications -> [status : {"absent", "queued"} \cup Settled,
                                      channel : {"email", "mock"}]]
    BY SMTT(30), <1>4, <2>1 DEF Update
  <2> QED
    BY <1>4, <2>2 DEF Update
<1>5. CASE Finish(p)
  BY <1>5 DEF Finish, tableVars, jobVars
<1> QED
  BY <1>1, <1>2, <1>3, <1>4, <1>5 DEF JobStep

LEMMA JobKeepsLocks ==
  ASSUME IInv, NEW p \in Processes, JobStep(p)
  PROVE  LockInv'
<1>1. UNCHANGED <<lock, lapsed, token>>
  BY DEF JobStep, List, SettleUnsent, Deliver, Update, Finish, redisVars
<1>2. \A s \in Schedulers, o \in Organizations : InJob(s, o)' => InJob(s, o)
  <2> USE JobsAssumption DEF IInv, TypeOK, Locals, JobPcs, Processes, InJob
  <2>1. CASE List(p)
    BY <2>1 DEF List
  <2>2. ASSUME NEW n \in Notifications, SettleUnsent(p, n) \/ Deliver(p, n)
        PROVE  \A s \in Schedulers, o \in Organizations : InJob(s, o)' => InJob(s, o)
    <3>1. /\ pc[p] = "row"
          /\ pc' = [pc EXCEPT ![p] = "update"]
          /\ org' = org
      BY <2>2 DEF SettleUnsent, Deliver, Chosen
    <3> QED
      BY <3>1
  <2>3. CASE Update(p)
    BY <2>3 DEF Update
  <2>4. CASE Finish(p)
    BY <2>4 DEF Finish
  <2> QED
    BY <2>1, <2>2, <2>3, <2>4 DEF JobStep
<1> QED
  BY <1>1, <1>2 DEF IInv, LockInv, HolderKeepsLock

(* The steps around the job: cycles, lock calls, deaths and TTLs. *)
OtherStep ==
  \/ \E n \in Notifications : Enqueue(n)
  \/ \E s \in Schedulers : StartCycle(s) \/ EndCycle(s)
  \/ \E s \in Schedulers, o \in Organizations : Acquire(s, o)
  \/ \E s \in Schedulers, o \in Organizations : Skip(s, o) \/ AcquireError(s, o)
  \/ \E s \in Schedulers : Release(s) \/ ReleaseError(s)
  \/ \E r \in Runners, o \in Organizations : StartRunner(r, o)
  \/ \E p \in Processes : JobRaises(p)
  \/ \E p \in Processes : Die(p)
  \/ \E o \in Organizations : Expire(o) \/ Lapse(o)
  \/ UNCHANGED vars

LEMMA NextSplit ==
  ASSUME [Next]_vars
  PROVE  OtherStep \/ \E p \in Processes : JobStep(p)
  BY DEF Next, SchedulerStep, OtherStep, Processes

LEMMA OtherType ==
  ASSUME IInv, OtherStep
  PROVE  TypeOK' /\ Locals'
<1> USE JobsAssumption DEF IInv, TypeOK, Locals, JobPcs, Processes, tableVars,
        redisVars, startVars, jobVars
<1>1. ASSUME NEW n \in Notifications, Enqueue(n) PROVE TypeOK' /\ Locals'
  BY <1>1 DEF Enqueue, NoRow
<1>2. ASSUME NEW s \in Schedulers, StartCycle(s) \/ EndCycle(s)
      PROVE  TypeOK' /\ Locals'
  <2>1. CASE StartCycle(s)
    BY <2>1 DEF StartCycle
  <2>2. CASE EndCycle(s)
    BY <2>2 DEF EndCycle
  <2> QED
    BY <1>2, <2>1, <2>2
<1>3. ASSUME NEW s \in Schedulers, NEW o \in Organizations, Acquire(s, o)
      PROVE  TypeOK' /\ Locals'
  <2>1. PICK t \in FreshTokens : /\ lock' = [lock EXCEPT ![o] = t]
                                 /\ token' = [token EXCEPT ![s] = t]
    BY <1>3 DEF Acquire
  <2>2. t \in Tokens /\ t # None
    BY DEF FreshTokens
  <2>3. TypeOK'
    BY <1>3, <2>1, <2>2 DEF Acquire
  <2>4. /\ pc' = [pc EXCEPT ![s] = "list"]
        /\ org' = [org EXCEPT ![s] = o]
        /\ UNCHANGED <<row, outcome>>
    BY <1>3 DEF Acquire
  <2>5. Locals'
    BY <2>1, <2>2, <2>4
  <2> QED
    BY <2>3, <2>5
<1>4. ASSUME NEW s \in Schedulers, NEW o \in Organizations,
             Skip(s, o) \/ AcquireError(s, o)
      PROVE  TypeOK' /\ Locals'
  BY <1>4 DEF Skip, AcquireError
<1>5. ASSUME NEW s \in Schedulers, Release(s) \/ ReleaseError(s)
      PROVE  TypeOK' /\ Locals'
  <2>1. AfterRelease(s) /\ pc[s] = "release"
    BY <1>5 DEF Release, ReleaseError
  <2>2. Locals'
    BY <1>5, <2>1 DEF Release, ReleaseError, AfterRelease
  <2>3. lock' \in [Organizations -> Tokens \cup {None}]
    BY SMTT(30), <1>5 DEF Release, ReleaseError
  <2>4. faults' \in 0..MaxFaults
    BY <1>5 DEF Release, ReleaseError
  <2>5. TypeOK'
    BY <1>5, <2>1, <2>3, <2>4 DEF Release, ReleaseError, AfterRelease
  <2> QED
    BY <2>2, <2>5
<1>6. ASSUME NEW r \in Runners, NEW o \in Organizations, StartRunner(r, o)
      PROVE  TypeOK' /\ Locals'
  BY <1>6 DEF StartRunner
<1>7. ASSUME NEW p \in Processes, Die(p) PROVE TypeOK' /\ Locals'
  <2>1. connected' \in [Schedulers -> BOOLEAN] /\ conf' \in [Processes -> Environments]
    BY <1>7 DEF Die
  <2>2. TypeOK'
    BY <1>7, <2>1 DEF Die
  <2>3. /\ pc' = [pc EXCEPT ![p] = "idle"]
        /\ org' = [org EXCEPT ![p] = None]
        /\ token' = [token EXCEPT ![p] = None]
        /\ row' = [row EXCEPT ![p] = None]
        /\ outcome' = [outcome EXCEPT ![p] = "none"]
    BY <1>7 DEF Die
  <2>4. Locals'
    BY <2>3
  <2> QED
    BY <2>2, <2>4
<1>8. ASSUME NEW o \in Organizations, Expire(o) \/ Lapse(o)
      PROVE  TypeOK' /\ Locals'
  <2>1. /\ lock' = [lock EXCEPT ![o] = None]
        /\ UNCHANGED <<tableVars, startVars, pc, todo, org, token, jobVars, faults>>
        /\ lapses' \in 0..MaxLapses
    BY <1>8 DEF Expire, Lapse
  <2>2. lapsed' \in [Processes -> BOOLEAN]
    <3>1. CASE Expire(o)
      BY <3>1 DEF Expire
    <3>2. CASE Lapse(o)
      <4>1. \A p \in Processes : (lapsed[p] \/ p \in Holders(o)) \in BOOLEAN
        OBVIOUS
      <4>2. lapsed' = [p \in Processes |-> lapsed[p] \/ p \in Holders(o)]
        BY <3>2 DEF Lapse
      <4> HIDE DEF IInv, TypeOK, Locals, Processes
      <4> QED
        BY <4>1, <4>2, Zenon
    <3> QED
      BY <1>8, <3>1, <3>2
  <2> QED
    BY <2>1, <2>2
<1>9. CASE UNCHANGED vars
  BY <1>9 DEF vars
<1>10. ASSUME NEW p \in Processes, JobRaises(p) PROVE TypeOK' /\ Locals'
  <2>1. /\ pc[p] \in {"list", "row", "update"}
        /\ pc' = [pc EXCEPT ![p] = IF p \in Schedulers THEN "release" ELSE "idle"]
        /\ org' = [org EXCEPT ![p] = IF p \in Schedulers THEN @ ELSE None]
        /\ row' = [row EXCEPT ![p] = None]
        /\ outcome' = [outcome EXCEPT ![p] = "none"]
        /\ token' = token
    BY <1>10 DEF JobRaises
  <2>2. TypeOK'
    BY <1>10 DEF JobRaises
  <2>3. Locals'
    BY <2>1
  <2> QED
    BY <2>2, <2>3
<1> HIDE DEF IInv, TypeOK, Locals, Processes
<1> QED
  BY <1>1, <1>2, <1>3, <1>4, <1>5, <1>6, <1>7, <1>8, <1>9, <1>10 DEF OtherStep

LEMMA OtherKeepsLocks ==
  ASSUME IInv, OtherStep
  PROVE  LockInv'
<1> USE JobsAssumption DEF IInv, TypeOK, Locals, LockInv, HolderKeepsLock,
        InJob, JobPcs, Processes, tableVars, redisVars, startVars, jobVars
<1>1. ASSUME NEW n \in Notifications, Enqueue(n) PROVE LockInv'
  BY <1>1 DEF Enqueue
<1>2. ASSUME NEW s \in Schedulers, StartCycle(s) \/ EndCycle(s) PROVE LockInv'
  BY <1>2 DEF StartCycle, EndCycle
<1>3. ASSUME NEW s \in Schedulers, NEW o \in Organizations, Acquire(s, o)
      PROVE  LockInv'
  <2>1. PICK t \in FreshTokens : /\ lock' = [lock EXCEPT ![o] = t]
                                 /\ token' = [token EXCEPT ![s] = t]
    BY <1>3 DEF Acquire
  <2>2. t # None /\ \A u \in Schedulers : token[u] # t
    BY DEF FreshTokens
  <2>3. lock[o] = None
    BY <1>3 DEF Acquire, LockFree
  <2> QED
    BY <1>3, <2>1, <2>2, <2>3 DEF Acquire
<1>4. ASSUME NEW s \in Schedulers, NEW o \in Organizations,
             Skip(s, o) \/ AcquireError(s, o)
      PROVE  LockInv'
  BY <1>4 DEF Skip, AcquireError
<1>5. ASSUME NEW s \in Schedulers, Release(s) \/ ReleaseError(s) PROVE LockInv'
  BY SMTT(30), <1>5 DEF Release, ReleaseError, AfterRelease, OwnToken
<1>6. ASSUME NEW r \in Runners, NEW o \in Organizations, StartRunner(r, o)
      PROVE  LockInv'
  BY <1>6 DEF StartRunner
<1>7. ASSUME NEW p \in Processes, Die(p) PROVE LockInv'
  <2>1. /\ pc' = [pc EXCEPT ![p] = "idle"]
        /\ org' = [org EXCEPT ![p] = None]
        /\ token' = [token EXCEPT ![p] = None]
        /\ lapsed' = [lapsed EXCEPT ![p] = FALSE]
        /\ lock' = lock
    BY <1>7 DEF Die
  <2> QED
    BY <2>1
<1>8. ASSUME NEW o \in Organizations, Expire(o) \/ Lapse(o) PROVE LockInv'
  <2>1. lock' = [lock EXCEPT ![o] = None] /\ UNCHANGED <<pc, org, token>>
    BY <1>8 DEF Expire, Lapse
  <2>2. \A s \in Schedulers : ~lapsed'[s] => ~lapsed[s] /\ s \notin Holders(o)
    <3>1. CASE Expire(o)
      BY <3>1 DEF Expire
    <3>2. CASE Lapse(o)
      BY <3>2 DEF Lapse
    <3> QED
      BY <1>8, <3>1, <3>2
  <2> QED
    BY <2>1, <2>2 DEF Holders
<1>9. CASE UNCHANGED vars
  BY <1>9 DEF vars
<1>10. ASSUME NEW p \in Processes, JobRaises(p) PROVE LockInv'
  <2>1. /\ UNCHANGED <<lock, lapsed, token>>
        /\ pc[p] \in {"list", "row", "update"}
        /\ pc' = [pc EXCEPT ![p] = IF p \in Schedulers THEN "release" ELSE "idle"]
        /\ org' = [org EXCEPT ![p] = IF p \in Schedulers THEN @ ELSE None]
    BY <1>10 DEF JobRaises
  <2>2. \A s \in Schedulers, o \in Organizations : InJob(s, o)' => InJob(s, o)
    BY <2>1
  <2> QED
    BY <2>1, <2>2
<1> HIDE DEF IInv, TypeOK, Locals, LockInv, Processes
<1> QED
  BY <1>1, <1>2, <1>3, <1>4, <1>5, <1>6, <1>7, <1>8, <1>9, <1>10 DEF OtherStep

LEMMA StepInv == IInv /\ [Next]_vars => IInv'
<1> SUFFICES ASSUME IInv, [Next]_vars PROVE IInv'
  OBVIOUS
<1>1. CASE \E p \in Processes : JobStep(p)
  BY <1>1, JobType, JobKeepsLocks DEF IInv
<1>2. CASE OtherStep
  BY <1>2, OtherType, OtherKeepsLocks DEF IInv
<1> QED
  BY <1>1, <1>2, NextSplit

LEMMA Exclusion == IInv => MutualExclusion
  BY DEF IInv, LockInv, HolderKeepsLock, MutualExclusion

(* The inductive invariant holds in every reachable state, whatever dies,   *)
(* fails or expires.                                                        *)
THEOREM JobsInvariant == Spec => []IInv
  BY InitInv, StepInv, PTL DEF Spec

(* TypeOK, the typing of the table, Redis and all locals, is an invariant. *)
THEOREM JobsTypeCorrect == Spec => []TypeOK
<1>1. IInv => TypeOK
  BY DEF IInv
<1> QED
  BY <1>1, JobsInvariant, PTL

(* The release of a lock that expired long ago never takes the lock away    *)
(* from the scheduler that has it now.                                      *)
THEOREM LockIsKept == Spec => []HolderKeepsLock
<1>1. IInv => HolderKeepsLock
  BY DEF IInv, LockInv
<1> QED
  BY <1>1, JobsInvariant, PTL

(* As long as its lock does not expire under it, a scheduler is alone in    *)
(* the job of an organization.                                              *)
THEOREM JobsExclude == Spec => []MutualExclusion
  BY Exclusion, JobsInvariant, PTL

-----------------------------------------------------------------------------
(* Schedulers that neither die, nor have a call to Redis or to the database *)
(* fail, nor outlive their locks, and no jobs_runner: then the lock makes   *)
(* the job serial for each organization.                                    *)

Orderly == Runners = {} /\ MaxFaults = 0 /\ MaxLapses = 0

(* A listed row is queued, belongs to the lister's organization and is      *)
(* unsent unless the lister has just sent it; a queued row that was sent is *)
(* about to be updated.                                                     *)
SerialInv ==
  /\ \A s \in Schedulers : ~lapsed[s]
  /\ \A s \in Schedulers : \A n \in batch[s] :
       /\ pc[s] \in {"row", "update"}
       /\ OrgOf[n] = org[s]
       /\ queue[n].status = "queued"
       /\ sends[n] = 0 \/ (pc[s] = "update" /\ row[s] = n)
  /\ \A s \in Schedulers : pc[s] = "update" => row[s] \in batch[s]
  /\ \A n \in Notifications :
       /\ sends[n] <= 1
       /\ queue[n].status = "absent" => sends[n] = 0
       /\ queue[n].status = "queued" /\ sends[n] # 0 =>
            \E s \in Schedulers : pc[s] = "update" /\ row[s] = n

LEMMA SerialInit == Init => SerialInv
  BY DEF Init, SerialInv, Processes, NoRow

(* Two schedulers with a listed row in common are one. *)
LEMMA Listers ==
  ASSUME IInv, SerialInv,
         NEW s \in Schedulers, NEW t \in Schedulers,
         org[s] = org[t], pc[s] \in JobPcs, pc[t] \in JobPcs
  PROVE  s = t
<1>1. org[s] \in Organizations
  BY DEF IInv, Locals, Processes
<1> QED
  BY <1>1, Exclusion DEF SerialInv, MutualExclusion, InJob, JobPcs

LEMMA SerialJob ==
  ASSUME Orderly, IInv, SerialInv, NEW p \in Processes, JobStep(p)
  PROVE  SerialInv'
<1>p. p \in Schedulers /\ Schedulers = Processes
  BY DEF Orderly, Processes
<1>t. /\ queue \in [Notifications -> [status : {"absent", "queued"} \cup Settled,
                                       channel : {"email", "mock"}]]
      /\ sends \in [Notifications -> Nat]
      /\ pc \in [Schedulers -> {"idle", "next", "list", "row", "update", "release"}]
      /\ org \in [Schedulers -> Organizations \cup {None}]
      /\ batch \in [Schedulers -> SUBSET Notifications]
      /\ row \in [Schedulers -> Notifications \cup {None}]
  BY <1>p DEF IInv, TypeOK
<1>l. \A s \in Schedulers : \A n \in batch[s] : n \in Notifications
  BY <1>t
<1>a. \A s, t \in Schedulers :
        org[s] = org[t] /\ pc[s] \in JobPcs /\ pc[t] \in JobPcs => s = t
  BY Listers
<1>1. CASE List(p)
  <2>1. \A n \in Queued(org[p]) : /\ n \in Notifications
                                  /\ OrgOf[n] = org[p]
                                  /\ queue[n].status = "queued"
    BY DEF Queued
  <2>2. \A n \in Queued(org[p]) : sends[n] = 0
    <3> SUFFICES ASSUME NEW n \in Queued(org[p]), sends[n] # 0 PROVE FALSE
      OBVIOUS
    <3>1. PICK t \in Schedulers : pc[t] = "update" /\ row[t] = n
      BY <2>1 DEF SerialInv
    <3>2. org[t] = org[p]
      BY <2>1, <3>1 DEF SerialInv
    <3> QED
      BY <1>1, <1>a, <1>p, <3>1, <3>2 DEF List, JobPcs
  <2> QED
    BY <1>1, <1>p, <1>t, <2>1, <2>2
    DEF List, SerialInv, tableVars, redisVars
<1>2. ASSUME NEW n \in Notifications, SettleUnsent(p, n)
      PROVE  SerialInv'
  BY <1>2, <1>p, <1>t DEF SettleUnsent, Chosen, SerialInv, tableVars, redisVars
<1>3. ASSUME NEW n \in Notifications, Deliver(p, n)
      PROVE  SerialInv'
  <2>1. /\ n \in batch[p] /\ pc[p] = "row"
        /\ pc' = [pc EXCEPT ![p] = "update"]
        /\ row' = [row EXCEPT ![p] = n]
        /\ UNCHANGED <<queue, batch, org, lapsed>>
    BY <1>3 DEF Deliver, Chosen, redisVars
  <2>2. /\ \A m \in Notifications \ {n} : sends'[m] = sends[m]
        /\ sends'[n] <= 1
    BY <1>3, <1>p, <1>t, <2>1 DEF Deliver, SerialInv
  <2>3. \A t \in Schedulers : n \in batch[t] => t = p
    BY <1>a, <1>p, <2>1 DEF SerialInv, JobPcs
  <2>4. queue[n].status = "queued"
    BY <1>p, <2>1 DEF SerialInv
  <2> QED
    BY <1>p, <1>t, <1>l, <2>1, <2>2, <2>3, <2>4 DEF SerialInv
<1>4. CASE Update(p)
  <2>1. /\ pc[p] = "update" /\ row[p] \in batch[p] /\ row[p] \in Notifications
        /\ outcome[p] \in Settled
    BY <1>4, <1>p DEF Update, SerialInv, IInv, Locals
  <2>2. \A t \in Schedulers : row[p] \in batch[t] => t = p
    BY <1>a, <1>p, <2>1 DEF SerialInv, JobPcs
  <2>3. /\ \A m \in Notifications \ {row[p]} : queue'[m] = queue[m]
        /\ queue'[row[p]].status \in Settled
    BY <1>4, <1>t, <2>1 DEF Update
  <2> QED
    BY <1>4, <1>p, <1>t, <1>l, <2>1, <2>2, <2>3 DEF Update, SerialInv, Settled, redisVars
<1>5. CASE Finish(p)
  BY <1>5, <1>p, <1>t DEF Finish, SerialInv, tableVars, redisVars, jobVars
<1> QED
  BY <1>1, <1>2, <1>3, <1>4, <1>5 DEF JobStep

LEMMA SerialOther ==
  ASSUME Orderly, IInv, SerialInv, OtherStep
  PROVE  SerialInv'
<1>t. /\ Schedulers = Processes
      /\ faults = 0 /\ MaxFaults = 0 /\ lapses = 0 /\ MaxLapses = 0 /\ Runners = {}
      /\ queue \in [Notifications -> [status : {"absent", "queued"} \cup Settled,
                                       channel : {"email", "mock"}]]
      /\ pc \in [Schedulers -> {"idle", "next", "list", "row", "update", "release"}]
      /\ org \in [Schedulers -> Organizations \cup {None}]
      /\ lapsed \in [Schedulers -> BOOLEAN]
      /\ batch \in [Schedulers -> SUBSET Notifications]
  BY DEF Orderly, Processes, IInv, TypeOK
<1> USE DEF SerialInv, tableVars, redisVars, jobVars
<1>1. ASSUME NEW n \in Notifications, Enqueue(n) PROVE SerialInv'
  BY <1>1, <1>t DEF Enqueue, NoRow
<1>2. ASSUME NEW s \in Schedulers, StartCycle(s) \/ EndCycle(s) PROVE SerialInv'
  BY <1>2, <1>t DEF StartCycle, EndCycle
<1>3. ASSUME NEW s \in Schedulers, NEW o \in Organizations, Acquire(s, o)
      PROVE  SerialInv'
  BY <1>3, <1>t DEF Acquire
<1>4. ASSUME NEW s \in Schedulers, NEW o \in Organizations,
             Skip(s, o) \/ AcquireError(s, o)
      PROVE  SerialInv'
  BY <1>4, <1>t DEF Skip, AcquireError
<1>5. ASSUME NEW s \in Schedulers, Release(s) \/ ReleaseError(s) PROVE SerialInv'
  BY <1>5, <1>t DEF Release, ReleaseError, AfterRelease
<1>6. ASSUME NEW r \in Runners, NEW o \in Organizations, StartRunner(r, o)
      PROVE  SerialInv'
  BY <1>6, <1>t
<1>7. ASSUME NEW p \in Processes, Die(p) PROVE SerialInv'
  BY <1>7, <1>t DEF Die
<1>8. ASSUME NEW o \in Organizations, Expire(o) \/ Lapse(o) PROVE SerialInv'
  BY <1>8, <1>t DEF Expire, Lapse
<1>9. CASE UNCHANGED vars
  BY <1>9 DEF vars
<1>10. ASSUME NEW p \in Processes, JobRaises(p) PROVE SerialInv'
  BY <1>10, <1>t DEF JobRaises
<1> HIDE DEF SerialInv
<1> QED
  BY <1>1, <1>2, <1>3, <1>4, <1>5, <1>6, <1>7, <1>8, <1>9, <1>10 DEF OtherStep

LEMMA SerialStep ==
  ASSUME Orderly
  PROVE  IInv /\ SerialInv /\ [Next]_vars => SerialInv'
  BY SerialJob, SerialOther, NextSplit

(* Without runners, deaths, failed calls and expired locks no row is ever   *)
(* mailed twice.  Each hypothesis is needed: a raising update alone leaves  *)
(* a mailed row queued for the next cycle (JobRaises).                      *)
THEOREM OrderlySendsOnce ==
  ASSUME Orderly
  PROVE  Spec => []SentOnce
<1>1. SerialInv => SentOnce
  BY DEF SerialInv, SentOnce
<1> QED
  BY <1>1, SerialInit, SerialStep, JobsInvariant, PTL DEF Spec

(* Without runners, deaths, failed calls and expired locks a settled row    *)
(* keeps its status.                                                        *)
THEOREM OrderlySettles ==
  ASSUME Orderly
  PROVE  Spec => StatusSettles
<1>1. ASSUME IInv, SerialInv, [Next]_vars, NEW n \in Notifications,
             queue[n].status \in Settled
      PROVE  queue'[n].status = queue[n].status
  <2>1. queue \in [Notifications -> [status : {"absent", "queued"} \cup Settled,
                                     channel : {"email", "mock"}]]
    BY <1>1 DEF IInv, TypeOK
  <2>2. CASE \E p \in Processes : Update(p)
    <3>1. PICK p \in Processes : Update(p)
      BY <2>2
    <3>2. row[p] \in batch[p] /\ queue[row[p]].status = "queued"
      BY <1>1, <3>1 DEF Orderly, Processes, Update, SerialInv
    <3> QED
      BY <1>1, <2>1, <3>1, <3>2 DEF Update, Settled
  <2>3. CASE queue' = queue
    BY <2>3
  <2>4. CASE \E m \in Notifications : Enqueue(m)
    BY <1>1, <2>1, <2>4 DEF Enqueue, NoRow, Settled
  <2> QED
    BY <1>1, <2>2, <2>3, <2>4, NextSplit
    DEF OtherStep, JobStep, List, SettleUnsent, Deliver, Finish, StartCycle,
        EndCycle, Acquire, Skip, AcquireError, Release, ReleaseError,
        StartRunner, JobRaises, Die, Expire, Lapse, tableVars, vars
<1>2. IInv /\ SerialInv /\ [Next]_vars =>
        [\A n \in Notifications :
           queue[n].status \in Settled => queue'[n].status = queue[n].status]_vars
  BY <1>1
<1> QED
  BY <1>2, SerialInit, SerialStep, JobsInvariant, PTL DEF Spec, StatusSettles
-----------------------------------------------------------------------------
(* What "sent" says of a mail, when every process is in mode "resend".      *)

MailIsOn == \A e \in Environments : e.mode = "resend"

(* A listed row is there, and whoever is about to report a mail row sent    *)
(* has handed it over.                                                      *)
HandInv ==
  /\ \A p \in Processes : \A n \in batch[p] : queue[n].status # "absent"
  /\ \A p \in Processes : pc[p] = "update" =>
       /\ queue[row[p]].status # "absent"
       /\ outcome[p] = "sent" /\ queue[row[p]].channel = "email" => sends[row[p]] >= 1
  /\ SentWasHanded

LEMMA HandInit == Init => HandInv
  BY DEF Init, HandInv, SentWasHanded, NoRow, Processes

LEMMA HandJob ==
  ASSUME MailIsOn, IInv, HandInv, NEW p \in Processes, JobStep(p)
  PROVE  HandInv'
<1>t. /\ queue \in [Notifications -> [status : {"absent", "queued"} \cup Settled,
                                       channel : {"email", "mock"}]]
      /\ sends \in [Notifications -> Nat]
      /\ pc \in [Processes -> {"idle", "next", "list", "row", "update", "release"}]
      /\ batch \in [Processes -> SUBSET Notifications]
      /\ row \in [Processes -> Notifications \cup {None}]
      /\ outcome \in [Processes -> Settled \cup {"none"}]
      /\ \A q \in Processes : pc[q] = "update" => row[q] \in Notifications
  BY DEF IInv, TypeOK, Locals
<1>m. conf[p].mode = "resend"
  BY DEF MailIsOn, IInv, TypeOK
<1>1. CASE List(p)
  BY <1>1, <1>t DEF List, Queued, HandInv, SentWasHanded, tableVars
<1>2. ASSUME NEW n \in Notifications, SettleUnsent(p, n) PROVE HandInv'
  <2>1. SettledUnsent(p, n) = "sent" => queue[n].channel # "email"
    BY <1>2, <1>m DEF SettleUnsent, SettledUnsent, UsesProvider
  <2> QED
    BY <1>2, <1>t, <2>1 DEF SettleUnsent, Chosen, HandInv, SentWasHanded, tableVars
<1>3. ASSUME NEW n \in Notifications, Deliver(p, n) PROVE HandInv'
  <2>1. PICK raised \in BOOLEAN, taken \in BOOLEAN :
          /\ taken \/ raised
          /\ sends' = [sends EXCEPT ![n] = IF taken THEN @ + 1 ELSE @]
          /\ Chosen(p, n, IF raised THEN OnError ELSE "sent")
    BY <1>3 DEF Deliver
  <2>2. /\ pc' = [pc EXCEPT ![p] = "update"] /\ row' = [row EXCEPT ![p] = n]
        /\ n \in batch[p] /\ UNCHANGED <<queue, batch>>
    BY <1>3, <2>1 DEF Deliver, Chosen
  <2>3. \A k \in Notifications : sends'[k] >= sends[k] /\ sends'[k] \in Nat
    BY <1>t, <2>1
  <2>4. outcome'[p] = "sent" => sends'[n] >= 1
    BY <1>t, <2>1 DEF Chosen, OnError
  <2>5. \A q \in Processes \ {p} : outcome'[q] = outcome[q]
    BY <1>t, <2>1 DEF Chosen
  <2> QED
    BY <1>t, <2>2, <2>3, <2>4, <2>5 DEF HandInv, SentWasHanded
<1>4. CASE Update(p)
  <2>1. pc[p] = "update" /\ row[p] \in Notifications /\ outcome[p] \in Settled
    BY <1>4, <1>t DEF Update, IInv, Locals
  <2>2. PICK k \in Notifications : k = row[p]
    BY <2>1
  <2>3. /\ \A n \in Notifications \ {k} : queue'[n] = queue[n]
        /\ queue'[k].status = outcome[p] /\ queue'[k].channel = queue[k].channel
        /\ queue'[k].status # "absent"
    BY <1>4, <1>t, <2>1, <2>2 DEF Update, Settled
  <2>4. /\ pc' = [pc EXCEPT ![p] = "row"] /\ row' = [row EXCEPT ![p] = None]
        /\ outcome' = [outcome EXCEPT ![p] = "none"]
        /\ batch' = [batch EXCEPT ![p] = @ \ {k}] /\ sends' = sends
    BY <1>4, <2>2 DEF Update
  <2>5. SentWasHanded'
    BY <1>t, <2>1, <2>2, <2>3, <2>4 DEF HandInv, SentWasHanded
  <2> QED
    BY ZenonT(60), <1>t, <2>3, <2>4, <2>5 DEF HandInv
<1>5. CASE Finish(p)
  BY <1>5, <1>t DEF Finish, HandInv, SentWasHanded, tableVars, jobVars
<1> QED
  BY <1>1, <1>2, <1>3, <1>4, <1>5 DEF JobStep

LEMMA HandOther ==
  ASSUME IInv, HandInv, OtherStep
  PROVE  HandInv'
<1>t. /\ queue \in [Notifications -> [status : {"absent", "queued"} \cup Settled,
                                       channel : {"email", "mock"}]]
      /\ pc \in [Processes -> {"idle", "next", "list", "row", "update", "release"}]
      /\ batch \in [Processes -> SUBSET Notifications]
      /\ \A q \in Processes : pc[q] = "update" => row[q] \in Notifications
      /\ Schedulers \subseteq Processes /\ Runners \subseteq Processes
  BY DEF IInv, TypeOK, Locals, Processes
<1> USE DEF HandInv, SentWasHanded, tableVars, redisVars, jobVars
<1>1. ASSUME NEW n \in Notifications, Enqueue(n) PROVE HandInv'
  BY <1>1, <1>t DEF Enqueue, NoRow
<1>2. ASSUME NEW s \in Schedulers, StartCycle(s) \/ EndCycle(s) PROVE HandInv'
  BY <1>2, <1>t DEF StartCycle, EndCycle
<1>3. ASSUME NEW s \in Schedulers, NEW o \in Organizations, Acquire(s, o)
      PROVE  HandInv'
  BY <1>3, <1>t DEF Acquire
<1>4. ASSUME NEW s \in Schedulers, NEW o \in Organizations,
             Skip(s, o) \/ AcquireError(s, o)
      PROVE  HandInv'
  BY <1>4, <1>t DEF Skip, AcquireError
<1>5. ASSUME NEW s \in Schedulers, Release(s) \/ ReleaseError(s) PROVE HandInv'
  BY <1>5, <1>t DEF Release, ReleaseError, AfterRelease
<1>6. ASSUME NEW r \in Runners, NEW o \in Organizations, StartRunner(r, o)
      PROVE  HandInv'
  BY <1>6, <1>t DEF StartRunner
<1>7. ASSUME NEW p \in Processes, Die(p) PROVE HandInv'
  BY <1>7, <1>t DEF Die
<1>8. ASSUME NEW o \in Organizations, Expire(o) \/ Lapse(o) PROVE HandInv'
  BY <1>8, <1>t DEF Expire, Lapse
<1>9. CASE UNCHANGED vars
  BY <1>9 DEF vars
<1>10. ASSUME NEW p \in Processes, JobRaises(p) PROVE HandInv'
  BY <1>10, <1>t DEF JobRaises
<1> HIDE DEF HandInv
<1> QED
  BY <1>1, <1>2, <1>3, <1>4, <1>5, <1>6, <1>7, <1>8, <1>9, <1>10 DEF OtherStep

(* While every process sends mail in mode "resend", a mail row that says    *)
(* sent was handed to the provider, whoever wrote the row last.             *)
THEOREM SentIsHanded ==
  ASSUME MailIsOn
  PROVE  Spec => []SentWasHanded
<1>1. IInv /\ HandInv /\ [Next]_vars => HandInv'
  BY HandJob, HandOther, NextSplit
<1>2. HandInv => SentWasHanded
  BY DEF HandInv
<1> QED
  BY <1>1, <1>2, HandInit, JobsInvariant, PTL DEF Spec
-----------------------------------------------------------------------------
(* What a repeated mail costs                                               *)

(* The processes that have listed row n, and those of them that have not    *)
(* come to it yet.                                                          *)
Listed(n) == {p \in Processes : n \in batch[p]}
Owing(n) == {p \in Listed(n) : ~(pc[p] = "update" /\ row[p] = n)}

(* The schedulers that work on after their lock expired. *)
Overdue == {s \in Schedulers : lapsed[s]}

(* Rows are listed for the job of their organization, once they are there. *)
ListInv ==
  /\ \A p \in Processes : \A n \in batch[p] :
       /\ pc[p] \in {"row", "update"}
       /\ OrgOf[n] = org[p]
       /\ queue[n].status # "absent"
  /\ \A p \in Processes : pc[p] = "update" => row[p] \in batch[p]
  /\ \A n \in Notifications : queue[n].status = "absent" => sends[n] = 0

LapseInv == IsFiniteSet(Overdue) /\ Cardinality(Overdue) <= lapses

(* While a row is queued, what has been and may yet be sent of it is no     *)
(* more than the processes that listed it and those that died or raised;    *)
(* the first update closes the list, and the bound then stands for good.    *)
Account(n) ==
  /\ queue[n].status = "queued" =>
       sends[n] + Cardinality(Owing(n)) <= Cardinality(Listed(n)) + faults
  /\ queue[n].status \in Settled =>
       sends[n] + Cardinality(Owing(n)) <= 1 + Cardinality(Runners) + faults + lapses

DupInv == ListInv /\ LapseInv /\ \A n \in Notifications : Account(n)

LEMMA UnionBound ==
  ASSUME NEW S, NEW T, IsFiniteSet(S), IsFiniteSet(T)
  PROVE  /\ IsFiniteSet(S \cup T)
         /\ Cardinality(S \cup T) \in Nat
         /\ Cardinality(S \cup T) <= Cardinality(S) + Cardinality(T)
<1>1. S \cap T \in SUBSET S
  OBVIOUS
<1>2. IsFiniteSet(S \cap T)
  BY <1>1, FS_Subset
<1>3. /\ Cardinality(S) \in Nat /\ Cardinality(T) \in Nat
      /\ Cardinality(S \cap T) \in Nat
  BY <1>2, FS_CardinalityType
<1>4. /\ IsFiniteSet(S \cup T)
      /\ Cardinality(S \cup T) = Cardinality(S) + Cardinality(T) - Cardinality(S \cap T)
  BY FS_Union
<1>5. Cardinality(S \cup T) \in Nat
  BY <1>4, FS_CardinalityType
<1> QED
  BY <1>3, <1>4, <1>5

(* At most one scheduler whose lock has not expired has listed the row: so  *)
(* no more processes have than there are runners, expired locks, and one.   *)
LEMMA FewListers ==
  ASSUME IsFiniteSet(Runners), IInv, ListInv, LapseInv, NEW n \in Notifications
  PROVE  /\ IsFiniteSet(Listed(n))
         /\ Cardinality(Listed(n)) <= 1 + Cardinality(Runners) + lapses
<1> DEFINE Owner == {s \in Schedulers : n \in batch[s] /\ ~lapsed[s]}
<1>1. \A s, t \in Owner : s = t
  <2> SUFFICES ASSUME NEW s \in Owner, NEW t \in Owner PROVE s = t
    OBVIOUS
  <2>1. /\ s \in Schedulers /\ ~lapsed[s] /\ t \in Schedulers /\ ~lapsed[t]
        /\ org[s] = OrgOf[n] /\ pc[s] \in JobPcs
        /\ org[t] = OrgOf[n] /\ pc[t] \in JobPcs
    BY DEF ListInv, Processes, JobPcs
  <2>2. OrgOf[n] \in Organizations
    BY JobsAssumption
  <2> QED
    BY <2>1, <2>2, Exclusion DEF MutualExclusion, InJob, JobPcs
<1>2. IsFiniteSet(Owner) /\ Cardinality(Owner) <= 1
  <2>1. CASE Owner = {}
    BY <2>1, FS_EmptySet
  <2>2. ASSUME NEW s \in Owner PROVE IsFiniteSet(Owner) /\ Cardinality(Owner) <= 1
    <3>1. Owner = {s}
      BY <1>1, <2>2
    <3>2. IsFiniteSet({s}) /\ Cardinality({s}) = 1
      BY FS_Singleton
    <3> QED
      BY <3>1, <3>2
  <2> QED
    BY <2>1, <2>2
<1>3. Listed(n) \subseteq (Runners \cup Overdue) \cup Owner
  BY DEF Listed, Overdue, Processes
<1>4. lapses \in Nat /\ IsFiniteSet(Overdue) /\ Cardinality(Overdue) <= lapses
  BY DEF IInv, TypeOK, LapseInv
<1> HIDE DEF Owner
<1> DEFINE Outsiders == Runners \cup Overdue
<1>5. /\ IsFiniteSet(Outsiders)
      /\ Cardinality(Outsiders) \in Nat
      /\ Cardinality(Outsiders) <= Cardinality(Runners) + lapses
  <2>1. Cardinality(Runners) \in Nat /\ Cardinality(Overdue) \in Nat
    BY <1>4, FS_CardinalityType
  <2> QED
    BY <1>4, <2>1, UnionBound
<1> HIDE DEF Outsiders
<1>6. /\ IsFiniteSet(Outsiders \cup Owner)
      /\ Cardinality(Outsiders \cup Owner) <= Cardinality(Outsiders) + 1
  <2>1. Cardinality(Owner) \in Nat
    BY <1>2, FS_CardinalityType
  <2> QED
    BY <1>2, <1>5, <2>1, UnionBound
<1>7. Cardinality(Runners) \in Nat /\ Cardinality(Outsiders \cup Owner) \in Nat
  BY <1>6, FS_CardinalityType
<1>8. Listed(n) \in SUBSET (Outsiders \cup Owner)
  BY <1>3 DEF Outsiders
<1>9. IsFiniteSet(Listed(n)) /\ Cardinality(Listed(n)) <= Cardinality(Outsiders \cup Owner)
  BY <1>6, <1>8, FS_Subset
<1> QED
  BY <1>4, <1>5, <1>6, <1>7, <1>9, FS_CardinalityType

(* What a step means for row n. *)
Untouched(n) ==
  /\ Listed(n)' = Listed(n) /\ Owing(n)' = Owing(n)
  /\ sends'[n] = sends[n] /\ queue'[n].status = queue[n].status
Appears(n) ==
  /\ Owing(n)' = {} /\ Listed(n)' = {}
  /\ sends'[n] = 0 /\ queue'[n].status = "queued"
IsListed(n, p) ==
  /\ p \notin Listed(n) /\ queue[n].status = "queued"
  /\ Listed(n)' = Listed(n) \cup {p} /\ Owing(n)' = Owing(n) \cup {p}
  /\ sends'[n] = sends[n] /\ queue'[n].status = queue[n].status
HasTurn(n, p) ==
  /\ p \in Owing(n)
  /\ Listed(n)' = Listed(n) /\ Owing(n)' = Owing(n) \ {p}
  /\ sends'[n] \in {sends[n], sends[n] + 1} /\ queue'[n].status = queue[n].status
IsUpdated(n) ==
  /\ Owing(n)' = Owing(n) /\ sends'[n] = sends[n]
  /\ queue[n].status # "absent" /\ queue'[n].status \in Settled
IsDropped(n, p) ==
  /\ Listed(n)' = Listed(n) \ {p} /\ Owing(n)' = Owing(n) \ {p}
  /\ sends'[n] = sends[n] /\ queue'[n].status = queue[n].status
  /\ faults' = faults + 1
LEMMA JobOnRow ==
  ASSUME IInv, ListInv, NEW p \in Processes, JobStep(p), NEW n \in Notifications
  PROVE  /\ ListInv'
         /\ Untouched(n) \/ IsListed(n, p) \/ HasTurn(n, p) \/ IsUpdated(n)
<1>t. /\ queue \in [Notifications -> [status : {"absent", "queued"} \cup Settled,
                                       channel : {"email", "mock"}]]
      /\ sends \in [Notifications -> Nat]
      /\ pc \in [Processes -> {"idle", "next", "list", "row", "update", "release"}]
      /\ org \in [Processes -> Organizations \cup {None}]
      /\ batch \in [Processes -> SUBSET Notifications]
      /\ row \in [Processes -> Notifications \cup {None}]
      /\ outcome \in [Processes -> Settled \cup {"none"}]
      /\ \A q \in Processes : pc[q] = "update" =>
           row[q] \in Notifications /\ outcome[q] \in Settled
  BY DEF IInv, TypeOK, Locals
<1>l. \A q \in Processes : \A m \in batch[q] : m \in Notifications
  BY <1>t
<1> USE DEF Listed, Owing
<1>1. CASE List(p)
  <2>1. /\ batch[p] = {} /\ pc[p] = "list"
        /\ pc' = [pc EXCEPT ![p] = "row"]
        /\ batch' = [batch EXCEPT ![p] = Queued(org[p])]
        /\ UNCHANGED <<queue, sends, row, org>>
    BY <1>1, <1>t DEF List, ListInv, tableVars
  <2>2. \A m \in Queued(org[p]) : /\ m \in Notifications /\ OrgOf[m] = org[p]
                                  /\ queue[m].status = "queued"
    BY DEF Queued
  <2>3. ListInv'
    BY <1>t, <2>1, <2>2 DEF ListInv
  <2>4. CASE n \in Queued(org[p])
    BY <1>t, <2>1, <2>2, <2>3, <2>4 DEF IsListed
  <2>5. CASE n \notin Queued(org[p])
    BY <1>t, <2>1, <2>3, <2>5 DEF Untouched
  <2> QED
    BY <2>3, <2>4, <2>5
<1>2. ASSUME NEW m \in Notifications, SettleUnsent(p, m) \/ Deliver(p, m)
      PROVE  /\ ListInv'
             /\ Untouched(n) \/ HasTurn(n, p)
  <2>1. /\ m \in batch[p] /\ pc[p] = "row"
        /\ pc' = [pc EXCEPT ![p] = "update"]
        /\ row' = [row EXCEPT ![p] = m]
        /\ UNCHANGED <<queue, batch, org>>
    BY <1>2 DEF SettleUnsent, Deliver, Chosen, tableVars
  <2>2. /\ sends'[m] \in {sends[m], sends[m] + 1}
        /\ \A k \in Notifications \ {m} : sends'[k] = sends[k]
    <3>1. CASE SettleUnsent(p, m)
      BY <3>1 DEF SettleUnsent, tableVars
    <3>2. CASE Deliver(p, m)
      BY <1>t, <3>2 DEF Deliver
    <3> QED
      BY <1>2, <3>1, <3>2
  <2>3. ListInv'
    BY <1>t, <1>l, <2>1, <2>2 DEF ListInv
  <2>4. CASE n = m
    BY <1>t, <2>1, <2>2, <2>3, <2>4 DEF HasTurn
  <2>5. CASE n # m
    BY <1>t, <2>1, <2>2, <2>3, <2>5 DEF Untouched
  <2> QED
    BY <2>3, <2>4, <2>5
<1>3. CASE Update(p)
  <2>1. pc[p] = "update" /\ row[p] \in Notifications /\ row[p] \in batch[p]
    BY <1>3, <1>t DEF Update, ListInv
  <2>2. PICK m \in Notifications : m = row[p]
    BY <2>1
  <2>3. /\ \A k \in Notifications \ {m} : queue'[k] = queue[k]
        /\ queue'[m].status \in Settled /\ queue'[m].status # "absent"
        /\ queue[m].status # "absent"
    BY <1>3, <1>t, <2>1, <2>2 DEF Update, Settled, ListInv
  <2>4. /\ pc' = [pc EXCEPT ![p] = "row"] /\ row' = [row EXCEPT ![p] = None]
        /\ batch' = [batch EXCEPT ![p] = @ \ {m}]
        /\ UNCHANGED <<sends, org>>
    BY <1>3, <2>2 DEF Update
  <2>5. ListInv'
    BY <1>t, <1>l, <2>3, <2>4 DEF ListInv
  <2>6. CASE n = m
    BY <1>t, <2>1, <2>2, <2>3, <2>4, <2>5, <2>6 DEF IsUpdated
  <2>7. CASE n # m
    BY <1>t, <2>1, <2>2, <2>3, <2>4, <2>5, <2>7 DEF Untouched
  <2> QED
    BY <2>5, <2>6, <2>7
<1>4. CASE Finish(p)
  <2>1. /\ batch[p] = {} /\ pc[p] = "row"
        /\ pc' = [pc EXCEPT ![p] = IF p \in Schedulers THEN "release" ELSE "idle"]
        /\ org' = [org EXCEPT ![p] = IF p \in Schedulers THEN @ ELSE None]
        /\ UNCHANGED <<queue, sends, batch, row>>
    BY <1>4 DEF Finish, tableVars, jobVars
  <2> QED
    BY <1>t, <2>1 DEF ListInv, Untouched
<1> QED
  BY <1>1, <1>2, <1>3, <1>4 DEF JobStep

LEMMA OtherOnRow ==
  ASSUME IInv, ListInv, OtherStep, NEW n \in Notifications
  PROVE  /\ ListInv'
         /\ Untouched(n) \/ Appears(n) \/ \E p \in Processes : IsDropped(n, p)
<1>t. /\ queue \in [Notifications -> [status : {"absent", "queued"} \cup Settled,
                                       channel : {"email", "mock"}]]
      /\ pc \in [Processes -> {"idle", "next", "list", "row", "update", "release"}]
      /\ batch \in [Processes -> SUBSET Notifications]
      /\ row \in [Processes -> Notifications \cup {None}]
      /\ org \in [Processes -> Organizations \cup {None}]
      /\ Schedulers \subseteq Processes /\ Runners \subseteq Processes
  BY DEF IInv, TypeOK, Processes
<1>l. \A q \in Processes : \A m \in batch[q] : m \in Notifications
  BY <1>t
<1> USE DEF Listed, Owing, ListInv, tableVars, redisVars, jobVars
<1>1. ASSUME NEW m \in Notifications, Enqueue(m)
      PROVE  ListInv' /\ (Untouched(n) \/ Appears(n))
  <2>1. /\ queue[m].status = "absent"
        /\ queue'[m].status = "queued" /\ \A k \in Notifications \ {m} : queue'[k] = queue[k]
        /\ UNCHANGED <<sends, pc, batch, row, org>>
    BY <1>1, <1>t DEF Enqueue, NoRow
  <2>2. CASE n = m
    BY <1>t, <1>l, <2>1, <2>2 DEF Appears
  <2>3. CASE n # m
    BY <1>t, <2>1, <2>3 DEF Untouched
  <2> QED
    BY <1>t, <1>l, <2>1, <2>2, <2>3
<1>2. ASSUME NEW s \in Schedulers, StartCycle(s) \/ EndCycle(s)
      PROVE  ListInv' /\ Untouched(n)
  BY <1>2, <1>t DEF StartCycle, EndCycle, Untouched
<1>3. ASSUME NEW s \in Schedulers, NEW o \in Organizations, Acquire(s, o)
      PROVE  ListInv' /\ Untouched(n)
  BY <1>3, <1>t DEF Acquire, Untouched
<1>4. ASSUME NEW s \in Schedulers, NEW o \in Organizations,
             Skip(s, o) \/ AcquireError(s, o)
      PROVE  ListInv' /\ Untouched(n)
  BY <1>4, <1>t DEF Skip, AcquireError, Untouched
<1>5. ASSUME NEW s \in Schedulers, Release(s) \/ ReleaseError(s)
      PROVE  ListInv' /\ Untouched(n)
  BY <1>5, <1>t DEF Release, ReleaseError, AfterRelease, Untouched
<1>6. ASSUME NEW r \in Runners, NEW o \in Organizations, StartRunner(r, o)
      PROVE  ListInv' /\ Untouched(n)
  BY <1>6, <1>t DEF StartRunner, Untouched
<1>7. ASSUME NEW p \in Processes, Die(p)
      PROVE  ListInv' /\ IsDropped(n, p)
  <2>1. /\ pc' = [pc EXCEPT ![p] = "idle"] /\ batch' = [batch EXCEPT ![p] = {}]
        /\ row' = [row EXCEPT ![p] = None] /\ org' = [org EXCEPT ![p] = None]
        /\ faults' = faults + 1 /\ UNCHANGED <<queue, sends>>
    BY <1>7 DEF Die
  <2> QED
    BY <1>t, <2>1 DEF IsDropped
<1>8. ASSUME NEW o \in Organizations, Expire(o) \/ Lapse(o)
      PROVE  ListInv' /\ Untouched(n)
  BY <1>8, <1>t DEF Expire, Lapse, Untouched
<1>9. CASE UNCHANGED vars
  BY <1>9 DEF vars, Untouched
<1>10. ASSUME NEW p \in Processes, JobRaises(p)
       PROVE  ListInv' /\ IsDropped(n, p)
  <2>1. /\ pc[p] \in {"list", "row", "update"}
        /\ pc' = [pc EXCEPT ![p] = IF p \in Schedulers THEN "release" ELSE "idle"]
        /\ org' = [org EXCEPT ![p] = IF p \in Schedulers THEN @ ELSE None]
        /\ batch' = [batch EXCEPT ![p] = {}] /\ row' = [row EXCEPT ![p] = None]
        /\ faults' = faults + 1 /\ UNCHANGED <<queue, sends>>
    BY <1>10 DEF JobRaises
  <2> QED
    BY <1>t, <2>1 DEF IsDropped
<1> HIDE DEF ListInv
<1> QED
  BY <1>1, <1>2, <1>3, <1>4, <1>5, <1>6, <1>7, <1>8, <1>9, <1>10 DEF OtherStep

(* The bounds on faults only grow, and only a lapse makes a lock overdue.   *)
LEMMA CountsGrow ==
  ASSUME IInv, LapseInv, [Next]_vars
  PROVE  /\ LapseInv'
         /\ faults \in Nat /\ faults' \in Nat /\ faults <= faults'
         /\ lapses \in Nat /\ lapses' \in Nat /\ lapses <= lapses'
<1>t. /\ faults \in Nat /\ lapses \in Nat /\ faults' \in Nat /\ lapses' \in Nat
      /\ lapsed \in [Processes -> BOOLEAN]
  BY StepInv, JobsAssumption DEF IInv, TypeOK
<1>1. faults <= faults' /\ lapses <= lapses'
  <2>1. ASSUME NEW p \in Processes, JobStep(p) PROVE UNCHANGED <<faults, lapses>>
    BY <2>1 DEF JobStep, List, SettleUnsent, Deliver, Update, Finish, redisVars
  <2>2. CASE OtherStep
    BY <1>t, <2>2 DEF OtherStep, Enqueue, StartCycle, EndCycle, Acquire, Skip,
       AcquireError, Release, ReleaseError, StartRunner, JobRaises, Die, Expire,
       Lapse, vars, redisVars
  <2> QED
    BY <1>t, <2>1, <2>2, NextSplit
<1>2. CASE Overdue' \subseteq Overdue
  <2>1. Overdue' \in SUBSET Overdue
    BY <1>2
  <2>2. IsFiniteSet(Overdue') /\ Cardinality(Overdue') <= Cardinality(Overdue)
    BY <2>1, FS_Subset DEF LapseInv
  <2>3. Cardinality(Overdue') \in Nat /\ Cardinality(Overdue) \in Nat
    BY <2>2, FS_CardinalityType DEF LapseInv
  <2> QED
    BY <1>t, <1>1, <2>2, <2>3 DEF LapseInv
<1>3. ASSUME NEW o \in Organizations, Lapse(o)
      PROVE  LapseInv'
  <2>1. PICK s : s \in Holders(o)
    BY <1>3 DEF Lapse
  <2>2. Holders(o) = {s} /\ s \in Schedulers
    BY <2>1 DEF Holders, IInv, LockInv
  <2>3. Overdue' = Overdue \cup {s} /\ lapses' = lapses + 1
    BY <1>3, <1>t, <2>2 DEF Lapse, Overdue, Processes
  <2>4. /\ IsFiniteSet(Overdue \cup {s})
        /\ Cardinality(Overdue \cup {s}) <= Cardinality(Overdue) + 1
        /\ Cardinality(Overdue) \in Nat /\ Cardinality(Overdue \cup {s}) \in Nat
    <3>1. IsFiniteSet(Overdue)
      BY DEF LapseInv
    <3>2. /\ IsFiniteSet(Overdue \cup {s})
          /\ Cardinality(Overdue \cup {s})
               = IF s \in Overdue THEN Cardinality(Overdue) ELSE Cardinality(Overdue) + 1
      BY <3>1, FS_AddElement
    <3>3. Cardinality(Overdue) \in Nat
      BY <3>1, FS_CardinalityType
    <3> QED
      BY <3>2, <3>3
  <2> QED
    BY <1>t, <2>3, <2>4 DEF LapseInv
<1>4. Overdue' \subseteq Overdue \/ \E o \in Organizations : Lapse(o)
  <2>1. ASSUME NEW p \in Processes, JobStep(p) PROVE UNCHANGED lapsed
    BY <2>1 DEF JobStep, List, SettleUnsent, Deliver, Update, Finish, redisVars
  <2>2. CASE OtherStep
    BY <1>t, <2>2 DEF OtherStep, Enqueue, StartCycle, EndCycle, Acquire, Skip,
       AcquireError, Release, ReleaseError, AfterRelease, StartRunner, JobRaises,
       Die, Expire, vars, redisVars, Overdue, Processes
  <2> QED
    BY <2>1, <2>2, NextSplit DEF Overdue
<1> QED
  BY <1>t, <1>1, <1>2, <1>3, <1>4
LEMMA DupInit == Init => DupInv
<1> SUFFICES ASSUME Init PROVE DupInv
  OBVIOUS
<1>1. Overdue = {} /\ lapses = 0
  BY DEF Init, Overdue, Processes
<1>2. LapseInv
  BY <1>1, FS_EmptySet DEF LapseInv
<1>3. \A n \in Notifications : queue[n].status = "absent" /\ sends[n] = 0
  BY DEF Init, NoRow
<1> QED
  BY <1>2, <1>3 DEF Init, DupInv, ListInv, Account, Settled

(* Each thing that can happen to a row keeps its account.                   *)
LEMMA AccountStep ==
  ASSUME IsFiniteSet(Runners), IInv, DupInv, [Next]_vars, NEW n \in Notifications
  PROVE  Account(n)'
<1> DEFINE R == Cardinality(Runners)
<1>1. /\ IsFiniteSet(Listed(n)) /\ Cardinality(Listed(n)) <= 1 + R + lapses
      /\ Account(n) /\ ListInv /\ LapseInv
  BY FewListers DEF DupInv
<1>2. Owing(n) \in SUBSET Listed(n)
  BY DEF Owing
<1>3. IsFiniteSet(Owing(n)) /\ Cardinality(Owing(n)) <= Cardinality(Listed(n))
  BY <1>1, <1>2, FS_Subset
<1>4. Cardinality(Owing(n)) \in Nat /\ Cardinality(Listed(n)) \in Nat /\ R \in Nat
  BY <1>1, <1>3, FS_CardinalityType
<1>5. /\ faults \in Nat /\ faults' \in Nat /\ faults <= faults'
      /\ lapses \in Nat /\ lapses' \in Nat /\ lapses <= lapses'
  BY <1>1, CountsGrow
<1>6. /\ sends[n] \in Nat
      /\ queue[n].status \in {"absent", "queued"} \cup Settled
      /\ "queued" \notin Settled /\ "absent" \notin Settled
  BY DEF IInv, TypeOK, Settled
<1> HIDE DEF R
<1>7. CASE Untouched(n)
  BY <1>1, <1>4, <1>5, <1>6, <1>7 DEF Untouched, Account, R
<1>8. CASE Appears(n)
  <2>1. Cardinality({}) = 0
    BY FS_EmptySet
  <2> QED
    BY <1>5, <1>6, <1>8, <2>1 DEF Appears, Account
<1>9. ASSUME NEW p, IsListed(n, p) PROVE Account(n)'
  <2>1. p \notin Listed(n) /\ p \notin Owing(n)
    BY <1>2, <1>9 DEF IsListed
  <2>2. /\ Cardinality(Listed(n) \cup {p}) = Cardinality(Listed(n)) + 1
        /\ Cardinality(Owing(n) \cup {p}) = Cardinality(Owing(n)) + 1
    BY <1>1, <1>3, <2>1, FS_AddElement
  <2> QED
    BY <1>1, <1>4, <1>5, <1>6, <1>9, <2>2 DEF IsListed, Account
<1>10. ASSUME NEW p, HasTurn(n, p) PROVE Account(n)'
  <2>1. Cardinality(Owing(n) \ {p}) = Cardinality(Owing(n)) - 1
    BY <1>3, <1>10, FS_RemoveElement DEF HasTurn
  <2> QED
    BY <1>1, <1>4, <1>5, <1>6, <1>10, <2>1 DEF HasTurn, Account, R
<1>11. CASE IsUpdated(n)
  <2>1. sends[n] + Cardinality(Owing(n)) <= 1 + R + faults + lapses
    BY <1>1, <1>4, <1>5, <1>6, <1>11 DEF IsUpdated, Account, R
  <2> QED
    BY <1>4, <1>5, <1>6, <1>11, <2>1 DEF IsUpdated, Account, R
<1>12. ASSUME NEW p, IsDropped(n, p) PROVE Account(n)'
  <2>1. /\ Cardinality(Listed(n) \ {p})
             = IF p \in Listed(n) THEN Cardinality(Listed(n)) - 1 ELSE Cardinality(Listed(n))
        /\ Cardinality(Owing(n) \ {p})
             = IF p \in Owing(n) THEN Cardinality(Owing(n)) - 1 ELSE Cardinality(Owing(n))
    BY <1>1, <1>3, FS_RemoveElement
  <2>2. Cardinality(Owing(n) \ {p}) \in Nat /\ Cardinality(Listed(n) \ {p}) \in Nat
    BY <1>1, <1>3, FS_RemoveElement, FS_CardinalityType
  <2> QED
    BY <1>1, <1>4, <1>5, <1>6, <1>12, <2>1, <2>2 DEF IsDropped, Account, R
<1>13. CASE \E p \in Processes : JobStep(p)
  BY <1>1, <1>7, <1>9, <1>10, <1>11, <1>13, JobOnRow
<1>14. CASE OtherStep
  BY <1>1, <1>7, <1>8, <1>12, <1>14, OtherOnRow
<1> QED
  BY <1>13, <1>14, NextSplit

LEMMA DupStep ==
  ASSUME IsFiniteSet(Runners), IInv, DupInv, [Next]_vars
  PROVE  DupInv'
<1>1. ListInv'
  <2>1. CASE Notifications = {}
    <3>1. TypeOK' /\ Locals'
      BY StepInv DEF IInv
    <3>2. \A p \in Processes : batch'[p] = {} /\ pc'[p] # "update"
      BY <2>1, <3>1 DEF TypeOK, Locals
    <3> QED
      BY <2>1, <3>2 DEF ListInv
  <2>2. CASE Notifications # {}
    BY <2>2, JobOnRow, OtherOnRow, NextSplit DEF DupInv
  <2> QED
    BY <2>1, <2>2
<1>2. LapseInv'
  BY CountsGrow DEF DupInv
<1> QED
  BY <1>1, <1>2, AccountStep DEF DupInv

LEMMA AccountBounds ==
  ASSUME IsFiniteSet(Runners), IInv, DupInv
  PROVE  DuplicatesAreAccounted
<1> SUFFICES ASSUME NEW n \in Notifications
             PROVE  sends[n] <= 1 + Cardinality(Runners) + faults + lapses
  BY DEF DuplicatesAreAccounted
<1>1. /\ IsFiniteSet(Listed(n)) /\ Cardinality(Listed(n)) <= 1 + Cardinality(Runners) + lapses
      /\ Account(n) /\ ListInv
  BY FewListers DEF DupInv
<1>2. Owing(n) \in SUBSET Listed(n)
  BY DEF Owing
<1>3. /\ Cardinality(Owing(n)) \in Nat /\ Cardinality(Listed(n)) \in Nat
      /\ Cardinality(Runners) \in Nat
  BY <1>1, <1>2, FS_Subset, FS_CardinalityType
<1>4. /\ sends[n] \in Nat /\ faults \in Nat /\ lapses \in Nat
      /\ queue[n].status \in {"absent", "queued"} \cup Settled
  BY JobsAssumption DEF IInv, TypeOK
<1> QED
  BY <1>1, <1>3, <1>4 DEF Account, ListInv

(* A row is mailed once, and once more for every runner at work without     *)
(* the lock, every death, every failed call of Redis or of the database and *)
(* every lock that expired under its holder: repetition has no other cause, *)
(* however the processes interleave and however often each of them runs.    *)
THEOREM DuplicatesCostFaults ==
  ASSUME IsFiniteSet(Runners)
  PROVE  Spec => []DuplicatesAreAccounted
<1>1. IInv /\ DupInv /\ [Next]_vars => DupInv'
  BY DupStep
<1>2. IInv /\ DupInv => DuplicatesAreAccounted
  BY AccountBounds
<1> QED
  BY <1>1, <1>2, DupInit, JobsInvariant, PTL DEF Spec
=============================================================================
