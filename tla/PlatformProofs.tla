--------------------------- MODULE PlatformProofs ---------------------------
(***************************************************************************)
(* Proofs about what runs behind the requests: the job queue, for every    *)
(* set of jobs and workers, and the pipeline from an event to its rows,    *)
(* e-mail jobs and frames, for any members, preferences and transactions.  *)
(***************************************************************************)
EXTENDS JobQueueProperties, Notifications, FiniteSetTheorems, TLAPS

-----------------------------------------------------------------------------
(* The job queue (JobQueue).                                                *)

(* Counting stays within its bound, never goes down and leaves zero.        *)
LEMMA BumpType ==
  ASSUME NEW n \in 0..CountCap
  PROVE  Bump(n) \in 0..CountCap /\ Bump(n) >= n /\ Bump(n) > 0
  BY BoundsAssumption, SettingsAssumption DEF Bump

(* No row is loaded as the placeholder of a worker that runs nothing.       *)
LEMMA NoRowIsNotARow == NoRow \notin Row
  BY JobsAssumption DEF NoRow, Row

(* The state of the table, of the workers and of their loaded rows is well  *)
(* typed in every reachable state (runner.py and __main__.py).              *)
THEOREM TypeCorrect == Spec => []TypeOK
<1>1. Init => TypeOK
  BY BoundsAssumption DEF Init, TypeOK, JobStatus, Executing
<1>2. TypeOK /\ [Next]_vars => TypeOK'
  <2> SUFFICES ASSUME TypeOK, [Next]_vars PROVE TypeOK'
    OBVIOUS
  <2> USE DEF TypeOK, Executing, Held
  <2>1. ASSUME NEW j \in Jobs, Enqueue(j) PROVE TypeOK'
    BY <2>1 DEF Enqueue, JobStatus, bounds
  <2>2. ASSUME NEW w \in Workers, Reap(w) PROVE TypeOK'
    BY <2>2 DEF Reap, JobStatus, bounds
  <2>3. ASSUME NEW w \in Workers, Claim(w) PROVE TypeOK'
    <3> PICK S \in Batches :
          /\ status' = [j \in Jobs |-> IF j \in S THEN "running" ELSE status[j]]
          /\ attempts' = [j \in Jobs |-> IF j \in S THEN Bump(attempts[j]) ELSE attempts[j]]
          /\ stale' = [j \in Jobs |-> IF j \in S THEN FALSE ELSE stale[j]]
          /\ batch' = [batch EXCEPT ![w] = S]
          /\ pc' = [pc EXCEPT ![w] = IF S = {} THEN "idle" ELSE "batch"]
      BY <2>3 DEF Claim
    <3>1. S \subseteq Jobs
      BY DEF Batches, Claimable
    <3>2. attempts' \in [Jobs -> 0..CountCap]
      BY BumpType
    <3>3. UNCHANGED <<delayed, snap, effects, bounds>>
      BY <2>3 DEF Claim
    <3> QED
      BY <3>1, <3>2, <3>3 DEF JobStatus, bounds
  <2>4. ASSUME NEW w \in Workers, Load(w) PROVE TypeOK'
    <3> PICK j \in batch[w] :
          /\ snap' = [snap EXCEPT ![w] = [job |-> j, status |-> status[j],
                                          attempts |-> attempts[j]]]
          /\ pc' = [pc EXCEPT ![w] = IF j \in Unhandled THEN "unknown" ELSE "loaded"]
      BY <2>4 DEF Load
    <3>1. [job |-> j, status |-> status[j], attempts |-> attempts[j]] \in Row
      BY DEF Row
    <3> QED
      BY <2>4, <3>1 DEF Load, table, bounds
  <2>5. ASSUME NEW w \in Workers, HandlerReturns(w) \/ HandlerRaises(w) PROVE TypeOK'
    <3>1. effects' \in [Jobs -> 0..CountCap]
      BY <2>5, BumpType DEF HandlerReturns, HandlerRaises
    <3> QED
      BY <2>5, <3>1 DEF HandlerReturns, HandlerRaises, table, bounds
  <2>6. ASSUME NEW w \in Workers,
               FinalizeSuccess(w) \/ FinalizeRetry(w) \/ FinalizeFailed(w) \/ FinalizeUnknown(w)
        PROVE  TypeOK'
    <3>1. /\ status' \in [Jobs -> JobStatus]
          /\ stale' \in [Jobs -> BOOLEAN]
          /\ delayed' \in [Jobs -> BOOLEAN]
      BY ZenonT(60), <2>6 DEF FinalizeSuccess, FinalizeRetry, FinalizeFailed, FinalizeUnknown,
                  SetStatus, Touch, JobStatus
    <3>2. effects' \in [Jobs -> 0..CountCap]
      BY <2>6, BumpType DEF FinalizeSuccess, FinalizeRetry, FinalizeFailed, FinalizeUnknown
    <3>3. NextJob(w) /\ UNCHANGED <<attempts, bounds>>
      BY <2>6 DEF FinalizeSuccess, FinalizeRetry, FinalizeFailed, FinalizeUnknown
    <3> QED
      BY <3>1, <3>2, <3>3 DEF NextJob, bounds
  <2>7. ASSUME NEW w \in Workers, HandlerKillsWorker(w) \/ Crash(w) PROVE TypeOK'
    BY <2>7, BoundsAssumption DEF HandlerKillsWorker, Crash, Abandon, table, bounds
  <2>8. ASSUME NEW j \in Jobs, OrphanExpires(j) \/ BatchOverruns(j) \/ BackoffEnds(j)
        PROVE  TypeOK'
    <3>1. overruns' \in 0..MaxOverruns
      BY <2>8, BoundsAssumption DEF OrphanExpires, BatchOverruns, BackoffEnds, bounds
    <3>2. stale' \in [Jobs -> BOOLEAN] /\ delayed' \in [Jobs -> BOOLEAN]
      BY <2>8 DEF OrphanExpires, BatchOverruns, BackoffEnds
    <3> QED
      BY <2>8, <3>1, <3>2 DEF OrphanExpires, BatchOverruns, BackoffEnds, bounds
  <2>9. CASE UNCHANGED vars
    BY <2>9 DEF vars, table, bounds
  <2> QED
    BY <2>1, <2>2, <2>3, <2>4, <2>5, <2>6, <2>7, <2>8, <2>9 DEF Next, WorkerStep
<1> QED
  BY <1>1, <1>2, PTL DEF Spec

-----------------------------------------------------------------------------
(* Without slow batches: every step leaves one executor per job.            *)
LEMMA ExclusiveStep ==
  ASSUME TypeOK, TypeOK', ExclusiveExecution, ~SlowWorkers, [Next]_vars
  PROVE  ExclusiveExecution'
<1> USE DEF TypeOK, ExclusiveExecution, Executing, Held
<1>1. ASSUME NEW j \in Jobs, Enqueue(j) PROVE ExclusiveExecution'
  BY <1>1 DEF Enqueue, bounds
<1>2. ASSUME NEW w \in Workers, Reap(w) PROVE ExclusiveExecution'
  BY <1>2 DEF Reap, bounds
<1>3. ASSUME NEW w \in Workers, Claim(w) PROVE ExclusiveExecution'
  <2> PICK S \in Batches :
        /\ status' = [j \in Jobs |-> IF j \in S THEN "running" ELSE status[j]]
        /\ attempts' = [j \in Jobs |-> IF j \in S THEN Bump(attempts[j]) ELSE attempts[j]]
        /\ stale' = [j \in Jobs |-> IF j \in S THEN FALSE ELSE stale[j]]
        /\ batch' = [batch EXCEPT ![w] = S]
        /\ pc' = [pc EXCEPT ![w] = IF S = {} THEN "idle" ELSE "batch"]
    BY <1>3 DEF Claim
  <2>1. S \subseteq Jobs /\ \A j \in S : status[j] = "queued"
    BY DEF Batches, Claimable
  <2>2. \A v \in Workers : batch[v] \cap S = {}
    BY <2>1
  <2>3. \A u, v \in Workers : u # v => batch'[u] \cap batch'[v] = {}
    BY <2>2
  <2>4. \A v \in Workers : \A j \in batch'[v] : status'[j] = "running" /\ ~stale'[j]
    BY <2>1
  <2>5. \A v \in Workers : Executing(v)' => v # w /\ Executing(v) /\ snap'[v] = snap[v]
    BY <1>3 DEF Claim
  <2>6. \A v \in Workers : Executing(v) /\ v # w =>
          /\ batch'[v] = batch[v]
          /\ attempts'[snap[v].job] = attempts[snap[v].job]
    BY <2>2 DEF Row
  <2>7. ASSUME NEW v \in Workers, Executing(v)'
        PROVE  /\ snap'[v].job \in batch'[v]
               /\ snap'[v].status = "running"
               /\ snap'[v].attempts = attempts'[snap'[v].job]
    <3>1. v # w /\ Executing(v) /\ snap'[v] = snap[v]
      BY <2>5, <2>7
    <3> QED
      BY <2>6, <3>1
  <2> QED
    BY <2>3, <2>4, <2>7
<1>4. ASSUME NEW w \in Workers, Load(w) PROVE ExclusiveExecution'
  <2> PICK j \in batch[w] :
        /\ snap' = [snap EXCEPT ![w] = [job |-> j, status |-> status[j],
                                        attempts |-> attempts[j]]]
        /\ pc' = [pc EXCEPT ![w] = IF j \in Unhandled THEN "unknown" ELSE "loaded"]
    BY <1>4 DEF Load
  <2>1. UNCHANGED <<status, attempts, stale, batch>> /\ pc[w] = "batch"
    BY <1>4 DEF Load, table
  <2>2. /\ snap'[w].job = j /\ snap'[w].status = "running"
        /\ snap'[w].attempts = attempts[j]
    OBVIOUS
  <2>3. \A v \in Workers : v # w => snap'[v] = snap[v] /\ pc'[v] = pc[v]
    OBVIOUS
  <2> QED
    BY <2>1, <2>2, <2>3
<1>5. ASSUME NEW w \in Workers, HandlerReturns(w) \/ HandlerRaises(w)
      PROVE  ExclusiveExecution'
  BY <1>5 DEF HandlerReturns, HandlerRaises, table, bounds
<1>6. ASSUME NEW w \in Workers,
             FinalizeSuccess(w) \/ FinalizeRetry(w) \/ FinalizeFailed(w) \/ FinalizeUnknown(w)
      PROVE  ExclusiveExecution'
  <2> DEFINE job == snap[w].job
  <2>1. Executing(w) /\ job \in Jobs /\ NextJob(w) /\ UNCHANGED attempts
    BY <1>6 DEF FinalizeSuccess, FinalizeRetry, FinalizeFailed, FinalizeUnknown, Row
  <2>2. \A j \in Jobs \ {job} : status'[j] = status[j] /\ stale'[j] = stale[j]
    BY <1>6, <2>1 DEF FinalizeSuccess, FinalizeRetry, FinalizeFailed, FinalizeUnknown,
                      SetStatus, Touch
  <2>3. \A v \in Workers : job \notin batch'[v] /\ batch'[v] \subseteq batch[v]
    BY <2>1 DEF NextJob
  <2>4. \A v \in Workers : Executing(v)' =>
          v # w /\ Executing(v) /\ snap'[v] = snap[v] /\ batch'[v] = batch[v]
    BY <2>1 DEF NextJob
  <2>5. \A u, v \in Workers : u # v => batch'[u] \cap batch'[v] = {}
    BY <2>3
  <2>6. \A v \in Workers : \A j \in batch'[v] : status'[j] = "running" /\ ~stale'[j]
    BY <2>2, <2>3
  <2> QED
    BY <2>1, <2>4, <2>5, <2>6
<1>7. ASSUME NEW w \in Workers, HandlerKillsWorker(w) \/ Crash(w)
      PROVE  ExclusiveExecution'
  BY <1>7 DEF HandlerKillsWorker, Crash, Abandon, table, bounds
<1>8. ASSUME NEW j \in Jobs, OrphanExpires(j) \/ BatchOverruns(j) \/ BackoffEnds(j)
      PROVE  ExclusiveExecution'
  BY <1>8 DEF OrphanExpires, BatchOverruns, BackoffEnds, bounds
<1>9. CASE UNCHANGED vars
  BY <1>9 DEF vars, table, bounds
<1> QED
  BY <1>1, <1>2, <1>3, <1>4, <1>5, <1>6, <1>7, <1>8, <1>9 DEF Next, WorkerStep

(* As long as batches finish within the stale window, no job is in the      *)
(* hands of two workers, and what a finalizer writes over is what its       *)
(* worker loaded - with any number of workers, crashes and restarts         *)
(* (run_once, reap_stale, claim_batch).                                     *)
THEOREM OneExecutor == ~SlowWorkers => (Spec => []ExclusiveExecution)
<1> SUFFICES ASSUME ~SlowWorkers PROVE Spec => []ExclusiveExecution
  OBVIOUS
<1>1. Init => ExclusiveExecution
  BY DEF Init, ExclusiveExecution, Executing, Held
<1>2. TypeOK /\ TypeOK' /\ ExclusiveExecution /\ [Next]_vars => ExclusiveExecution'
  BY ExclusiveStep
<1> QED
  BY <1>1, <1>2, TypeCorrect, PTL DEF Spec

-----------------------------------------------------------------------------
(* The queue implements its contract.                                       *)

(* What the effects say while a job is still open: rows a handler wrote are *)
(* there only once the job has succeeded, and a Mailing handler that has    *)
(* returned has sent.                                                       *)
EffectLedger ==
    /\ \A j \in Jobs : status[j] = "absent" => effects[j] = 0
    /\ \A j \in Jobs \ Mailing : status[j] # "succeeded" => effects[j] = 0
    /\ \A w \in Workers : pc[w] = "returned" /\ snap[w].job \in Mailing
                              => effects[snap[w].job] > 0

outcome == [j \in Jobs |-> Outcome(j)]

(* Every step keeps what the effects say about a job's row.                 *)
LEMMA LedgerStep ==
  ASSUME TypeOK, ExclusiveExecution, EffectLedger, [Next]_vars
  PROVE  EffectLedger'
<1> USE DEF TypeOK, ExclusiveExecution, EffectLedger, Executing, Held
<1>1. ASSUME NEW j \in Jobs, Enqueue(j) PROVE EffectLedger'
  BY <1>1 DEF Enqueue, bounds
<1>2. ASSUME NEW w \in Workers, Reap(w) PROVE EffectLedger'
  BY <1>2 DEF Reap, bounds
<1>3. ASSUME NEW w \in Workers, Claim(w) PROVE EffectLedger'
  <2> PICK S \in Batches :
        /\ status' = [j \in Jobs |-> IF j \in S THEN "running" ELSE status[j]]
        /\ pc' = [pc EXCEPT ![w] = IF S = {} THEN "idle" ELSE "batch"]
    BY <1>3 DEF Claim
  <2>1. \A j \in S : status[j] = "queued"
    BY DEF Batches, Claimable
  <2> QED
    BY <1>3, <2>1 DEF Claim
<1>4. ASSUME NEW w \in Workers, Load(w) PROVE EffectLedger'
  <2>1. UNCHANGED <<status, effects>> /\ pc'[w] # "returned"
    BY <1>4 DEF Load, table
  <2>2. \A v \in Workers : v # w => snap'[v] = snap[v] /\ pc'[v] = pc[v]
    BY <1>4 DEF Load
  <2> QED
    BY <2>1, <2>2
<1>5. ASSUME NEW w \in Workers, HandlerReturns(w) \/ HandlerRaises(w)
      PROVE  EffectLedger'
  <2> DEFINE job == snap[w].job
  <2>1. job \in Jobs /\ status[job] = "running" /\ UNCHANGED <<status, snap>>
    BY <1>5 DEF HandlerReturns, HandlerRaises, table
  <2>2. /\ \A j \in Jobs : effects'[j] >= effects[j] /\ effects'[j] \in 0..CountCap
        /\ \A j \in Jobs : effects'[j] # effects[j] => j = job /\ j \in Mailing
    BY <1>5, BumpType DEF HandlerReturns, HandlerRaises
  <2>3. \A v \in Workers : v # w => pc'[v] = pc[v]
    BY <1>5 DEF HandlerReturns, HandlerRaises
  <2>4. pc'[w] = "returned" /\ job \in Mailing => effects'[job] > 0
    BY <1>5, <2>1, BumpType DEF HandlerReturns, HandlerRaises
  <2>5. \A v \in Workers : pc[v] = "returned" => snap[v].job \in Jobs
    BY DEF Row
  <2>6. ASSUME NEW v \in Workers, pc'[v] = "returned", snap'[v].job \in Mailing
        PROVE  effects'[snap'[v].job] > 0
    <3>1. CASE v = w
      BY <2>1, <2>4, <2>6, <3>1
    <3>2. CASE v # w
      <4>1. pc[v] = "returned" /\ snap'[v] = snap[v] /\ snap[v].job \in Jobs
        BY <2>1, <2>3, <2>5, <2>6, <3>2
      <4>2. /\ effects[snap[v].job] > 0 /\ effects'[snap[v].job] >= effects[snap[v].job]
            /\ effects[snap[v].job] \in Int /\ effects'[snap[v].job] \in Int
        BY <2>2, <2>6, <4>1, BoundsAssumption
      <4> QED
        BY <4>1, <4>2
    <3> QED
      BY <3>1, <3>2
  <2> QED
    BY <2>1, <2>2, <2>6
<1>6. ASSUME NEW w \in Workers,
             FinalizeSuccess(w) \/ FinalizeRetry(w) \/ FinalizeFailed(w) \/ FinalizeUnknown(w)
      PROVE  EffectLedger'
  <2> DEFINE job == snap[w].job
  <2>1. job \in Jobs /\ status[job] = "running" /\ snap[w].status = "running" /\ NextJob(w)
    BY <1>6 DEF FinalizeSuccess, FinalizeRetry, FinalizeFailed, FinalizeUnknown
  <2>2. \A j \in Jobs \ {job} : status'[j] = status[j] /\ effects'[j] = effects[j]
    BY <1>6, <2>1 DEF FinalizeSuccess, FinalizeRetry, FinalizeFailed, FinalizeUnknown,
                      SetStatus
  <2>3. job \notin Mailing /\ status'[job] # "succeeded" => effects'[job] = 0
    BY <1>6, <2>1 DEF FinalizeSuccess, FinalizeRetry, FinalizeFailed, FinalizeUnknown,
                      SetStatus
  <2>4. status'[job] # "absent"
    BY <1>6, <2>1 DEF FinalizeSuccess, FinalizeRetry, FinalizeFailed, FinalizeUnknown,
                      SetStatus
  <2>5. \A v \in Workers : pc'[v] = "returned" =>
          v # w /\ pc[v] = "returned" /\ snap'[v] = snap[v]
    BY <2>1 DEF NextJob
  <2>6. \A v \in Workers : v # w /\ pc[v] = "returned" =>
          snap[v].job # job /\ snap[v].job \in Jobs
    BY <1>6 DEF FinalizeSuccess, FinalizeRetry, FinalizeFailed, FinalizeUnknown
  <2>7. ASSUME NEW v \in Workers, pc'[v] = "returned", snap'[v].job \in Mailing
        PROVE  effects'[snap'[v].job] > 0
    <3>1. v # w /\ pc[v] = "returned" /\ snap'[v] = snap[v]
      BY <2>5, <2>7
    <3>2. effects'[snap[v].job] = effects[snap[v].job]
      BY <2>2, <2>6, <3>1
    <3> QED
      BY <2>7, <3>1, <3>2
  <2> QED
    BY <2>1, <2>2, <2>3, <2>4, <2>7
<1>7. ASSUME NEW w \in Workers, HandlerKillsWorker(w) \/ Crash(w) PROVE EffectLedger'
  BY <1>7 DEF HandlerKillsWorker, Crash, Abandon, table
<1>8. ASSUME NEW j \in Jobs, OrphanExpires(j) \/ BatchOverruns(j) \/ BackoffEnds(j)
      PROVE  EffectLedger'
  BY <1>8 DEF OrphanExpires, BatchOverruns, BackoffEnds
<1>9. CASE UNCHANGED vars
  BY <1>9 DEF vars, table
<1> QED
  BY <1>1, <1>2, <1>3, <1>4, <1>5, <1>6, <1>7, <1>8, <1>9 DEF Next, WorkerStep
(* One step of the queue is one step of the contract, or none.              *)
LEMMA StepRefinesContract ==
  ASSUME TypeOK, TypeOK', ExclusiveExecution, EffectLedger, [Next]_vars
  PROVE  [Contract!Next]_(Contract!contractVars)
<1> USE DEF TypeOK, Executing, Held
<1> DEFINE Stutter == UNCHANGED <<outcome, effects>>
<1>0. ASSUME Stutter PROVE [Contract!Next]_(Contract!contractVars)
  BY <1>0 DEF Contract!contractVars, outcome
<1>1. ASSUME NEW j \in Jobs, Enqueue(j) PROVE Contract!Submit(j)
  BY <1>1 DEF Enqueue, Contract!Submit, Outcome
<1>2. ASSUME NEW w \in Workers, Reap(w) PROVE Stutter
  BY <1>2 DEF Reap, Outcome, outcome
<1>3. ASSUME NEW w \in Workers, Claim(w) PROVE Stutter
  <2> PICK S \in Batches :
        status' = [j \in Jobs |-> IF j \in S THEN "running" ELSE status[j]]
    BY <1>3 DEF Claim
  <2>1. \A j \in S : status[j] = "queued"
    BY DEF Batches, Claimable
  <2> QED
    BY <1>3, <2>1 DEF Claim, Outcome, outcome
<1>4. ASSUME NEW w \in Workers, HandlerReturns(w) \/ HandlerRaises(w)
      PROVE  Stutter \/ Contract!Send(snap[w].job)
  <2> DEFINE job == snap[w].job
  <2>1. job \in Jobs /\ status[job] = "running" /\ UNCHANGED status
    BY <1>4 DEF HandlerReturns, HandlerRaises, table, ExclusiveExecution
  <2>2. \/ UNCHANGED effects
        \/ job \in Mailing /\ effects[job] < CountCap
           /\ effects' = [effects EXCEPT ![job] = @ + 1]
    BY <1>4, <2>1 DEF HandlerReturns, HandlerRaises, Bump
  <2> QED
    BY <2>1, <2>2 DEF Contract!Send, Outcome, outcome
<1>5. ASSUME NEW w \in Workers,
             FinalizeSuccess(w) \/ FinalizeRetry(w) \/ FinalizeFailed(w) \/ FinalizeUnknown(w)
      PROVE  \/ Stutter
             \/ Contract!Apply(snap[w].job)
             \/ Contract!Delivered(snap[w].job)
             \/ Contract!GiveUp(snap[w].job)
  <2> DEFINE job == snap[w].job
  <2>1. job \in Jobs /\ status[job] = "running" /\ snap[w].status = "running"
    BY <1>5 DEF FinalizeSuccess, FinalizeRetry, FinalizeFailed, FinalizeUnknown,
                ExclusiveExecution
  <2>2. CASE FinalizeSuccess(w)
    <3>1. status' = [status EXCEPT ![job] = "succeeded"]
      BY <2>1, <2>2 DEF FinalizeSuccess, SetStatus
    <3>2. CASE job \in Mailing
      <4>1. effects[job] > 0 /\ UNCHANGED effects
        BY <2>2, <3>2 DEF FinalizeSuccess, EffectLedger
      <4>2. outcome' = [outcome EXCEPT ![job] = "succeeded"]
        BY <2>1, <3>1 DEF outcome, Outcome
      <4> QED
        BY <2>1, <3>2, <4>1, <4>2 DEF Contract!Delivered, outcome, Outcome
    <3>3. CASE job \notin Mailing
      <4>0. Bump(0) = 1
        BY BoundsAssumption, SettingsAssumption DEF Bump
      <4>1. effects[job] = 0
        BY <2>1, <3>3 DEF EffectLedger
      <4>2. effects' = [effects EXCEPT ![job] = 1]
        BY <2>2, <3>3, <4>0, <4>1 DEF FinalizeSuccess
      <4> QED
        BY <2>1, <3>1, <3>3, <4>1, <4>2 DEF Contract!Apply, Outcome
    <3> QED
      BY <3>2, <3>3
  <2>3. CASE FinalizeRetry(w)
    BY <2>1, <2>3 DEF FinalizeRetry, SetStatus, Outcome, outcome
  <2>4. CASE FinalizeFailed(w) \/ FinalizeUnknown(w)
    BY <2>1, <2>4 DEF FinalizeFailed, FinalizeUnknown, SetStatus, Contract!GiveUp, Outcome
  <2> QED
    BY <1>5, <2>2, <2>3, <2>4
<1>6. ASSUME NEW w \in Workers, Load(w) \/ HandlerKillsWorker(w) \/ Crash(w) PROVE Stutter
  BY <1>6 DEF Load, HandlerKillsWorker, Crash, table, Outcome, outcome
<1>7. ASSUME NEW j \in Jobs, OrphanExpires(j) \/ BatchOverruns(j) \/ BackoffEnds(j)
      PROVE  Stutter
  BY <1>7 DEF OrphanExpires, BatchOverruns, BackoffEnds, Outcome, outcome
<1>8. CASE UNCHANGED vars
  BY <1>0, <1>8 DEF vars, table, Outcome, outcome
<1>9. ASSUME NEW w \in Workers, pc[w] \in {"loaded", "returned", "raised", "unknown"}
      PROVE  snap[w].job \in Jobs
  BY <1>9 DEF Row
<1>10. ASSUME NEW w \in Workers, WorkerStep(w) PROVE [Contract!Next]_(Contract!contractVars)
  <2>1. CASE HandlerReturns(w) \/ HandlerRaises(w)
    BY <1>0, <1>4, <1>9, <2>1 DEF HandlerReturns, HandlerRaises, Contract!Next
  <2>2. CASE FinalizeSuccess(w) \/ FinalizeRetry(w) \/ FinalizeFailed(w) \/ FinalizeUnknown(w)
    <3>1. snap[w].job \in Jobs
      BY <1>9, <2>2 DEF FinalizeSuccess, FinalizeRetry, FinalizeFailed, FinalizeUnknown
    <3> QED
      BY <1>0, <1>5, <2>2, <3>1 DEF Contract!Next
  <2> QED
    BY <1>0, <1>2, <1>3, <1>6, <1>10, <2>1, <2>2 DEF WorkerStep
<1> QED
  BY <1>0, <1>1, <1>6, <1>7, <1>8, <1>10 DEF Next, Contract!Next

(* With batches that finish within the stale window the queue implements    *)
(* its contract for any number of jobs, workers and crashes: rows are       *)
(* written exactly once and with the success, mail precedes success, and a  *)
(* settled job is settled for good.                                         *)
THEOREM QueueImplementsContract == ~SlowWorkers => (Spec => ImplementsContract)
<1> SUFFICES ASSUME ~SlowWorkers PROVE Spec => ImplementsContract
  OBVIOUS
<1>1. Init => EffectLedger /\ Contract!Init
  BY DEF Init, EffectLedger, Contract!Init, Outcome
<1>2. TypeOK /\ ExclusiveExecution /\ EffectLedger /\ [Next]_vars => EffectLedger'
  BY LedgerStep
<1>3. TypeOK /\ TypeOK' /\ ExclusiveExecution /\ EffectLedger /\ [Next]_vars
        => [Contract!Next]_(Contract!contractVars)
  BY StepRefinesContract
<1>4. Spec => []ExclusiveExecution
  BY OneExecutor
<1> QED
  BY <1>1, <1>2, <1>3, <1>4, TypeCorrect, PTL DEF Spec, ImplementsContract, Contract!Spec

-----------------------------------------------------------------------------
(* A worker between two batches holds nothing, and the job it is running is *)
(* one of its batch.                                                        *)
InHand ==
    /\ \A w \in Workers : pc[w] \in {"idle", "reaped"} => Held(w) = {}
    /\ \A w \in Workers : Executing(w) => snap[w].job \in Held(w)

(* Every behaviour of the queue keeps its batches in hand.                  *)
LEMMA BatchesInHand == Spec => []InHand
<1>1. Init => InHand
  BY DEF Init, InHand, Held, Executing
<1>2. TypeOK /\ InHand /\ [Next]_vars => InHand'
  <2> SUFFICES ASSUME TypeOK, InHand, [Next]_vars PROVE InHand'
    OBVIOUS
  <2> USE DEF TypeOK, InHand, Held, Executing
  <2>1. ASSUME NEW w \in Workers, Reap(w) \/ Claim(w) PROVE InHand'
    BY <2>1 DEF Reap, Claim
  <2>2. ASSUME NEW w \in Workers, Load(w) PROVE InHand'
    BY <2>2 DEF Load
  <2>3. ASSUME NEW w \in Workers, HandlerReturns(w) \/ HandlerRaises(w) PROVE InHand'
    BY <2>3 DEF HandlerReturns, HandlerRaises
  <2>4. ASSUME NEW w \in Workers,
               FinalizeSuccess(w) \/ FinalizeRetry(w) \/ FinalizeFailed(w) \/ FinalizeUnknown(w)
        PROVE  InHand'
    BY <2>4 DEF FinalizeSuccess, FinalizeRetry, FinalizeFailed, FinalizeUnknown, NextJob
  <2>5. ASSUME NEW w \in Workers, HandlerKillsWorker(w) \/ Crash(w) PROVE InHand'
    BY <2>5 DEF HandlerKillsWorker, Crash, Abandon
  <2>6. ASSUME NEW j \in Jobs, \/ Enqueue(j) \/ OrphanExpires(j)
                               \/ BatchOverruns(j) \/ BackoffEnds(j)
        PROVE  InHand'
    BY <2>6 DEF Enqueue, OrphanExpires, BatchOverruns, BackoffEnds
  <2>7. CASE UNCHANGED vars
    BY <2>7 DEF vars
  <2> QED
    BY <2>1, <2>2, <2>3, <2>4, <2>5, <2>6, <2>7 DEF Next, WorkerStep
<1> QED
  BY <1>1, <1>2, TypeCorrect, PTL DEF Spec

-----------------------------------------------------------------------------
(* How often a job is claimed.                                              *)

(* Jobs no worker has in its hands: a claim of them is still to be paid.    *)
Unclaimed(j) ==
    \/ status[j] \in {"absent", "queued"}
    \/ status[j] = "running" /\ \A w \in Workers : j \notin Held(w)

(* RetryBudget is not inductive: a job that may be claimed once more must   *)
(* be below the ceiling.  A claim uses that room up; a retry gives it back  *)
(* only below MaxAttempts, and a crash by counting itself.                  *)
BudgetInv ==
    /\ RetryBudget
    /\ \A j \in Jobs : Unclaimed(j) => attempts[j] < MaxAttempts + crashes
    /\ \A w \in Workers : pc[w] = "unknown" => snap[w].job \in Unhandled

(* Every step of workers that finish in time keeps the room to claim.       *)
LEMMA BudgetStep ==
  ASSUME TypeOK, TypeOK', ExclusiveExecution, InHand, BudgetInv,
         ~SlowWorkers, Poison = {}, [Next]_vars
  PROVE  BudgetInv'
<1> USE BoundsAssumption, SettingsAssumption
    DEF TypeOK, BudgetInv, RetryBudget, Unclaimed, Held
<1>1. ASSUME NEW j \in Jobs, Enqueue(j) PROVE BudgetInv'
  BY <1>1 DEF Enqueue, bounds
<1>2. ASSUME NEW w \in Workers, Reap(w) PROVE BudgetInv'
  <2>1. \A j \in Jobs : stale[j] => \A v \in Workers : j \notin batch[v]
    BY DEF ExclusiveExecution
  <2> QED
    BY <1>2, <2>1 DEF Reap, bounds
<1>3. ASSUME NEW w \in Workers, Claim(w) PROVE BudgetInv'
  <2> PICK S \in Batches :
        /\ status' = [j \in Jobs |-> IF j \in S THEN "running" ELSE status[j]]
        /\ attempts' = [j \in Jobs |-> IF j \in S THEN Bump(attempts[j]) ELSE attempts[j]]
        /\ batch' = [batch EXCEPT ![w] = S]
        /\ pc' = [pc EXCEPT ![w] = IF S = {} THEN "idle" ELSE "batch"]
    BY <1>3 DEF Claim
  <2>1. S \subseteq Jobs /\ \A j \in S : status[j] = "queued"
    BY DEF Batches, Claimable
  <2>2. pc[w] = "reaped" /\ UNCHANGED <<snap, crashes>>
    BY <1>3 DEF Claim, bounds
  <2>3. \A j \in Jobs \ S : Unclaimed(j)' => Unclaimed(j)
    BY <2>1, <2>2 DEF InHand
  <2>4. \A j \in S : ~Unclaimed(j)'
    BY <2>1
  <2>5. \A j \in S : attempts'[j] <= MaxAttempts + crashes'
    BY <2>1, <2>2 DEF Bump
  <2>6. RetryBudget'
    BY <2>1, <2>2, <2>5
  <2>7. \A v \in Workers : pc'[v] = "unknown" => snap'[v].job \in Unhandled
    BY <2>2
  <2> QED
    BY <2>1, <2>2, <2>3, <2>4, <2>6, <2>7
<1>4. ASSUME NEW w \in Workers, Load(w) PROVE BudgetInv'
  BY <1>4 DEF Load, table, bounds
<1>5. ASSUME NEW w \in Workers, HandlerReturns(w) \/ HandlerRaises(w) PROVE BudgetInv'
  BY <1>5 DEF HandlerReturns, HandlerRaises, table, bounds
<1>6. ASSUME NEW w \in Workers,
             FinalizeSuccess(w) \/ FinalizeRetry(w) \/ FinalizeFailed(w) \/ FinalizeUnknown(w)
      PROVE  BudgetInv'
  <2> DEFINE job == snap[w].job
  <2>1. /\ job \in Jobs /\ job \in batch[w] /\ status[job] = "running"
        /\ snap[w].status = "running" /\ snap[w].attempts = attempts[job]
        /\ NextJob(w) /\ UNCHANGED <<attempts, crashes>>
    BY <1>6 DEF FinalizeSuccess, FinalizeRetry, FinalizeFailed, FinalizeUnknown, bounds,
                ExclusiveExecution, Executing
  <2>2. \A j \in Jobs \ {job} : status'[j] = status[j]
    BY <1>6, <2>1 DEF FinalizeSuccess, FinalizeRetry, FinalizeFailed, FinalizeUnknown, SetStatus
  <2>3. \A j \in Jobs \ {job} : Unclaimed(j)' => Unclaimed(j)
    BY <2>1, <2>2 DEF NextJob
  <2>4. /\ status'[job] \in {"succeeded", "failed", "queued"}
        /\ status'[job] = "failed" => job \in Unhandled \/ attempts[job] >= MaxAttempts
        /\ status'[job] = "queued" => attempts[job] < MaxAttempts
    BY <1>6, <2>1 DEF FinalizeSuccess, FinalizeRetry, FinalizeFailed, FinalizeUnknown, SetStatus
  <2>5. \A v \in Workers : pc'[v] = "unknown" => pc[v] = "unknown" /\ snap'[v] = snap[v]
    BY <2>1 DEF NextJob
  <2>6. \A j \in Jobs : Unclaimed(j)' => attempts'[j] < MaxAttempts + crashes'
    BY <2>1, <2>3, <2>4
  <2>7. RetryBudget'
    BY <2>1, <2>2, <2>4
  <2> QED
    BY <2>5, <2>6, <2>7
<1>7. ASSUME NEW w \in Workers, Crash(w) PROVE BudgetInv'
  <2>1. crashes' = crashes + 1 /\ UNCHANGED <<status, attempts>>
    BY <1>7 DEF Crash, table
  <2>2. \A v \in Workers : pc'[v] = "unknown" => pc[v] = "unknown" /\ snap'[v] = snap[v]
    BY <1>7 DEF Crash, Abandon
  <2> QED
    BY <2>1, <2>2
<1>8. ASSUME NEW w \in Workers, HandlerKillsWorker(w) PROVE BudgetInv'
  BY <1>8 DEF HandlerKillsWorker
<1>9. ASSUME NEW j \in Jobs, OrphanExpires(j) \/ BatchOverruns(j) \/ BackoffEnds(j)
      PROVE  BudgetInv'
  BY <1>9 DEF OrphanExpires, BatchOverruns, BackoffEnds, bounds
<1>10. CASE UNCHANGED vars
  BY <1>10 DEF vars, table, bounds
<1> QED
  BY <1>1, <1>2, <1>3, <1>4, <1>5, <1>6, <1>7, <1>8, <1>9, <1>10 DEF Next, WorkerStep

(* A job is given up only after MaxAttempts claims (or at once when nothing *)
(* handles it), and nothing but a crash makes it claimed more often: the    *)
(* attempts bookkeeping of claim_batch, _finalize_failure and reap_stale.   *)
THEOREM RetriesStayInBudget ==
  ~SlowWorkers /\ Poison = {} => (Spec => []RetryBudget)
<1> SUFFICES ASSUME ~SlowWorkers, Poison = {} PROVE Spec => []RetryBudget
  OBVIOUS
<1>1. Init => BudgetInv
  BY BoundsAssumption, SettingsAssumption
  DEF Init, BudgetInv, RetryBudget, Unclaimed, Held
<1>2. TypeOK /\ TypeOK' /\ ExclusiveExecution /\ InHand /\ BudgetInv /\ [Next]_vars => BudgetInv'
  BY BudgetStep
<1>3. BudgetInv => RetryBudget
  BY DEF BudgetInv
<1>4. Spec => []ExclusiveExecution
  BY OneExecutor
<1> QED
  BY <1>1, <1>2, <1>3, <1>4, BatchesInHand, TypeCorrect, PTL DEF Spec

-----------------------------------------------------------------------------
(* What a claim pays for.                                                   *)

(* The worker has had the effect of job j, or will not have it any more.    *)
Spent(w, j) ==
    /\ snap[w].job = j
    /\ pc[w] = "raised" \/ (pc[w] = "returned" /\ j \in Mailing)

(* The workers that still may bring about the effect of job j.              *)
Owing(j) == {w \in Workers : j \in Held(w) /\ ~Spent(w, j)}

(* EffectsPaidFor is not inductive: each effect still to come must have its *)
(* claim already.  (Once attempts has reached CountCap nothing is counted.) *)
Paid(j) == attempts[j] = CountCap \/ effects[j] + Cardinality(Owing(j)) <= attempts[j]

(* The three ways a step can change the account of one job: nobody new owes *)
(* and nothing happens; one worker pays what it owed; one worker claims.    *)
LEMMA AccountBalances ==
  ASSUME TypeOK, TypeOK', NEW j \in Jobs, Paid(j),
         \/ /\ Owing(j)' \subseteq Owing(j)
            /\ effects'[j] = effects[j] /\ attempts'[j] = attempts[j]
         \/ /\ \E w \in Owing(j) : Owing(j)' = Owing(j) \ {w}
            /\ effects'[j] \in {effects[j], Bump(effects[j])} /\ attempts'[j] = attempts[j]
         \/ /\ \E w \in Workers : Owing(j)' = Owing(j) \cup {w}
            /\ effects'[j] = effects[j] /\ attempts'[j] = Bump(attempts[j])
  PROVE  Paid(j)'
<1> DEFINE before == Cardinality(Owing(j))
           after == Cardinality(Owing(j)')
<1>1. IsFiniteSet(Owing(j)) /\ Owing(j)' \subseteq Workers /\ IsFiniteSet(Owing(j)')
  BY WorkersAssumption, FS_Subset DEF Owing
<1>2. before \in Nat /\ after \in Nat
  BY <1>1, FS_CardinalityType
<1>3. /\ effects[j] \in Nat /\ effects'[j] \in Nat /\ attempts[j] \in 0..CountCap
      /\ attempts'[j] \in 0..CountCap
  BY BoundsAssumption DEF TypeOK
<1>4. CASE /\ Owing(j)' \subseteq Owing(j)
           /\ effects'[j] = effects[j] /\ attempts'[j] = attempts[j]
  <2>1. after <= before
    BY <1>1, <1>4, FS_Subset
  <2> QED
    BY <1>2, <1>3, <1>4, <2>1 DEF Paid
<1>5. CASE /\ \E w \in Owing(j) : Owing(j)' = Owing(j) \ {w}
           /\ effects'[j] \in {effects[j], Bump(effects[j])} /\ attempts'[j] = attempts[j]
  <2>1. after = before - 1
    BY <1>1, <1>5, FS_RemoveElement
  <2>2. effects'[j] <= effects[j] + 1
    BY <1>3, <1>5 DEF Bump
  <2> HIDE DEF before, after
  <2>3. attempts[j] = CountCap \/ effects[j] + before <= attempts[j]
    BY DEF Paid, before
  <2>4. attempts'[j] = CountCap \/ effects'[j] + after <= attempts'[j]
    BY <1>2, <1>3, <1>5, <2>1, <2>2, <2>3
  <2> QED
    BY <2>4 DEF Paid, after
<1>6. CASE /\ \E w \in Workers : Owing(j)' = Owing(j) \cup {w}
           /\ effects'[j] = effects[j] /\ attempts'[j] = Bump(attempts[j])
  <2>1. after <= before + 1
    BY <1>1, <1>2, <1>6, FS_AddElement
  <2>2. attempts'[j] = CountCap \/ attempts'[j] = attempts[j] + 1
    BY <1>3, <1>6, BoundsAssumption DEF Bump
  <2> HIDE DEF before, after
  <2>3. attempts[j] = CountCap \/ effects[j] + before <= attempts[j]
    BY DEF Paid, before
  <2>4. attempts'[j] = CountCap \/ effects'[j] + after <= attempts'[j]
    BY <1>2, <1>3, <1>6, <2>1, <2>2, <2>3, BoundsAssumption DEF Bump
  <2> QED
    BY <2>4 DEF Paid, after
<1> QED
  BY <1>4, <1>5, <1>6

(* Every step of the queue, slow batches included, keeps the account.       *)
LEMMA PaidStep ==
  ASSUME TypeOK, TypeOK', InHand, NEW j \in Jobs, Paid(j), [Next]_vars
  PROVE  Paid(j)'
<1> USE DEF TypeOK, InHand, Held, Executing, Owing, Spent
<1> DEFINE Idle == /\ Owing(j)' \subseteq Owing(j)
                   /\ effects'[j] = effects[j] /\ attempts'[j] = attempts[j]
           Pays(w) == /\ w \in Owing(j) /\ Owing(j)' = Owing(j) \ {w}
                      /\ effects'[j] \in {effects[j], Bump(effects[j])}
                      /\ attempts'[j] = attempts[j]
           Claims(w) == /\ Owing(j)' = Owing(j) \cup {w}
                        /\ effects'[j] = effects[j]
                        /\ attempts'[j] = Bump(attempts[j])
<1>1. ASSUME NEW w \in Workers, Claim(w) PROVE Idle \/ Claims(w)
  <2> PICK S \in Batches :
        /\ attempts' = [k \in Jobs |-> IF k \in S THEN Bump(attempts[k]) ELSE attempts[k]]
        /\ batch' = [batch EXCEPT ![w] = S]
        /\ pc' = [pc EXCEPT ![w] = IF S = {} THEN "idle" ELSE "batch"]
    BY <1>1 DEF Claim
  <2>1. pc[w] = "reaped" /\ batch[w] = {} /\ UNCHANGED <<snap, effects>>
    BY <1>1 DEF Claim
  <2>2. CASE j \in S
    BY <2>1, <2>2
  <2>3. CASE j \notin S
    BY <2>1, <2>3
  <2> QED
    BY <2>2, <2>3
<1>2. ASSUME NEW w \in Workers, HandlerReturns(w) PROVE Idle \/ Pays(w)
  <2>1. /\ pc[w] = "loaded" /\ snap[w].job \in batch[w]
        /\ pc' = [pc EXCEPT ![w] = "returned"] /\ UNCHANGED <<attempts, batch, snap>>
    BY <1>2 DEF HandlerReturns, table
  <2>2. CASE j = snap[w].job /\ j \in Mailing
    BY <1>2, <2>1, <2>2 DEF HandlerReturns
  <2>3. CASE ~(j = snap[w].job /\ j \in Mailing)
    BY <1>2, <2>1, <2>3 DEF HandlerReturns
  <2> QED
    BY <2>2, <2>3
<1>3. ASSUME NEW w \in Workers, HandlerRaises(w) PROVE Idle \/ Pays(w)
  <2>1. /\ pc[w] = "loaded" /\ snap[w].job \in batch[w]
        /\ pc' = [pc EXCEPT ![w] = "raised"] /\ UNCHANGED <<attempts, batch, snap>>
    BY <1>3 DEF HandlerRaises, table
  <2>2. CASE j = snap[w].job
    BY <1>3, <2>1, <2>2 DEF HandlerRaises
  <2>3. CASE j # snap[w].job
    BY <1>3, <2>1, <2>3 DEF HandlerRaises
  <2> QED
    BY <2>2, <2>3
<1>4. ASSUME NEW w \in Workers, FinalizeSuccess(w) PROVE Idle \/ Pays(w)
  <2>1. /\ pc[w] = "returned" /\ snap[w].job \in batch[w] /\ NextJob(w)
        /\ UNCHANGED attempts
    BY <1>4 DEF FinalizeSuccess
  <2>2. CASE j = snap[w].job /\ j \notin Mailing
    BY <1>4, <2>1, <2>2 DEF FinalizeSuccess, NextJob
  <2>3. CASE ~(j = snap[w].job /\ j \notin Mailing)
    BY <1>4, <2>1, <2>3 DEF FinalizeSuccess, NextJob
  <2> QED
    BY <2>2, <2>3
<1>5. ASSUME NEW w \in Workers, FinalizeRetry(w) \/ FinalizeFailed(w) \/ FinalizeUnknown(w)
      PROVE  Idle
  BY <1>5 DEF FinalizeRetry, FinalizeFailed, FinalizeUnknown, NextJob
<1>6. ASSUME NEW w \in Workers, Reap(w) \/ Load(w) PROVE Idle
  BY <1>6 DEF Reap, Load, table
<1>7. ASSUME NEW w \in Workers, HandlerKillsWorker(w) \/ Crash(w) PROVE Idle
  BY <1>7 DEF HandlerKillsWorker, Crash, Abandon, table
<1>8. ASSUME NEW k \in Jobs, Enqueue(k) \/ OrphanExpires(k) \/ BatchOverruns(k) \/ BackoffEnds(k)
      PROVE  Idle
  BY <1>8 DEF Enqueue, OrphanExpires, BatchOverruns, BackoffEnds
<1>9. ASSUME UNCHANGED vars PROVE Idle
  BY <1>9 DEF vars, table
<1>10. Idle \/ \E w \in Workers : Pays(w) \/ Claims(w)
  <2> HIDE DEF Idle, Pays, Claims
  <2> QED
    BY <1>1, <1>2, <1>3, <1>4, <1>5, <1>6, <1>7, <1>8, <1>9 DEF Next, WorkerStep
<1> QED
  BY <1>10, AccountBalances

(* The effect of a job - a mail, a notification, the rows of its handler -  *)
(* never happens more often than the job was claimed, however many workers  *)
(* crash, overrun the stale window or run the same job at once (claim_batch *)
(* counts before the handler runs, _execute and the finalizers after).      *)
THEOREM ClaimsPayForEffects == Spec => []EffectsPaidFor
<1> DEFINE AllPaid == \A j \in Jobs : Paid(j)
<1>1. Init => AllPaid
  <2> SUFFICES ASSUME Init, NEW j \in Jobs PROVE Paid(j)
    OBVIOUS
  <2>1. Owing(j) = {}
    BY DEF Init, Owing, Held
  <2> QED
    BY <2>1, FS_EmptySet DEF Init, Paid
<1>2. TypeOK /\ TypeOK' /\ InHand /\ AllPaid /\ [Next]_vars => AllPaid'
  BY PaidStep
<1>3. TypeOK /\ AllPaid => EffectsPaidFor
  <2> SUFFICES ASSUME TypeOK, NEW j \in Jobs, Paid(j) PROVE effects[j] <= attempts[j]
    BY DEF EffectsPaidFor
  <2>1. Cardinality(Owing(j)) \in Nat
    BY WorkersAssumption, FS_Subset, FS_CardinalityType DEF Owing
  <2> QED
    BY <2>1, BoundsAssumption DEF TypeOK, Paid
<1> HIDE DEF AllPaid
<1> QED
  BY <1>1, <1>2, <1>3, TypeCorrect, BatchesInHand, PTL DEF Spec
-----------------------------------------------------------------------------
(* Notifications.  The invariant follows an event through its handler: what *)
(* the handler has written, has yet to look up and has stashed are rows of  *)
(* the event its transaction published last, so that undoing the savepoint  *)
(* undoes just that, at whatever point the handler breaks off.              *)

(* The number of the event a notification is about.                         *)
Num(n) == n.event[2]

(* A notification names a transaction and one of its events.                *)
LEMMA NoteParts ==
  ASSUME NEW n \in Notes
  PROVE  /\ TxnOf(n) \in Txns /\ Num(n) \in 1..MaxEvents /\ n.user \in Users
         /\ n.event = <<TxnOf(n), Num(n)>>
  BY DEF Notes, Events, TxnOf, Num

(* The notifications of one event carry its transaction and its number.     *)
LEMMA NotesOfEvent ==
  ASSUME NEW t \in Txns, NEW k \in 1..MaxEvents, NEW us \in SUBSET Users,
         NEW n \in NotesOf(<<t, k>>, us)
  PROVE  n \in Notes /\ TxnOf(n) = t /\ Num(n) = k /\ n.user \in us
  BY DEF NotesOf, Notes, Events, TxnOf, Num

(* Those of the last event are told by transaction and number.              *)
LEMMA NotesOfLast ==
  ASSUME NEW t \in Txns, NEW n \in Notes
  PROVE  n \in OfLast(t) <=> TxnOf(n) = t /\ Num(n) = count[t]
  BY NoteParts DEF OfLast, LastEvent

-----------------------------------------------------------------------------
States == {"open", "committed", "rolledback"}

Shape ==
    /\ members \subseteq Users
    /\ state \in [Txns -> States]
    /\ count \in [Txns -> 0..MaxEvents]
    /\ rows \subseteq Notes /\ mail \subseteq Notes /\ pushed \subseteq Notes
    /\ handling \in [Txns -> BOOLEAN]
    /\ gate \in [Txns -> SUBSET Notes] /\ stash \in [Txns -> SUBSET Notes]
    /\ stream \in [Users -> {"off", "counted", "on"}]
    /\ seen \in [Users -> SUBSET Notes]

(* What a handler is working on belongs to its transaction's last event.    *)
AtWork ==
    \A t \in Txns :
        /\ handling[t] => state[t] = "open"
        /\ ~handling[t] => gate[t] = {} /\ stash[t] = {}
        /\ \A n \in gate[t] \cup stash[t] :
              n \in rows /\ TxnOf(n) = t /\ Num(n) = count[t]

(* A row is of an event that was published, by a transaction not undone; an *)
(* e-mail job is of a row; a row that should have one is still in the gate. *)
Written ==
    /\ \A n \in rows : Num(n) <= count[TxnOf(n)] /\ state[TxnOf(n)] # "rolledback"
    /\ \A n \in mail : n \in rows /\ n.user \in WantsMail
    /\ \A n \in rows : n.user \in WantsMail => n \in mail \/ n \in gate[TxnOf(n)]

(* Only committed rows are read.                                            *)
ReadAfterCommit == \A n \in read : n \in rows /\ Committed(n)

(* A frame left with its savepoint: its row is there, and its event is not  *)
(* the one whose handler is still at work.                                  *)
Sent ==
    \A n \in pushed :
        /\ n \in rows \/ state[TxnOf(n)] = "rolledback"
        /\ Num(n) <= count[TxnOf(n)]
        /\ handling[TxnOf(n)] => Num(n) # count[TxnOf(n)]

NotificationsInv == Shape /\ AtWork /\ Written /\ ReadAfterCommit /\ Sent

(* The handler's savepoint opens with rows, stash and gate of a new event.  *)
LEMMA PublishStep ==
  ASSUME NotificationsInv, NEW t \in Txns, PublishHeard(t)
  PROVE  NotificationsInv'
<1> DEFINE k == count[t] + 1
           new == NotesOf(<<t, k>>, Recipients(t))
<1>1. k \in 1..MaxEvents /\ Recipients(t) \in SUBSET Users
  BY NotificationsAssumption DEF PublishHeard, Published, NotificationsInv, Shape, Recipients
<1>2. new \subseteq Notes /\ \A n \in new : TxnOf(n) = t /\ Num(n) = k
  BY <1>1, NotesOfEvent
<1>3. /\ rows' = rows \cup new
      /\ stash' = [stash EXCEPT ![t] = @ \cup new]
      /\ gate' = [gate EXCEPT ![t] = new]
      /\ count' = [count EXCEPT ![t] = k]
      /\ handling' = [handling EXCEPT ![t] = TRUE]
      /\ state[t] = "open" /\ ~handling[t]
      /\ UNCHANGED <<members, state, mail, read, pushed, stream, seen>>
  BY DEF PublishHeard, Published, live
<1> HIDE DEF k, new
<1>4. \A n \in Notes : TxnOf(n) \in Txns /\ Num(n) \in Int
  BY NoteParts
<1>5. \A u \in Txns : count[u] \in Int /\ count'[u] >= count[u] /\ k = count[t] + 1
  BY <1>3 DEF NotificationsInv, Shape, k
<1>6. Shape'
  BY <1>1, <1>2, <1>3 DEF NotificationsInv, Shape
<1>7. AtWork'
  BY <1>2, <1>3, <1>4, <1>5 DEF NotificationsInv, Shape, AtWork
<1>8. Written'
  <2>1. \A n \in rows' : Num(n) <= count'[TxnOf(n)] /\ state'[TxnOf(n)] # "rolledback"
    BY <1>2, <1>3, <1>4, <1>5 DEF NotificationsInv, Shape, Written
  <2>2. \A n \in rows' : n.user \in WantsMail => n \in mail' \/ n \in gate'[TxnOf(n)]
    BY <1>2, <1>3, <1>4 DEF NotificationsInv, Shape, AtWork, Written
  <2> QED
    BY <1>3, <2>1, <2>2 DEF NotificationsInv, Written
<1>9. ReadAfterCommit'
  BY <1>3 DEF NotificationsInv, ReadAfterCommit, Committed
<1>10. Sent'
  BY <1>2, <1>3, <1>4, <1>5 DEF NotificationsInv, Shape, Sent
<1> QED
  BY <1>6, <1>7, <1>8, <1>9, <1>10 DEF NotificationsInv

(* One row leaves the gate, with its e-mail job if its user wants one.      *)
LEMMA GateStep ==
  ASSUME NotificationsInv, NEW t \in Txns, GateMail(t)
  PROVE  NotificationsInv'
<1> PICK n \in gate[t] :
      /\ gate' = [gate EXCEPT ![t] = @ \ {n}]
      /\ mail' = mail \cup ({n} \cap {m \in Notes : m.user \in WantsMail})
  BY DEF GateMail
<1>1. UNCHANGED <<members, state, count, rows, read, handling, stash, pushed, stream, seen>>
  BY DEF GateMail, live
<1>2. n \in rows /\ TxnOf(n) = t /\ n \in Notes
  BY DEF NotificationsInv, Shape, AtWork
<1>3. \A m \in Notes : TxnOf(m) \in Txns
  BY NoteParts
<1>4. Shape' /\ AtWork'
  BY <1>1, <1>2 DEF NotificationsInv, Shape, AtWork
<1>5. Written'
  BY <1>1, <1>2, <1>3 DEF NotificationsInv, Shape, Written
<1> QED
  BY <1>1, <1>4, <1>5 DEF NotificationsInv, ReadAfterCommit, Committed, Sent

(* The frames of the stash leave, and the handler is done.                  *)
LEMMA ReleaseStep ==
  ASSUME NotificationsInv, NEW t \in Txns, Release(t)
  PROVE  NotificationsInv'
<1> PICK sent \in SUBSET stash[t] : Push(sent)
  BY DEF Release
<1>1. /\ handling[t] /\ gate[t] = {}
      /\ handling' = [handling EXCEPT ![t] = FALSE]
      /\ stash' = [stash EXCEPT ![t] = {}]
      /\ UNCHANGED <<members, state, count, rows, mail, read, gate, stream>>
  BY DEF Release
<1>2. pushed' = pushed \cup sent
  BY DEF Push
<1>3. sent \subseteq Notes /\ \A n \in sent : n \in rows /\ TxnOf(n) = t /\ Num(n) = count[t]
  BY DEF NotificationsInv, Shape, AtWork
<1>4. \A n \in Notes : TxnOf(n) \in Txns /\ Num(n) \in Int
  BY NoteParts
<1>5. seen' \in [Users -> SUBSET Notes]
  BY <1>3 DEF Push, NotificationsInv, Shape
<1>6. Shape' /\ AtWork'
  BY <1>1, <1>2, <1>3, <1>5 DEF NotificationsInv, Shape, AtWork
<1>7. Sent'
  BY <1>1, <1>2, <1>3, <1>4 DEF NotificationsInv, Shape, Sent
<1> QED
  BY <1>1, <1>6, <1>7 DEF NotificationsInv, Written, ReadAfterCommit, Committed

(* A handler that raises takes back the rows and jobs of its event, and     *)
(* nothing else.                                                            *)
LEMMA RaiseStep ==
  ASSUME NotificationsInv, NEW t \in Txns, Raise(t)
  PROVE  NotificationsInv'
<1>1. /\ handling[t]
      /\ handling' = [handling EXCEPT ![t] = FALSE]
      /\ gate' = [gate EXCEPT ![t] = {}]
      /\ stash' = [stash EXCEPT ![t] = {}]
      /\ rows' = rows \ OfLast(t)
      /\ mail' = mail \ OfLast(t)
      /\ UNCHANGED <<members, state, count, read, pushed, stream, seen>>
  BY DEF Raise, live
<1>2. \A n \in Notes : /\ TxnOf(n) \in Txns /\ Num(n) \in Int
                       /\ n \in OfLast(t) <=> TxnOf(n) = t /\ Num(n) = count[t]
  BY NoteParts, NotesOfLast
<1>3. Shape'
  BY <1>1 DEF NotificationsInv, Shape
<1>4. AtWork'
  BY <1>1, <1>2 DEF NotificationsInv, Shape, AtWork
<1>5. Written'
  BY <1>1, <1>2 DEF NotificationsInv, Shape, AtWork, Written
<1>6. ReadAfterCommit'
  BY <1>1, <1>2 DEF NotificationsInv, Shape, AtWork, ReadAfterCommit, Committed
<1>7. Sent'
  BY <1>1, <1>2 DEF NotificationsInv, Shape, Sent
<1> QED
  BY <1>3, <1>4, <1>5, <1>6, <1>7 DEF NotificationsInv

(* A transaction ends outside of its handlers, for good or undone.          *)
LEMMA EndStep ==
  ASSUME NotificationsInv, NEW t \in Txns, Commit(t) \/ Rollback(t)
  PROVE  NotificationsInv'
<1>1. \A n \in Notes : TxnOf(n) \in Txns
  BY NoteParts
<1>2. CASE Commit(t)
  <2>1. /\ state[t] = "open" /\ ~handling[t] /\ state' = [state EXCEPT ![t] = "committed"]
        /\ UNCHANGED <<members, count, rows, mail, read, handling, gate, stash,
                       pushed, stream, seen>>
    BY <1>2 DEF Commit, handler, live
  <2>2. Shape' /\ AtWork' /\ Written'
    BY <1>1, <2>1 DEF NotificationsInv, Shape, States, AtWork, Written
  <2>3. ReadAfterCommit' /\ Sent'
    BY <1>1, <2>1 DEF NotificationsInv, Shape, ReadAfterCommit, Committed, Sent
  <2> QED
    BY <2>2, <2>3 DEF NotificationsInv
<1>3. CASE Rollback(t)
  <2>1. /\ state[t] = "open" /\ ~handling[t] /\ state' = [state EXCEPT ![t] = "rolledback"]
        /\ rows' = {n \in rows : TxnOf(n) # t} /\ mail' = {n \in mail : TxnOf(n) # t}
        /\ UNCHANGED <<members, count, read, handling, gate, stash, pushed, stream, seen>>
    BY <1>3 DEF Rollback, handler, live
  <2>2. Shape' /\ AtWork' /\ Written'
    BY <1>1, <2>1 DEF NotificationsInv, Shape, States, AtWork, Written
  <2>3. ReadAfterCommit' /\ Sent'
    BY <1>1, <2>1 DEF NotificationsInv, Shape, ReadAfterCommit, Committed, Sent
  <2> QED
    BY <2>2, <2>3 DEF NotificationsInv
<1> QED
  BY <1>2, <1>3

(* Readers, streams and new members leave rows, jobs and frames alone.      *)
LEMMA ReaderStep ==
  ASSUME NotificationsInv,
         \/ \E u \in Users : UserStep(u)
         \/ \E n \in Notes : MarkRead(n)
         \/ UNCHANGED notificationVars
  PROVE  NotificationsInv'
<1>1. UNCHANGED <<state, count, rows, mail, handling, gate, stash, pushed>>
  BY DEF UserStep, OpenStream, Subscribe, Disconnect, MarkAllRead, Join, MarkRead, notificationVars,
         handler, live
<1>2. members' \subseteq Users
  BY DEF UserStep, OpenStream, Subscribe, Disconnect, MarkAllRead, Join, MarkRead, notificationVars,
         NotificationsInv, Shape
<1>3. /\ stream' \in [Users -> {"off", "counted", "on"}]
      /\ seen' \in [Users -> SUBSET Notes]
  BY DEF UserStep, OpenStream, Subscribe, Disconnect, MarkAllRead, Join, MarkRead, notificationVars,
         live, Unread, NotificationsInv, Shape
<1>4. \A n \in read' : n \in read \/ (n \in rows /\ Committed(n))
  <2>1. ASSUME NEW u \in Users, UserStep(u)
        PROVE  UNCHANGED read \/ read' = read \cup Unread(u)
    BY <2>1 DEF UserStep, OpenStream, Subscribe, Disconnect, MarkAllRead, Join
  <2>2. ASSUME NEW n \in Notes, MarkRead(n)
        PROVE  n \in Unread(n.user) /\ read' = read \cup {n}
    BY <2>2 DEF MarkRead
  <2>3. \A u, n : n \in Unread(u) => n \in rows /\ Committed(n)
    BY DEF Unread
  <2>4. CASE \E u \in Users : UserStep(u)
    BY <2>1, <2>3, <2>4 DEF Committed
  <2>5. CASE \E n \in Notes : MarkRead(n)
    BY <2>2, <2>3, <2>5 DEF Committed
  <2>6. CASE UNCHANGED notificationVars
    BY <2>6 DEF notificationVars, Committed
  <2> QED
    BY <2>4, <2>5, <2>6
<1> QED
  BY <1>1, <1>2, <1>3, <1>4
  DEF NotificationsInv, Shape, AtWork, Written, ReadAfterCommit, Committed, Sent

(* The invariant holds in every reachable state.                            *)
LEMMA NotificationsInductive == NotificationsSpec => []NotificationsInv
<1>1. NotificationsInit => NotificationsInv
  BY NotificationsAssumption
  DEF NotificationsInit, NotificationsInv, Shape, States, AtWork, Written, ReadAfterCommit, Sent
<1>2. NotificationsInv /\ [NotificationsNext]_notificationVars => NotificationsInv'
  <2> SUFFICES ASSUME NotificationsInv, [NotificationsNext]_notificationVars PROVE NotificationsInv'
    OBVIOUS
  <2>1. ASSUME NEW t \in Txns, PublishUnheard(t) PROVE NotificationsInv'
    <3>1. /\ count' = [count EXCEPT ![t] = @ + 1] /\ count[t] < MaxEvents /\ ~handling[t]
          /\ UNCHANGED <<members, state, rows, mail, read, handling, gate, stash,
                         pushed, stream, seen>>
      BY <2>1 DEF PublishUnheard, Published, handler, live
    <3>2. \A n \in Notes : TxnOf(n) \in Txns /\ Num(n) \in Int
      BY NoteParts
    <3>3. Shape' /\ AtWork'
      BY <3>1, NotificationsAssumption DEF NotificationsInv, Shape, AtWork
    <3>4. Written' /\ ReadAfterCommit' /\ Sent'
      BY <3>1, <3>2 DEF NotificationsInv, Shape, Written, ReadAfterCommit, Committed, Sent
    <3> QED
      BY <3>3, <3>4 DEF NotificationsInv
  <2> QED
    BY <2>1, PublishStep, GateStep, ReleaseStep, RaiseStep, EndStep, ReaderStep
    DEF NotificationsNext, TxnStep
<1> QED
  BY <1>1, <1>2, PTL DEF NotificationsSpec

(* Every variable keeps its type, and only rows that exist are read.        *)
THEOREM NotificationsTypes == NotificationsSpec => []NotificationsTypeOK
<1>1. NotificationsInv => NotificationsTypeOK
  BY DEF NotificationsInv, Shape, States, AtWork, ReadAfterCommit, NotificationsTypeOK
<1> QED
  BY <1>1, NotificationsInductive, PTL

(* Outside a handler there is an e-mail job exactly for the notifications   *)
(* of those who want mail, wherever handlers were broken off and whichever  *)
(* transactions were rolled back (registry.py writes both in the savepoint).*)
THEOREM MailMatchesRows == NotificationsSpec => []MailIffRow
<1>1. NotificationsInv => MailIffRow
  <2> SUFFICES ASSUME NotificationsInv, NEW t \in Txns, ~handling[t]
               PROVE  {n \in mail : TxnOf(n) = t}
                        = {n \in rows : TxnOf(n) = t /\ n.user \in WantsMail}
    BY DEF MailIffRow
  <2> QED
    BY DEF NotificationsInv, AtWork, Written
<1> QED
  BY <1>1, NotificationsInductive, PTL

(* What a broken handler stashed is never pushed by a later one: a frame is *)
(* of a row that exists, unless its whole transaction was rolled back (the  *)
(* after_commit and after_rollback listeners of session.py).                *)
THEOREM FramesFollowRows == NotificationsSpec => []FramesHaveRows
<1>1. NotificationsInv => FramesHaveRows
  BY DEF NotificationsInv, Sent, FramesHaveRows
<1> QED
  BY <1>1, NotificationsInductive, PTL
=============================================================================
