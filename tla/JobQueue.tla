------------------------------ MODULE JobQueue ------------------------------
(***************************************************************************)
(* The background job queue: the jobs table and the worker processes that  *)
(* drain it (src/app/worker/runner.py, src/app/worker/__main__.py).        *)
(*                                                                         *)
(* A worker iterates run_once: it commits the stale reaper, commits the    *)
(* claim of a batch, then runs the claimed jobs one after the other.  The  *)
(* rows were expired by the claim's commit, so each row is read again just *)
(* before its own handler runs; that snapshot is what the finalizers       *)
(* compare and count with, and the ORM writes only the columns that differ *)
(* from it, without looking at the row again.                              *)
(*                                                                         *)
(* A job is its rank in created_at order.  Of time, the model keeps the    *)
(* two comparisons the code makes: stale[j] says that updated_at of a      *)
(* running row is older than WORKER_STALE_SECONDS, delayed[j] that         *)
(* run_after is still in the future.                                       *)
(***************************************************************************)
EXTENDS Integers, FiniteSets

CONSTANTS
    Jobs,          \* the rows that may be enqueued: a set of naturals, the rank in created_at order
    Workers,       \* worker processes running main_loop
    BatchSize,     \* WORKER_BATCH_SIZE
    MaxAttempts,   \* WORKER_MAX_ATTEMPTS
    Mailing,       \* jobs whose handler acts outside the database (email.notification)
    Unhandled,     \* jobs of a type with no registered handler (roadmap.replan)
    Poison,        \* jobs whose handler takes the process down with it (out of memory)
    SlowWorkers,   \* may a live worker hold a batch longer than WORKER_STALE_SECONDS?
    CountCap,      \* bound: attempts and effects are counted up to CountCap
    MaxCrashes,    \* bound: number of crashes a worker suffers outside a Poison handler
    MaxOverruns    \* bound: number of times a live worker overruns the stale window

ASSUME JobsAssumption == Jobs \subseteq Nat
ASSUME KindsAssumption ==
    Mailing \subseteq Jobs /\ Unhandled \subseteq Jobs /\ Poison \subseteq Jobs
ASSUME WorkersAssumption == IsFiniteSet(Workers)   \* the processes that were started
ASSUME SettingsAssumption ==
    BatchSize \in Nat \ {0} /\ MaxAttempts \in Nat \ {0} /\ SlowWorkers \in BOOLEAN
ASSUME BoundsAssumption ==
    CountCap \in Nat /\ CountCap > MaxAttempts /\ MaxCrashes \in Nat /\ MaxOverruns \in Nat

VARIABLES
    status,     \* jobs.status, "absent" before the row's transaction commits
    attempts,   \* jobs.attempts
    delayed,    \* jobs.run_after > now()
    stale,      \* jobs.updated_at < now() - WORKER_STALE_SECONDS, of running rows
    pc,         \* where each worker is in its iteration
    batch,      \* the claimed jobs run_once has not finished with
    snap,       \* the row of the current job as the worker's session loaded it
    effects,    \* how often the job's effect has happened (mail sent, rows committed)
    crashes, overruns   \* what has been used up of the two bounds

table == <<status, attempts, delayed, stale>>
bounds == <<crashes, overruns>>
vars == <<table, pc, batch, snap, effects, bounds>>

JobStatus == {"absent", "queued", "running", "succeeded", "failed"}
Terminal == {"succeeded", "failed"}
NoRow == [job |-> -1, status |-> "absent", attempts |-> 0]
Row == [job : Jobs, status : JobStatus, attempts : 0..CountCap]

Bump(n) == IF n < CountCap THEN n + 1 ELSE n

-----------------------------------------------------------------------------
Init ==
    /\ status = [j \in Jobs |-> "absent"]
    /\ attempts = [j \in Jobs |-> 0]
    /\ delayed = [j \in Jobs |-> FALSE]
    /\ stale = [j \in Jobs |-> FALSE]
    /\ pc = [w \in Workers |-> "idle"]
    /\ batch = [w \in Workers |-> {}]
    /\ snap = [w \in Workers |-> NoRow]
    /\ effects = [j \in Jobs |-> 0]
    /\ crashes = 0
    /\ overruns = 0

(* The caller's transaction commits the row JobDispatcher.enqueue flushed.  *)
Enqueue(j) ==
    /\ status[j] = "absent"
    /\ status' = [status EXCEPT ![j] = "queued"]
    /\ UNCHANGED <<attempts, delayed, stale, pc, batch, snap, effects, bounds>>

-----------------------------------------------------------------------------
(* One iteration of a worker.                                               *)

(* Mutant of Reap: the updated_at filter is missing.                        *)
ReapAll(w) ==
    /\ pc[w] = "idle"
    /\ status' = [j \in Jobs |-> IF status[j] = "running" THEN "queued" ELSE status[j]]
    /\ stale' = [j \in Jobs |-> FALSE]
    /\ pc' = [pc EXCEPT ![w] = "reaped"]
    /\ UNCHANGED <<attempts, delayed, batch, snap, effects, bounds>>

(* Mutant of Reap: there is no reaper.                                      *)
ReapNone(w) ==
    /\ pc[w] = "idle"
    /\ pc' = [pc EXCEPT ![w] = "reaped"]
    /\ UNCHANGED <<table, batch, snap, effects, bounds>>

(* reap_stale: one UPDATE over the committed rows, committed by itself.     *)
Reap(w) ==
    /\ pc[w] = "idle"
    /\ status' = [j \in Jobs |-> IF status[j] = "running" /\ stale[j]
                                 THEN "queued" ELSE status[j]]
    /\ stale' = [j \in Jobs |-> FALSE]
    /\ pc' = [pc EXCEPT ![w] = "reaped"]
    /\ UNCHANGED <<attempts, delayed, batch, snap, effects, bounds>>

Claimable == {j \in Jobs : status[j] = "queued" /\ ~delayed[j]}

(* The batches the claim's SELECT may lock: the oldest claimable rows, at   *)
(* most BatchSize of them.  Rows another claim has locked are skipped, so   *)
(* two concurrent claims take what two claims in a row would.               *)
Batches ==
    {S \in SUBSET Claimable :
        /\ Cardinality(S) <= BatchSize
        /\ S = Claimable \/ Cardinality(S) = BatchSize
        /\ \A j \in S, k \in Claimable \ S : j < k}

(* Mutant of Claim: the claim does not count the attempt.                   *)
ClaimUncounted(w) ==
    /\ pc[w] = "reaped"
    /\ \E S \in Batches :
        /\ status' = [j \in Jobs |-> IF j \in S THEN "running" ELSE status[j]]
        /\ stale' = [j \in Jobs |-> IF j \in S THEN FALSE ELSE stale[j]]
        /\ batch' = [batch EXCEPT ![w] = S]
        /\ pc' = [pc EXCEPT ![w] = IF S = {} THEN "idle" ELSE "batch"]
    /\ UNCHANGED <<attempts, delayed, snap, effects, bounds>>

Claim(w) ==
    /\ pc[w] = "reaped"
    /\ \E S \in Batches :
        /\ status' = [j \in Jobs |-> IF j \in S THEN "running" ELSE status[j]]
        /\ attempts' = [j \in Jobs |-> IF j \in S THEN Bump(attempts[j]) ELSE attempts[j]]
        /\ stale' = [j \in Jobs |-> IF j \in S THEN FALSE ELSE stale[j]]
        /\ batch' = [batch EXCEPT ![w] = S]
        /\ pc' = [pc EXCEPT ![w] = IF S = {} THEN "idle" ELSE "batch"]
    /\ UNCHANGED <<delayed, snap, effects, bounds>>

(* Mutant of Load: the batch is run newest first.                           *)
LoadNewest(w) ==
    /\ pc[w] = "batch"
    /\ \E j \in batch[w] :
        /\ \A k \in batch[w] : j >= k
        /\ snap' = [snap EXCEPT ![w] = [job |-> j, status |-> status[j],
                                        attempts |-> attempts[j]]]
        /\ pc' = [pc EXCEPT ![w] = IF j \in Unhandled THEN "unknown" ELSE "loaded"]
    /\ UNCHANGED <<table, batch, effects, bounds>>

(* job.type reads the expired row again: the next job of the batch.         *)
Load(w) ==
    /\ pc[w] = "batch"
    /\ \E j \in batch[w] :
        /\ \A k \in batch[w] : j <= k
        /\ snap' = [snap EXCEPT ![w] = [job |-> j, status |-> status[j],
                                        attempts |-> attempts[j]]]
        /\ pc' = [pc EXCEPT ![w] = IF j \in Unhandled THEN "unknown" ELSE "loaded"]
    /\ UNCHANGED <<table, batch, effects, bounds>>

(* The worker is through with its current job; run_once returns after the   *)
(* last one.                                                                *)
NextJob(w) ==
    /\ batch' = [batch EXCEPT ![w] = @ \ {snap[w].job}]
    /\ pc' = [pc EXCEPT ![w] = IF batch[w] \ {snap[w].job} = {} THEN "idle" ELSE "batch"]
    /\ snap' = [snap EXCEPT ![w] = NoRow]

(* The handler returns and its savepoint is released.  What a Mailing       *)
(* handler did is done; what another wrote waits for the finalizer's commit.*)
HandlerReturns(w) ==
    /\ pc[w] = "loaded"
    /\ snap[w].job \notin Poison
    /\ pc' = [pc EXCEPT ![w] = "returned"]
    /\ effects' = IF snap[w].job \in Mailing
                  THEN [effects EXCEPT ![snap[w].job] = Bump(@)] ELSE effects
    /\ UNCHANGED <<table, batch, snap, bounds>>

(* Mutant of HandlerRaises: no savepoint, a raising handler's writes stay.   *)
RaisesWithoutRollback(w) ==
    /\ pc[w] = "loaded"
    /\ snap[w].job \notin Poison
    /\ pc' = [pc EXCEPT ![w] = "raised"]
    /\ effects' = [effects EXCEPT ![snap[w].job] = Bump(@)]
    /\ UNCHANGED <<table, batch, snap, bounds>>

(* The handler raises and its savepoint is rolled back.  A send that raised *)
(* (a timeout) may have been delivered all the same.                        *)
HandlerRaises(w) ==
    /\ pc[w] = "loaded"
    /\ snap[w].job \notin Poison
    /\ pc' = [pc EXCEPT ![w] = "raised"]
    /\ \/ UNCHANGED effects
       \/ /\ snap[w].job \in Mailing
          /\ effects' = [effects EXCEPT ![snap[w].job] = Bump(@)]
    /\ UNCHANGED <<table, batch, snap, bounds>>

(* Setting job.status emits the column only when it differs from the loaded *)
(* value; any UPDATE of the row also moves updated_at.                      *)
SetStatus(w, new) ==
    LET j == snap[w].job IN
    IF snap[w].status = new THEN UNCHANGED status
                            ELSE status' = [status EXCEPT ![j] = new]

Touch(w) == stale' = [stale EXCEPT ![snap[w].job] = FALSE]

(* _finalize_success: commits the handler's writes with the new status.     *)
FinalizeSuccess(w) ==
    /\ pc[w] = "returned"
    /\ SetStatus(w, "succeeded")
    /\ IF snap[w].status = "succeeded" THEN UNCHANGED stale ELSE Touch(w)
    /\ effects' = IF snap[w].job \in Mailing
                  THEN effects ELSE [effects EXCEPT ![snap[w].job] = Bump(@)]
    /\ NextJob(w)
    /\ UNCHANGED <<attempts, delayed, bounds>>

(* Mutant of FinalizeRetry: one attempt too many.                           *)
RetryOnceMore(w) ==
    /\ pc[w] = "raised"
    /\ snap[w].attempts <= MaxAttempts
    /\ SetStatus(w, "queued")
    /\ delayed' = [delayed EXCEPT ![snap[w].job] = TRUE]
    /\ Touch(w)
    /\ NextJob(w)
    /\ UNCHANGED <<attempts, effects, bounds>>

(* _finalize_failure, below the ceiling: back to the queue with a delay.    *)
FinalizeRetry(w) ==
    /\ pc[w] = "raised"
    /\ snap[w].attempts < MaxAttempts
    /\ SetStatus(w, "queued")
    /\ delayed' = [delayed EXCEPT ![snap[w].job] = TRUE]
    /\ Touch(w)
    /\ NextJob(w)
    /\ UNCHANGED <<attempts, effects, bounds>>

(* _finalize_failure at the ceiling.                                        *)
FinalizeFailed(w) ==
    /\ pc[w] = "raised"
    /\ snap[w].attempts >= MaxAttempts
    /\ SetStatus(w, "failed")
    /\ Touch(w)
    /\ NextJob(w)
    /\ UNCHANGED <<attempts, delayed, effects, bounds>>

(* _finalize_terminal_failure: no handler is registered for the job's type. *)
FinalizeUnknown(w) ==
    /\ pc[w] = "unknown"
    /\ SetStatus(w, "failed")
    /\ Touch(w)
    /\ NextJob(w)
    /\ UNCHANGED <<attempts, delayed, effects, bounds>>

-----------------------------------------------------------------------------
(* What happens to a worker and to its rows.                                *)

(* The iteration is abandoned with its open transaction rolled back: the    *)
(* process dies and is restarted, or an exception reaches main_loop.  The   *)
(* rows of the batch stay running.                                          *)
Abandon(w) ==
    /\ pc' = [pc EXCEPT ![w] = "idle"]
    /\ batch' = [batch EXCEPT ![w] = {}]
    /\ snap' = [snap EXCEPT ![w] = NoRow]

Crash(w) ==
    /\ pc[w] # "idle"
    /\ crashes < MaxCrashes
    /\ crashes' = crashes + 1
    /\ Abandon(w)
    /\ UNCHANGED <<table, effects, overruns>>

HandlerKillsWorker(w) ==
    /\ pc[w] = "loaded"
    /\ snap[w].job \in Poison
    /\ Abandon(w)
    /\ UNCHANGED <<table, effects, bounds>>

Held(w) == batch[w]

(* The stale window passes for a running row nobody holds any more ...      *)
OrphanExpires(j) ==
    /\ status[j] = "running" /\ ~stale[j]
    /\ \A w \in Workers : j \notin Held(w)
    /\ stale' = [stale EXCEPT ![j] = TRUE]
    /\ UNCHANGED <<status, attempts, delayed, pc, batch, snap, effects, bounds>>

(* ... or for one a live worker still holds: nothing renews updated_at      *)
(* while the batch runs.                                                    *)
BatchOverruns(j) ==
    /\ SlowWorkers /\ overruns < MaxOverruns
    /\ status[j] = "running" /\ ~stale[j]
    /\ \E w \in Workers : j \in Held(w)
    /\ stale' = [stale EXCEPT ![j] = TRUE]
    /\ overruns' = overruns + 1
    /\ UNCHANGED <<status, attempts, delayed, pc, batch, snap, effects, crashes>>

(* run_after is reached.                                                    *)
BackoffEnds(j) ==
    /\ delayed[j]
    /\ delayed' = [delayed EXCEPT ![j] = FALSE]
    /\ UNCHANGED <<status, attempts, stale, pc, batch, snap, effects, bounds>>

-----------------------------------------------------------------------------
WorkerStep(w) ==
    \/ Reap(w)
    \/ Claim(w)
    \/ Load(w)
    \/ HandlerReturns(w)
    \/ HandlerRaises(w)
    \/ FinalizeSuccess(w)
    \/ FinalizeRetry(w)
    \/ FinalizeFailed(w)
    \/ FinalizeUnknown(w)
    \/ HandlerKillsWorker(w)

Next ==
    \/ \E j \in Jobs : Enqueue(j)
    \/ \E w \in Workers : WorkerStep(w)
    \/ \E w \in Workers : Crash(w)
    \/ \E j \in Jobs : OrphanExpires(j)
    \/ \E j \in Jobs : BatchOverruns(j)
    \/ \E j \in Jobs : BackoffEnds(j)

Spec == Init /\ [][Next]_vars

(* The loop of a live worker goes on, and time passes.  No fairness is      *)
(* assumed of enqueueing, of crashes or of slow batches.                    *)
Fairness ==
    /\ \A w \in Workers : WF_vars(WorkerStep(w))
    /\ \A j \in Jobs : WF_vars(OrphanExpires(j)) /\ WF_vars(BackoffEnds(j))

FairSpec == Spec /\ Fairness
=============================================================================
