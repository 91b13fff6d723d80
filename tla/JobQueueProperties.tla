------------------------- MODULE JobQueueProperties -------------------------
(* What must hold of the job queue, and the mutants of its definitions.     *)
EXTENDS JobQueue

Executing(w) == pc[w] \in {"unknown", "loaded", "returned", "raised"}

(* Every variable has its type: the rows the table can hold, the places a   *)
(* worker can be in, and a loaded row whenever a job is being run.          *)
TypeOK ==
    /\ status \in [Jobs -> JobStatus]
    /\ attempts \in [Jobs -> 0..CountCap]
    /\ delayed \in [Jobs -> BOOLEAN]
    /\ stale \in [Jobs -> BOOLEAN]
    /\ pc \in [Workers -> {"idle", "reaped", "batch", "unknown", "loaded", "returned", "raised"}]
    /\ batch \in [Workers -> SUBSET Jobs]
    /\ snap \in [Workers -> Row \cup {NoRow}]
    /\ effects \in [Jobs -> 0..CountCap]
    /\ crashes \in 0..MaxCrashes
    /\ overruns \in 0..MaxOverruns
    /\ \A w \in Workers : Executing(w) => snap[w] \in Row

(* A job is in the hands of at most one worker, whose row is running, and   *)
(* the row the worker loaded is still the row of the table when it          *)
(* finalizes: the finalizers write without looking at the row again.  Holds *)
(* as long as no live worker overruns the stale window.                     *)
ExclusiveExecution ==
    /\ \A v, w \in Workers : v # w => Held(v) \cap Held(w) = {}
    /\ \A w \in Workers : \A j \in Held(w) : status[j] = "running" /\ ~stale[j]
    /\ \A w \in Workers : Executing(w) =>
        /\ snap[w].job \in Held(w)
        /\ snap[w].status = "running"
        /\ snap[w].attempts = attempts[snap[w].job]

(* A claim pays for every effect: even when several workers run the same    *)
(* job, its effect never happens more often than the job was claimed.       *)
EffectsPaidFor == \A j \in Jobs : effects[j] <= attempts[j]

(* A job gives up only after MaxAttempts claims (or at once when no handler *)
(* exists), and only crashes make it claimed more often than that.  Holds   *)
(* without fatal handlers and slow batches, which are not counted in it.    *)
RetryBudget ==
    \A j \in Jobs :
        /\ status[j] = "failed" => j \in Unhandled \/ attempts[j] >= MaxAttempts
        /\ attempts[j] <= MaxAttempts + crashes

(* A job older than every job that is fatal to its worker is settled, even  *)
(* when it is claimed with them, and even when a batch overruns the stale   *)
(* window.  (A younger one need not be: each batch would end at the fatal   *)
(* job.)                                                                    *)
InnocentJobsSettle ==
    \A j \in Jobs :
        (\A k \in Poison : j < k) => (status[j] = "queued" ~> status[j] \in Terminal)

(* The queue implements the contract, liveness included: queued and running *)
(* are two faces of pending.                                                *)
Outcome(j) == IF status[j] \in {"queued", "running"} THEN "pending" ELSE status[j]

Contract == INSTANCE JobContract WITH outcome <- [j \in Jobs |-> Outcome(j)]

ImplementsContract == Contract!Spec
KeepsContract == Contract!FairSpec
=============================================================================
