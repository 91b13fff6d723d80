----------------------------- MODULE Scheduler ------------------------------
(***************************************************************************)
(* The scheduler tick of the worker (src/app/worker/scheduler.py) and the  *)
(* handlers of the jobs it enqueues (src/app/worker/handlers/scheduled.py).*)
(*                                                                         *)
(* A tick detects what is due, claims each item by inserting its           *)
(* (task, scope, period) row into scheduled_runs inside a savepoint, and   *)
(* enqueues a job for each new claim; everything commits at the end.  The  *)
(* unique constraint makes a second insert of a key wait for the           *)
(* transaction that holds it, and two ticks that wait for each other are   *)
(* broken up by the database.                                              *)
(***************************************************************************)
EXTENDS Integers, FiniteSets

CONSTANTS
    Replicas,       \* worker processes that tick
    Startups, Milestones,
    Owner,          \* the startup whose roadmap a milestone is on
    InitialDue,     \* due_on of each milestone at the start
    MaxDay,         \* bound: days 1..MaxDay are modelled
    QuarterDays,    \* days in a quarter
    ReassessDays,   \* QUARTERLY_REASSESS_DAYS
    MaxCrashes,     \* bound: ticks that fail or die before their commit
    None

ASSUME SchedulerAssumption ==
    /\ MaxDay \in Nat \ {0} /\ QuarterDays \in Nat \ {0} /\ ReassessDays \in Nat /\ MaxCrashes \in Nat
    /\ Owner \in [Milestones -> Startups]
    /\ InitialDue \in [Milestones -> Int]

VARIABLES
    day,        \* the local date
    late,       \* the local hour has reached MISSION_GEN_HOUR
    member,     \* has the startup an active membership?
    deleted,    \* startups.deleted_at is set
    due_on, done,        \* roadmap_milestones
    completed_at, open,  \* latest completed assessment (0: none), one in progress
    ledger,     \* committed scheduled_runs rows
    enqueued,   \* jobs enqueued for each key, committed
    handled,    \* jobs of each key that have run
    published,  \* events published for each key
    due,        \* a tick's items not yet looked at
    cur,        \* the item a tick is inserting
    mine,       \* rows a tick has inserted and not committed
    ticking, crashes

world == <<day, late, member, deleted, due_on, done, completed_at, open>>
jobs == <<enqueued, handled, published>>
tick == <<due, cur, mine, ticking>>
vars == <<world, ledger, jobs, tick, crashes>>

Days == 1..MaxDay
Quarter(d) == d \div QuarterDays

Missions == [task : {"mission.generate"}, scope : Startups, period : Days]
Overdues == [task : {"roadmap.overdue"}, scope : Milestones, period : {0}]
Quarterlies == [task : {"assessment.quarterly"}, scope : Startups,
                period : {Quarter(d) : d \in Days}]
Items == Missions \cup Overdues \cup Quarterlies

Overdue(m) == due_on[m] < day /\ ~done[m]

-----------------------------------------------------------------------------
(* The detectors.                                                           *)

DueMissions ==
    {k \in Missions : late /\ k.period = day
                      /\ member[k.scope] /\ ~deleted[k.scope]}

DueOverdue == {k \in Overdues : Overdue(k.scope) /\ ~deleted[Owner[k.scope]]}

DueQuarterly ==
    {k \in Quarterlies :
        /\ k.period = Quarter(day)
        /\ completed_at[k.scope] # 0 /\ completed_at[k.scope] <= day - ReassessDays
        /\ ~open[k.scope] /\ ~deleted[k.scope]}

DueItems == (DueMissions \cup DueOverdue \cup DueQuarterly) \ ledger

-----------------------------------------------------------------------------
Init ==
    /\ day = 1 /\ late = FALSE
    /\ member \in [Startups -> BOOLEAN]
    /\ deleted = [s \in Startups |-> FALSE]
    /\ due_on = InitialDue
    /\ done = [m \in Milestones |-> FALSE]
    /\ completed_at \in [Startups -> {0, 1}]
    /\ open = [s \in Startups |-> FALSE]
    /\ ledger = {}
    /\ enqueued = [k \in Items |-> 0]
    /\ handled = [k \in Items |-> 0]
    /\ published = [k \in Items |-> 0]
    /\ due = [r \in Replicas |-> {}]
    /\ cur = [r \in Replicas |-> None]
    /\ mine = [r \in Replicas |-> {}]
    /\ ticking = [r \in Replicas |-> FALSE]
    /\ crashes = 0

-----------------------------------------------------------------------------
(* The tick.  The detectors run first, in one go.                           *)
Detect(r) ==
    /\ ~ticking[r]
    /\ ticking' = [ticking EXCEPT ![r] = TRUE]
    /\ due' = [due EXCEPT ![r] = DueItems]
    /\ UNCHANGED <<world, ledger, jobs, cur, mine, crashes>>

(* _claim begins: the detectors' queries are unordered, so is the loop.     *)
Attempt(r) ==
    /\ cur[r] = None
    /\ \E k \in due[r] : /\ cur' = [cur EXCEPT ![r] = k]
                         /\ due' = [due EXCEPT ![r] = @ \ {k}]
    /\ UNCHANGED <<world, ledger, jobs, mine, ticking, crashes>>

HolderOf(k) == {q \in Replicas : k \in mine[q]}

(* Mutant of Insert: no unique constraint on (task, scope, period).         *)
InsertTwice(r) ==
    /\ cur[r] # None
    /\ mine' = [mine EXCEPT ![r] = @ \cup {cur[r]}]
    /\ cur' = [cur EXCEPT ![r] = None]
    /\ UNCHANGED <<world, ledger, jobs, due, ticking, crashes>>

(* The row is inserted and its job flushed, both still uncommitted.         *)
Insert(r) ==
    /\ cur[r] # None /\ cur[r] \notin ledger /\ HolderOf(cur[r]) = {}
    /\ mine' = [mine EXCEPT ![r] = @ \cup {cur[r]}]
    /\ cur' = [cur EXCEPT ![r] = None]
    /\ UNCHANGED <<world, ledger, jobs, due, ticking, crashes>>

(* IntegrityError: the key is committed already, the item is skipped.       *)
Taken(r) ==
    /\ cur[r] \in ledger
    /\ cur' = [cur EXCEPT ![r] = None]
    /\ UNCHANGED <<world, ledger, jobs, due, mine, ticking, crashes>>

(* Two ticks wait for each other's rows: the database fails one statement,  *)
(* the savepoint is rolled back, and that tick goes on with its next item.  *)
DeadlockVictim(r) ==
    /\ cur[r] # None
    /\ \E q \in HolderOf(cur[r]) \ {r} : cur[q] \in mine[r]
    /\ cur' = [cur EXCEPT ![r] = None]
    /\ UNCHANGED <<world, ledger, jobs, due, mine, ticking, crashes>>

(* Mutant of Commit: the session is closed without a commit.                *)
CommitForgotten(r) ==
    /\ ticking[r] /\ due[r] = {} /\ cur[r] = None
    /\ mine' = [mine EXCEPT ![r] = {}]
    /\ ticking' = [ticking EXCEPT ![r] = FALSE]
    /\ UNCHANGED <<world, ledger, jobs, due, cur, crashes>>

Commit(r) ==
    /\ ticking[r] /\ due[r] = {} /\ cur[r] = None
    /\ ledger' = ledger \cup mine[r]
    /\ enqueued' = [k \in Items |-> enqueued[k] + IF k \in mine[r] THEN 1 ELSE 0]
    /\ mine' = [mine EXCEPT ![r] = {}]
    /\ ticking' = [ticking EXCEPT ![r] = FALSE]
    /\ UNCHANGED <<world, handled, published, due, cur, crashes>>

(* The tick dies, or main_loop rolls it back: nothing of it stays.          *)
Crash(r) ==
    /\ ticking[r] /\ crashes < MaxCrashes
    /\ crashes' = crashes + 1
    /\ due' = [due EXCEPT ![r] = {}]
    /\ cur' = [cur EXCEPT ![r] = None]
    /\ mine' = [mine EXCEPT ![r] = {}]
    /\ ticking' = [ticking EXCEPT ![r] = FALSE]
    /\ UNCHANGED <<world, ledger, jobs>>

-----------------------------------------------------------------------------
(* The handlers, each run as one job of the queue (JobContract).            *)
Run(k) ==
    /\ handled[k] < enqueued[k]
    /\ handled' = [handled EXCEPT ![k] = @ + 1]
    /\ UNCHANGED <<world, ledger, enqueued, tick, crashes>>

Publish(k) == published' = [published EXCEPT ![k] = @ + 1]

(* handle_mission_generate: a mission results unless the startup has no     *)
(* roadmap yet.                                                             *)
MissionGenerate(k) ==
    /\ k \in Missions
    /\ Run(k)
    /\ Publish(k) \/ UNCHANGED published

(* handle_roadmap_overdue: looks again at the milestone's status.           *)
RoadmapOverdue(k) ==
    /\ k \in Overdues
    /\ Run(k)
    /\ IF done[k.scope] THEN UNCHANGED published ELSE Publish(k)

AssessmentQuarterly(k) ==
    /\ k \in Quarterlies
    /\ Run(k)
    /\ Publish(k)

Handle(k) == MissionGenerate(k) \/ RoadmapOverdue(k) \/ AssessmentQuarterly(k)

-----------------------------------------------------------------------------
(* What the founders and the calendar do meanwhile.                         *)
MissionHour ==
    /\ ~late /\ late' = TRUE
    /\ UNCHANGED <<day, member, deleted, due_on, done, completed_at, open,
                   ledger, jobs, tick, crashes>>

NextDay ==
    /\ day < MaxDay
    /\ day' = day + 1 /\ late' = FALSE
    /\ UNCHANGED <<member, deleted, due_on, done, completed_at, open,
                   ledger, jobs, tick, crashes>>

FinishMilestone(m) ==
    /\ done' = [done EXCEPT ![m] = ~@]
    /\ UNCHANGED <<day, late, member, deleted, due_on, completed_at, open,
                   ledger, jobs, tick, crashes>>

(* apply_replan gives an overdue milestone a due date in the future.        *)
ReplanMilestone(m) ==
    /\ Overdue(m)
    /\ due_on' = [due_on EXCEPT ![m] = day + 1]
    /\ UNCHANGED <<day, late, member, deleted, done, completed_at, open,
                   ledger, jobs, tick, crashes>>

StartAssessment(s) ==
    /\ ~open[s]
    /\ open' = [open EXCEPT ![s] = TRUE]
    /\ UNCHANGED <<day, late, member, deleted, due_on, done, completed_at,
                   ledger, jobs, tick, crashes>>

CompleteAssessment(s) ==
    /\ open[s]
    /\ open' = [open EXCEPT ![s] = FALSE]
    /\ completed_at' = [completed_at EXCEPT ![s] = day]
    /\ UNCHANGED <<day, late, member, deleted, due_on, done, ledger, jobs, tick, crashes>>

DeleteStartup(s) ==
    /\ ~deleted[s]
    /\ deleted' = [deleted EXCEPT ![s] = TRUE]
    /\ UNCHANGED <<day, late, member, due_on, done, completed_at, open,
                   ledger, jobs, tick, crashes>>

-----------------------------------------------------------------------------
TickStep(r) ==
    \/ Detect(r)
    \/ Attempt(r)
    \/ Insert(r)
    \/ Taken(r)
    \/ DeadlockVictim(r)
    \/ Commit(r)

World ==
    \/ MissionHour
    \/ NextDay
    \/ \E m \in Milestones : FinishMilestone(m)
    \/ \E m \in Milestones : ReplanMilestone(m)
    \/ \E s \in Startups : StartAssessment(s)
    \/ \E s \in Startups : CompleteAssessment(s)
    \/ \E s \in Startups : DeleteStartup(s)

Next ==
    \/ \E r \in Replicas : TickStep(r)
    \/ \E r \in Replicas : Crash(r)
    \/ \E k \in Items : Handle(k)
    \/ World

Spec == Init /\ [][Next]_vars

(* Each worker keeps ticking; the founders, the calendar and the queue may  *)
(* do nothing.                                                              *)
Fairness == \A r \in Replicas : WF_vars(TickStep(r))

-----------------------------------------------------------------------------
(* Types, and a tick's rows belong to a tick that is under way.             *)
TypeOK ==
    /\ day \in Days /\ late \in BOOLEAN
    /\ member \in [Startups -> BOOLEAN] /\ deleted \in [Startups -> BOOLEAN]
    /\ due_on \in [Milestones -> Int] /\ done \in [Milestones -> BOOLEAN]
    /\ completed_at \in [Startups -> 0..MaxDay] /\ open \in [Startups -> BOOLEAN]
    /\ ledger \subseteq Items
    /\ enqueued \in [Items -> Nat] /\ handled \in [Items -> Nat]
    /\ published \in [Items -> Nat]
    /\ due \in [Replicas -> SUBSET Items]
    /\ cur \in [Replicas -> Items \cup {None}]
    /\ mine \in [Replicas -> SUBSET Items]
    /\ ticking \in [Replicas -> BOOLEAN]
    /\ crashes \in 0..MaxCrashes
    /\ \A r \in Replicas : ~ticking[r] => due[r] = {} /\ cur[r] = None /\ mine[r] = {}

(* A period is fired exactly once: a key has a job if and only if it is in  *)
(* the ledger, one job, and members hear of it at most once, with any       *)
(* number of replicas ticking at once and ticks dying half way.             *)
ExactlyOncePerPeriod ==
    \A k \in Items :
        /\ enqueued[k] = IF k \in ledger THEN 1 ELSE 0
        /\ published[k] <= handled[k] /\ handled[k] <= enqueued[k]

(* What stays due is claimed: no lost claim, no tick that waits for ever.   *)
DueIsClaimed == \A k \in Items : k \in DueItems ~> k \notin DueItems

=============================================================================
