-------------------------- MODULE SchedulerProofs ---------------------------
(***************************************************************************)
(* A due period is fired exactly once, for any number of replicas, startups *)
(* and milestones.  The argument is the unique constraint's: a key is with  *)
(* one tick at most, and not in the ledger while it is, so the commit that  *)
(* brings it there is the only one that enqueues its job.                   *)
(***************************************************************************)
EXTENDS Scheduler, TLAPS

(* An uncommitted row is one tick's, and its key is not yet in the ledger.  *)
RowsAreUnique ==
    \A r \in Replicas :
        /\ mine[r] \cap ledger = {}
        /\ \A q \in Replicas : q # r => mine[r] \cap mine[q] = {}

IInv == TypeOK /\ RowsAreUnique /\ ExactlyOncePerPeriod

(* What a tick detects are items.                                           *)
LEMMA DueItemsAreItems == DueItems \subseteq Items
BY DEF DueItems, Items, DueMissions, DueOverdue, DueQuarterly

(* A step of the founders or the calendar touches no tick, job or claim.    *)
LEMMA WorldKeepsTicks ==
    World => UNCHANGED <<ledger, enqueued, handled, published, due, cur, mine, ticking, crashes>>
BY DEF World, MissionHour, NextDay, FinishMilestone, ReplanMilestone,
       StartAssessment, CompleteAssessment, DeleteStartup, jobs, tick

(* The days, dates and statuses the founders write have their types.        *)
LEMMA WorldType ==
    ASSUME TypeOK, World
    PROVE  /\ day' \in Days /\ late' \in BOOLEAN
           /\ member' \in [Startups -> BOOLEAN] /\ deleted' \in [Startups -> BOOLEAN]
           /\ due_on' \in [Milestones -> Int] /\ done' \in [Milestones -> BOOLEAN]
           /\ completed_at' \in [Startups -> 0..MaxDay] /\ open' \in [Startups -> BOOLEAN]
<1>. USE SchedulerAssumption DEF TypeOK, Days
<1>1. CASE MissionHour
  BY <1>1 DEF MissionHour
<1>2. CASE NextDay
  <2>1. day' \in Days
    BY <1>2 DEF NextDay
  <2>. QED
    BY <1>2, <2>1 DEF NextDay
<1>3. ASSUME NEW m \in Milestones, FinishMilestone(m)
      PROVE  done' \in [Milestones -> BOOLEAN]
  BY <1>3 DEF FinishMilestone
<1>4. ASSUME NEW m \in Milestones, ReplanMilestone(m)
      PROVE  due_on' \in [Milestones -> Int]
  BY <1>4 DEF ReplanMilestone
<1>5. ASSUME NEW s \in Startups, StartAssessment(s)
      PROVE  open' \in [Startups -> BOOLEAN]
  BY <1>5 DEF StartAssessment
<1>6. ASSUME NEW s \in Startups, CompleteAssessment(s)
      PROVE  /\ open' \in [Startups -> BOOLEAN]
             /\ completed_at' \in [Startups -> 0..MaxDay]
  BY <1>6 DEF CompleteAssessment
<1>7. ASSUME NEW s \in Startups, DeleteStartup(s)
      PROVE  deleted' \in [Startups -> BOOLEAN]
  BY <1>7 DEF DeleteStartup
<1>. QED
  BY <1>1, <1>2, <1>3, <1>4, <1>5, <1>6, <1>7
     DEF World, FinishMilestone, ReplanMilestone, StartAssessment, CompleteAssessment,
         DeleteStartup

-----------------------------------------------------------------------------
(* Every step keeps the types.                                              *)
LEMMA TypeStep == TypeOK /\ [Next]_vars => TypeOK'
<1>. SUFFICES ASSUME TypeOK, [Next]_vars PROVE TypeOK'
  OBVIOUS
<1>1. CASE World
  BY <1>1, WorldType, WorldKeepsTicks DEF TypeOK
<1>2. ASSUME NEW r \in Replicas, TickStep(r) PROVE TypeOK'
  <2>. USE DEF TypeOK, world, jobs
  <2>1. CASE Detect(r)
    BY <2>1, DueItemsAreItems DEF Detect
  <2>2. CASE Attempt(r)
    <3>1. due' \in [Replicas -> SUBSET Items] /\ cur' \in [Replicas -> Items \cup {None}]
      BY <2>2 DEF Attempt
    <3>2. ticking[r]
      BY <2>2 DEF Attempt
    <3>. QED
      BY <2>2, <3>1, <3>2 DEF Attempt
  <2>3. CASE Insert(r)
    <3>1. mine' \in [Replicas -> SUBSET Items] /\ cur' \in [Replicas -> Items \cup {None}]
      BY <2>3 DEF Insert
    <3>2. ticking[r]
      BY <2>3 DEF Insert
    <3>. QED
      BY <2>3, <3>1, <3>2 DEF Insert
  <2>4. CASE Taken(r)
    BY <2>4 DEF Taken
  <2>5. CASE DeadlockVictim(r)
    BY <2>5 DEF DeadlockVictim
  <2>6. CASE Commit(r)
    <3>1. ledger' \subseteq Items
      BY <2>6 DEF Commit
    <3>2. enqueued' \in [Items -> Nat]
      BY <2>6 DEF Commit
    <3>. QED
      BY <2>6, <3>1, <3>2 DEF Commit
  <2>. QED
    BY <1>2, <2>1, <2>2, <2>3, <2>4, <2>5, <2>6 DEF TickStep
<1>3. ASSUME NEW r \in Replicas, Crash(r) PROVE TypeOK'
  BY <1>3, SchedulerAssumption DEF Crash, TypeOK, world, jobs
<1>4. ASSUME NEW k \in Items, Handle(k) PROVE TypeOK'
  <2>1. handled' \in [Items -> Nat] /\ published' \in [Items -> Nat]
    BY <1>4 DEF Handle, MissionGenerate, RoadmapOverdue, AssessmentQuarterly, Run, Publish, TypeOK
  <2>2. UNCHANGED <<world, ledger, enqueued, tick, crashes>>
    BY <1>4 DEF Handle, MissionGenerate, RoadmapOverdue, AssessmentQuarterly, Run
  <2>. QED
    BY <2>1, <2>2 DEF TypeOK, world, tick
<1>5. CASE UNCHANGED vars
  BY <1>5 DEF vars, world, jobs, tick, TypeOK
<1>. QED
  BY <1>1, <1>2, <1>3, <1>4, <1>5 DEF Next

-----------------------------------------------------------------------------
(* Only an insert makes a row a tick's, and it finds the key neither taken   *)
(* nor held; only a commit adds to the ledger, and it adds its tick's rows.  *)
LEMMA UniqueStep == TypeOK /\ RowsAreUnique /\ [Next]_vars => RowsAreUnique'
<1>. SUFFICES ASSUME TypeOK, RowsAreUnique, [Next]_vars PROVE RowsAreUnique'
  OBVIOUS
<1>. USE DEF RowsAreUnique
<1>1. ASSUME UNCHANGED <<ledger, mine>> PROVE RowsAreUnique'
  BY <1>1
<1>2. ASSUME NEW r \in Replicas, Insert(r) PROVE RowsAreUnique'
  <2>1. mine' = [mine EXCEPT ![r] = @ \cup {cur[r]}] /\ ledger' = ledger
    BY <1>2 DEF Insert
  <2>2. cur[r] \notin ledger /\ \A q \in Replicas : cur[r] \notin mine[q]
    BY <1>2 DEF Insert, HolderOf
  <2>. QED
    BY <2>1, <2>2 DEF TypeOK
<1>3. ASSUME NEW r \in Replicas, Commit(r) PROVE RowsAreUnique'
  BY <1>3 DEF Commit, TypeOK
<1>4. ASSUME NEW r \in Replicas, Crash(r) PROVE RowsAreUnique'
  BY <1>4 DEF Crash, TypeOK
<1>5. ASSUME NEW r \in Replicas, TickStep(r), ~Insert(r), ~Commit(r)
      PROVE  UNCHANGED <<ledger, mine>>
  BY <1>5 DEF TickStep, Detect, Attempt, Taken, DeadlockVictim
<1>6. ASSUME NEW k \in Items, Handle(k) PROVE UNCHANGED <<ledger, mine>>
  BY <1>6 DEF Handle, MissionGenerate, RoadmapOverdue, AssessmentQuarterly, Run, tick
<1>7. CASE UNCHANGED vars
  BY <1>1, <1>7 DEF vars, tick
<1>. QED
  BY <1>1, <1>2, <1>3, <1>4, <1>5, <1>6, <1>7, WorldKeepsTicks DEF Next

(* Only a commit enqueues, one job for each key it brings into the ledger;   *)
(* a handler runs one job of those enqueued and publishes once at most.      *)
LEMMA OnceStep == IInv /\ [Next]_vars => ExactlyOncePerPeriod'
<1>. SUFFICES ASSUME IInv, [Next]_vars PROVE ExactlyOncePerPeriod'
  OBVIOUS
<1>. USE DEF IInv, ExactlyOncePerPeriod
<1>1. ASSUME UNCHANGED <<ledger, enqueued, handled, published>> PROVE ExactlyOncePerPeriod'
  BY <1>1
<1>2. ASSUME NEW r \in Replicas, Commit(r) PROVE ExactlyOncePerPeriod'
  <2>. SUFFICES ASSUME NEW k \in Items
                PROVE  /\ enqueued'[k] = IF k \in ledger' THEN 1 ELSE 0
                       /\ published'[k] <= handled'[k] /\ handled'[k] <= enqueued'[k]
    OBVIOUS
  <2>1. /\ ledger' = ledger \cup mine[r]
        /\ enqueued'[k] = enqueued[k] + IF k \in mine[r] THEN 1 ELSE 0
        /\ UNCHANGED <<handled, published>>
    BY <1>2 DEF Commit
  <2>2. k \in mine[r] => k \notin ledger
    BY DEF RowsAreUnique
  <2>3. handled[k] \in Nat /\ enqueued[k] \in Nat
    BY DEF TypeOK
  <2>. QED
    BY <2>1, <2>2, <2>3
<1>3. ASSUME NEW r \in Replicas, TickStep(r), ~Commit(r)
      PROVE  UNCHANGED <<ledger, enqueued, handled, published>>
  BY <1>3 DEF TickStep, Detect, Attempt, Insert, Taken, DeadlockVictim, jobs
<1>4. ASSUME NEW r \in Replicas, Crash(r)
      PROVE  UNCHANGED <<ledger, enqueued, handled, published>>
  BY <1>4 DEF Crash, jobs
<1>5. ASSUME NEW k \in Items, Handle(k) PROVE ExactlyOncePerPeriod'
  <2>1. /\ UNCHANGED <<ledger, enqueued>>
        /\ handled[k] < enqueued[k]
        /\ handled' = [handled EXCEPT ![k] = @ + 1]
        /\ published' \in {published, [published EXCEPT ![k] = @ + 1]}
    BY <1>5 DEF Handle, MissionGenerate, RoadmapOverdue, AssessmentQuarterly, Run, Publish
  <2>2. \A i \in Items : handled[i] \in Nat /\ published[i] \in Nat /\ enqueued[i] \in Nat
    BY DEF TypeOK
  <2>3. ASSUME NEW i \in Items
        PROVE  /\ enqueued'[i] = IF i \in ledger' THEN 1 ELSE 0
               /\ published'[i] <= handled'[i] /\ handled'[i] <= enqueued'[i]
    BY <2>1, <2>2 DEF TypeOK
  <2>. QED
    BY <2>3
<1>6. CASE UNCHANGED vars
  BY <1>1, <1>6 DEF vars, jobs
<1>. QED
  BY <1>1, <1>2, <1>3, <1>4, <1>5, <1>6, WorldKeepsTicks DEF Next

-----------------------------------------------------------------------------
(* The scheduler starts with nothing due, claimed or run.                   *)
LEMMA InvInit == Init => IInv
<1>. SUFFICES ASSUME Init PROVE IInv
  OBVIOUS
<1>1. day \in Days /\ completed_at \in [Startups -> 0..MaxDay]
  BY SchedulerAssumption DEF Init, Days
<1>2. TypeOK
  <2>1. due_on \in [Milestones -> Int] /\ crashes \in 0..MaxCrashes
    BY SchedulerAssumption DEF Init
  <2>5. done \in [Milestones -> BOOLEAN] /\ late \in BOOLEAN /\ ledger \subseteq Items
    BY DEF Init
  <2>2. /\ deleted \in [Startups -> BOOLEAN] /\ open \in [Startups -> BOOLEAN]
        /\ member \in [Startups -> BOOLEAN]
    BY DEF Init
  <2>3. /\ enqueued \in [Items -> Nat] /\ handled \in [Items -> Nat]
        /\ published \in [Items -> Nat]
    BY DEF Init
  <2>4. /\ due \in [Replicas -> SUBSET Items] /\ cur \in [Replicas -> Items \cup {None}]
        /\ mine \in [Replicas -> SUBSET Items] /\ ticking \in [Replicas -> BOOLEAN]
        /\ \A r \in Replicas : ~ticking[r] => due[r] = {} /\ cur[r] = None /\ mine[r] = {}
    BY DEF Init
  <2>. QED
    BY <1>1, <2>1, <2>2, <2>3, <2>4, <2>5 DEF TypeOK
<1>3. RowsAreUnique
  BY DEF Init, RowsAreUnique
<1>4. ExactlyOncePerPeriod
  BY DEF Init, ExactlyOncePerPeriod
<1>. QED
  BY <1>2, <1>3, <1>4 DEF IInv

(* The tick, its claims and its handlers are well typed in every reachable  *)
(* state, for any startups, milestones and replicas.                        *)
THEOREM TypeCorrect == Spec => []TypeOK
<1>1. Init => TypeOK
  BY InvInit DEF IInv
<1>. QED
  BY <1>1, TypeStep, PTL DEF Spec

(* A key of scheduled_runs has its one job exactly when it is committed, and *)
(* is announced at most once (scheduler_tick, _claim, the three handlers).   *)
THEOREM FiredOnce == Spec => []ExactlyOncePerPeriod
<1>1. IInv /\ [Next]_vars => IInv'
  BY TypeStep, UniqueStep, OnceStep DEF IInv
<1>2. IInv => ExactlyOncePerPeriod
  BY DEF IInv
<1>. QED
  BY <1>1, <1>2, InvInit, PTL DEF Spec
=============================================================================
