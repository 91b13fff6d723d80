------------------------------ MODULE Dashboard ------------------------------
(***************************************************************************)
(* The dashboard's summary (src/app/services/dashboard/service.py): its    *)
(* sections run one after the other in one transaction, those that write   *)
(* in savepoints of their own, so that a lost insert costs the section's   *)
(* work and not the page.  It makes the day's mission and the day's        *)
(* briefing, which a worker writes (handle_dashboard_briefing of           *)
(* src/app/worker/handlers/ai.py).                                         *)
(***************************************************************************)
EXTENDS Missions

VARIABLES
    assessed,      \* is there a completed assessment?
    briefings,     \* day -> status of its briefing
    briefingJobs,  \* day -> jobs enqueued for it
    briefed        \* day -> of these, jobs that are done

dashboardVars == <<assessed, briefings, briefingJobs, briefed>>

DashboardInit ==
    /\ assessed \in BOOLEAN
    /\ briefings = << >> /\ briefingJobs = << >> /\ briefed = << >>

-----------------------------------------------------------------------------
dashboard_summary(r) ==
    /\ Begin(r, [op |-> "summary"])
    /\ UNCHANGED <<roadmapVars, missionVars, today, dashboardVars>>

(* A section asks for the date when it runs.  The mission's waits for       *)
(* another's insert of the day and, when that committed, takes its mission. *)
_mission_section(r) ==
    LET day == today
        none == day \notin DOMAIN missions /\ roadmap # NoRoadmap
    IN  /\ Doing(r, "summary")
        /\ none => \A q \in Requests : ~Inserting(q)
        /\ Go(r, [op |-> "dashboard", day |-> day,
                  new |-> IF none THEN <<[by |-> "system", tasks |-> Chosen(day)]>> ELSE << >>])
        /\ UNCHANGED <<roadmapVars, missionVars, today, dashboardVars>>

Drafting(q, day) == Doing(q, "briefing") /\ txn[q].briefing = day /\ txn[q].insert

(* Mutant of get_or_generate_briefing: the job is enqueued in any case.     *)
get_or_enqueue_briefing(r) ==
    LET day == today
        none == assessed /\ day \notin DOMAIN briefings
    IN  /\ Doing(r, "dashboard")
        /\ none => \A q \in Requests : ~Drafting(q, day)
        /\ Go(r, [op |-> "briefing", day |-> txn[r].day, new |-> txn[r].new, briefing |-> day, insert |-> none,
                  jobs |-> IF assessed THEN 1 ELSE 0])
        /\ UNCHANGED <<roadmapVars, missionVars, today, dashboardVars>>

(* So does the briefing's; its job is enqueued by the insert that won.      *)
get_or_generate_briefing(r) ==
    LET day == today
        none == assessed /\ day \notin DOMAIN briefings
    IN  /\ Doing(r, "dashboard")
        /\ none => \A q \in Requests : ~Drafting(q, day)
        /\ Go(r, [op |-> "briefing", day |-> txn[r].day, new |-> txn[r].new, briefing |-> day, insert |-> none,
                  jobs |-> IF none THEN 1 ELSE 0])
        /\ UNCHANGED <<roadmapVars, missionVars, today, dashboardVars>>

_briefing_blocks(day) == IF day \in DOMAIN briefings THEN briefings[day] ELSE "empty"

CountOf(counts, day) == IF day \in DOMAIN counts THEN counts[day] ELSE 0

get_summary(r) ==
    LET t == txn[r]
        mine == IF t.new = << >> THEN << >> ELSE TaskRowsOf(t.day, t.new[1].tasks)
    IN  /\ Doing(r, "briefing")
        /\ missions' = IF t.new = << >> THEN missions
                       ELSE Put(missions, t.day, [by |-> "system", status |-> "pending"])
        /\ missionTasks' = mine @@ missionTasks
        /\ reasonJobs' = reasonJobs \cup IF mine = << >> THEN {} ELSE {t.day}
        /\ briefings' = IF t.insert THEN Put(briefings, t.briefing, "generating") ELSE briefings
        /\ briefingJobs' = IF t.jobs = 0 THEN briefingJobs
                           ELSE Put(briefingJobs, t.briefing, CountOf(briefingJobs, t.briefing) + 1)
        /\ Commit(r)
        /\ UNCHANGED <<roadmapVars, settings, events, today, assessed, briefed>>

-----------------------------------------------------------------------------
(* A worker runs a job of the queue, or runs it again: unless the briefing  *)
(* is still to be written, nothing happens.                                 *)
handle_dashboard_briefing(r) ==
    /\ \E d \in DOMAIN briefingJobs :
         /\ CountOf(briefed, d) < briefingJobs[d]
         /\ Begin(r, [op |-> "brief", day |-> d, writes |-> _briefing_blocks(d) = "generating"])
    /\ UNCHANGED <<roadmapVars, missionVars, today, dashboardVars>>

CommitBriefing(r) ==
    LET d == txn[r].day IN
    /\ Doing(r, "brief")
    /\ briefings' = IF txn[r].writes THEN Put(briefings, d, "ready") ELSE briefings
    /\ briefed' = Put(briefed, d, 1)
    /\ Commit(r)
    /\ UNCHANGED <<roadmapVars, missionVars, today, assessed, briefingJobs>>

(* complete_assessment, of Assessments.                                     *)
AssessmentCompleted ==
    /\ ~assessed /\ assessed' = TRUE
    /\ UNCHANGED <<roadmapVars, missionVars, today, txnVars, briefings, briefingJobs, briefed>>

DashboardStep(r) ==
    \/ dashboard_summary(r) \/ _mission_section(r) \/ get_or_generate_briefing(r) \/ get_summary(r)
    \/ handle_dashboard_briefing(r) \/ CommitBriefing(r)

(* Beside the summary, the mission's own page makes the day's mission, the  *)
(* roadmap is made, and the day ends.                                       *)
DashboardNext ==
    \/ \E r \in Requests :
         \/ DashboardStep(r)
         \/ (get_today(r) \/ get_or_generate_today(r) \/ CommitMission(r)) /\ UNCHANGED dashboardVars
         \/ (get_roadmap(r) \/ generate_roadmap(r) \/ CommitGenerate(r))
            /\ UNCHANGED <<missionVars, today, dashboardVars>>
         \/ Rollback(r) /\ UNCHANGED <<roadmapVars, missionVars, today, dashboardVars>>
    \/ Midnight /\ UNCHANGED dashboardVars
    \/ AssessmentCompleted

DashboardSpec == Init /\ DashboardInit /\ [][DashboardNext]_<<vars, dashboardVars>>

-----------------------------------------------------------------------------
DashboardTypeOK ==
    /\ assessed \in BOOLEAN
    /\ \A d \in DOMAIN briefings : briefings[d] \in {"generating", "ready"}

(* However summaries race for the day's first, over midnight or with the    *)
(* worker, a day's briefing has one job, which is done exactly when it is   *)
(* ready; nobody is left with a text that is never going to be written.     *)
BriefingHasJob ==
    \A d \in DOMAIN briefings \cup DOMAIN briefingJobs :
      /\ d \in DOMAIN briefings /\ CountOf(briefingJobs, d) = 1
      /\ briefings[d] = "ready" <=> CountOf(briefed, d) = 1
=============================================================================
