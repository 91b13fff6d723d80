------------------------------ MODULE Missions ------------------------------
(***************************************************************************)
(* The daily mission of one startup (src/app/services/mission/service.py   *)
(* and its endpoints), taken from the tasks of the roadmap of Roadmaps.    *)
(* The day's mission is made by the first request that asks for it.        *)
(***************************************************************************)
EXTENDS Roadmaps

CONSTANTS
    Weekend,           \* days without missions, unless they are switched on
    StreakMilestones,  \* streaks that are announced
    MaxDay             \* bound: days that pass

VARIABLES
    today,
    missions,      \* day -> its mission
    missionTasks,  \* id -> task of a mission
    settings,      \* the startup's row, NoSettings before it is first asked for
    reasonJobs,    \* days whose reasons are to be written by the model
    events         \* mission events of committed requests

missionVars == <<missions, missionTasks, settings, reasonJobs, events>>
vars == <<roadmapVars, missionVars, today, txnVars>>

Mission == [by : {"system", "user"}, status : {"pending", "complete"}]
MissionTask ==
    [day : 0..MaxDay, source : Seq(Nat), status : {"todo", "done", "snoozed", "rejected"},
     order : Nat, reason : {"template", "ai", "none"}]
MissionSettings == [size : 1..3, weekend : BOOLEAN]
Defaults == [size |-> 3, weekend |-> FALSE]
NoSettings == [size |-> 0]
_settings == IF settings = NoSettings THEN Defaults ELSE settings

MissionInit ==
    /\ today = 0 /\ missions = << >> /\ missionTasks = << >>
    /\ settings = NoSettings /\ reasonJobs = {} /\ events = {}

-----------------------------------------------------------------------------
Of(day) == {t \in DOMAIN missionTasks : missionTasks[t].day = day}
Sorted(set, Less(_, _)) ==
    FoldSet(LAMBDA x, seq : LET n == Cardinality({i \in DOMAIN seq : ~Less(x, seq[i])})
                            IN  InsertAt(seq, n + 1, x), << >>, set)
InOrder(ts) == Sorted(ts, LAMBDA a, b : missionTasks[a].order < missionTasks[b].order)

(* The roadmap's open tasks: by due date, then phase, milestone and task.   *)
Rank(t) ==
    LET m == milestones[tasks[t].milestone]
    IN  <<m.due, phases[m.phase], m.order, tasks[t].order>>
Before(a, b) == \E i \in 1..4 : a[i] < b[i] /\ \A j \in 1..i - 1 : a[j] = b[j]

_candidate_tasks ==
    Sorted({t \in DOMAIN tasks : tasks[t].status # "done"}, LAMBDA a, b : Before(Rank(a), Rank(b)))

_most_recent_prior_mission(day) == Max({d \in DOMAIN missions : d < day} \cup {-1})

_snoozed_tasks(day) == InOrder({t \in Of(day) : missionTasks[t].status = "snoozed"})

FirstOf(seq, n) == SubSeq(seq, 1, Min({n, Len(seq)}))

Fresh(seq, carried) == SelectSeq(seq, LAMBDA t : t \notin carried)

(* What the day's mission is made of: the snoozed tasks of the last one     *)
(* before it, then the roadmap's, up to the mission's size.                 *)
Chosen(day) ==
    LET size == _settings.size
        carried == FirstOf(_snoozed_tasks(_most_recent_prior_mission(day)), size)
        sources == {missionTasks[c].source : c \in ToSet(carried)}
        new == FirstOf(Fresh(_candidate_tasks, sources), size - Len(carried))
    IN  IF day \in Weekend /\ ~_settings.weekend THEN << >>
        ELSE [i \in DOMAIN carried |->
                [source |-> missionTasks[carried[i]].source, reason |-> missionTasks[carried[i]].reason]]
             \o [i \in DOMAIN new |-> [source |-> new[i], reason |-> "template"]]

TaskRowsOf(day, chosen) ==
    [i \in {<<day, n>> : n \in DOMAIN chosen} |->
       [day |-> day, source |-> chosen[i[2]].source, reason |-> chosen[i[2]].reason,
        status |-> "todo", order |-> i[2] - 1]]

-----------------------------------------------------------------------------
(* get_today and create_task ask for the day's mission; where there is none *)
(* it is inserted, which waits for another's insert of that day and fails   *)
(* when that committed.                                                     *)
Ask(r, op) ==
    IF today \in DOMAIN missions
    THEN op = "custom" /\ Begin(r, [op |-> op, day |-> today, new |-> << >>])
    ELSE (roadmap # NoRoadmap \/ op = "custom") /\ Begin(r, [op |-> "ask", next |-> op, day |-> today])

get_today(r) == Ask(r, "today") /\ UNCHANGED <<roadmapVars, missionVars, today>>
create_task(r) == Ask(r, "custom") /\ UNCHANGED <<roadmapVars, missionVars, today>>

(* Requests that have inserted the day's mission, Dashboard's summary too.  *)
Inserting(q) == txn[q].op \in {"today", "custom", "dashboard", "briefing"} /\ txn[q].new # << >>

(* Mutant of get_or_generate_today: made without waiting for another.       *)
generate_unlocked(r) ==
    /\ Doing(r, "ask") /\ txn[r].day \notin DOMAIN missions
    /\ Go(r, [op |-> txn[r].next, day |-> txn[r].day,
              new |-> <<[by |-> "system", tasks |-> Chosen(txn[r].day)]>>])
    /\ UNCHANGED <<roadmapVars, missionVars, today>>

get_or_generate_today(r) ==
    /\ Doing(r, "ask")
    /\ txn[r].day \notin DOMAIN missions /\ \A q \in Requests : ~Inserting(q)
    /\ Go(r, [op |-> txn[r].next, day |-> txn[r].day,
              new |-> IF roadmap # NoRoadmap
                      THEN <<[by |-> "system", tasks |-> Chosen(txn[r].day)]>>
                      ELSE <<[by |-> "user", tasks |-> << >>]>>])
    /\ UNCHANGED <<roadmapVars, missionVars, today>>

(* A user's own task goes to the end.                                       *)
add_custom_task(day, rows) ==
    (<<day, Cardinality({t \in DOMAIN rows : rows[t].day = day}) + 1>> :>
       [day |-> day, source |-> << >>, reason |-> "none", status |-> "todo",
        order |-> NextOrder({rows[t].order : t \in {u \in DOMAIN rows : rows[u].day = day}})]) @@ rows

CommitMission(r) ==
    LET t == txn[r]
        mine == IF t.new = << >> THEN << >> ELSE TaskRowsOf(t.day, t.new[1].tasks)
        rows == mine @@ missionTasks
    IN  /\ t.op \in {"today", "custom"}
        /\ missions' = IF t.new = << >> THEN missions
                       ELSE Put(missions, t.day, [by |-> t.new[1].by, status |-> "pending"])
        /\ missionTasks' = IF t.op = "custom" THEN add_custom_task(t.day, rows) ELSE rows
        /\ reasonJobs' = reasonJobs \cup IF mine = << >> THEN {} ELSE {t.day}
        /\ Commit(r)
        /\ UNCHANGED <<roadmapVars, settings, events, today>>

-----------------------------------------------------------------------------
(* streak: complete days up to today, or yesterday when today is not.       *)
streak(ms) ==
    LET done(d) == d \in DOMAIN ms /\ ms[d].status = "complete"
        last == IF done(today) THEN today ELSE today - 1
    IN  last - Max({d \in -1..last : ~done(d)} \cup {-1})

(* _history_counts: done, and not rejected.                                 *)
_history_counts(day, rows) ==
    <<Cardinality({t \in DOMAIN rows : rows[t].day = day /\ rows[t].status = "done"}),
      Cardinality({t \in DOMAIN rows : rows[t].day = day /\ rows[t].status # "rejected"})>>

_weekly_completion_pct(ms, rows) ==
    LET window == {d \in DOMAIN ms : d \in today - 6..today /\ _history_counts(d, rows)[2] > 0}
    IN  IF window = {} THEN 0
        ELSE Pct(Cardinality({d \in window : ms[d].status = "complete"}), Cardinality(window))

mission_history(ms, rows) ==
    [missions |-> [d \in DOMAIN ms |-> [counts |-> _history_counts(d, rows), status |-> ms[d].status]],
     weekly |-> _weekly_completion_pct(ms, rows)]

(* Mutant of _maybe_complete_mission: every task may have been rejected.    *)
_maybe_complete_any(day, rows) ==
    LET n == _history_counts(day, rows)
    IN  missions[day].status # "complete" /\ n[1] = n[2]

(* Is the day now complete: nothing left but done and rejected, and not     *)
(* everything rejected.                                                     *)
_maybe_complete_mission(day, rows) ==
    LET n == _history_counts(day, rows)
    IN  missions[day].status # "complete" /\ n[1] = n[2] /\ n[1] > 0

(* patch_task loads the task and, once no other request holds its row,      *)
(* flushes the new status and looks at the mission.                         *)
patch_task(r) ==
    /\ \E t \in DOMAIN missionTasks, s \in {"done", "snoozed", "rejected"} :
         /\ ~(s = "done" /\ missionTasks[t].status = "done")
         /\ Begin(r, [op |-> "patch", task |-> t, was |-> missionTasks[t].status, status |-> s])
    /\ UNCHANGED <<roadmapVars, missionVars, today>>

With(t) == IF t.status = t.was THEN missionTasks
           ELSE [missionTasks EXCEPT ![t.task].status = t.status]

complete_task(r) ==
    LET t == txn[r] IN
    /\ Doing(r, "patch")
    /\ \A q \in Requests : Doing(q, "patched") => txn[q].task # t.task
    /\ Go(r, [op |-> "patched", task |-> t.task, was |-> t.was, status |-> t.status,
              completes |-> t.status # "snoozed"
                            /\ _maybe_complete_mission(missionTasks[t.task].day, With(t))])
    /\ UNCHANGED <<roadmapVars, missionVars, today>>

CommitPatch(r) ==
    LET t == txn[r]
        day == missionTasks[t.task].day
        done == [missions EXCEPT ![day].status = "complete"]
    IN  /\ Doing(r, "patched")
        /\ missionTasks' = With(t)
        /\ missions' = IF t.completes THEN done ELSE missions
        /\ events' = events \cup IF ~t.completes THEN {}
                     ELSE {<<"mission.completed", day>>} \cup
                          IF streak(done) \in StreakMilestones
                          THEN {<<"mission.streak.milestone", streak(done)>>} ELSE {}
        /\ Commit(r)
        /\ UNCHANGED <<roadmapVars, settings, reasonJobs, today>>

reorder_task(r) ==
    /\ \E t \in DOMAIN missionTasks, n \in 0..1 :
         missionTasks' = [missionTasks EXCEPT ![t].order = n]
    /\ Serve(r)
    /\ UNCHANGED <<roadmapVars, missions, settings, reasonJobs, events, today>>

(* handle_mission_reason reads the tasks, asks the model and writes the     *)
(* reasons it gave.                                                         *)
handle_mission_reason(r) ==
    /\ \E d \in reasonJobs : Of(d) # {} /\ Begin(r, [op |-> "reason", day |-> d, tasks |-> Of(d)])
    /\ UNCHANGED <<roadmapVars, missionVars, today>>

CommitReason(r) ==
    /\ Doing(r, "reason")
    /\ \E some \in SUBSET txn[r].tasks :
         missionTasks' = [t \in DOMAIN missionTasks |->
           IF t \in some THEN [missionTasks[t] EXCEPT !.reason = "ai"] ELSE missionTasks[t]]
    /\ reasonJobs' = reasonJobs \ {txn[r].day}
    /\ Commit(r)
    /\ UNCHANGED <<roadmapVars, missions, settings, events, today>>

(* get_settings makes the row; of two that do, one fails.                   *)
get_settings(r) ==
    /\ settings = NoSettings /\ settings' = Defaults
    /\ Serve(r)
    /\ UNCHANGED <<roadmapVars, missions, missionTasks, reasonJobs, events, today>>

patch_settings(r) ==
    /\ \E size \in 1..3, weekend \in BOOLEAN : settings' = [size |-> size, weekend |-> weekend]
    /\ Serve(r)
    /\ UNCHANGED <<roadmapVars, missions, missionTasks, reasonJobs, events, today>>

Midnight ==
    /\ today < MaxDay /\ today' = today + 1
    /\ UNCHANGED <<roadmapVars, missionVars, txnVars>>

MissionStep(r) ==
    \/ get_today(r) \/ create_task(r) \/ get_or_generate_today(r) \/ CommitMission(r)
    \/ patch_task(r) \/ complete_task(r) \/ CommitPatch(r) \/ reorder_task(r)
    \/ handle_mission_reason(r) \/ CommitReason(r) \/ get_settings(r) \/ patch_settings(r)

Init == TransactionsInit /\ RoadmapInit /\ MissionInit

Next ==
    \/ \E r \in Requests :
         \/ MissionStep(r)
         \/ RoadmapStep(r) /\ UNCHANGED <<missionVars, today>>
         \/ Rollback(r) /\ UNCHANGED <<roadmapVars, missionVars, today>>
    \/ Midnight

Spec == Init /\ [][Next]_vars

-----------------------------------------------------------------------------
(* Types; a day has at most one mission being made or made, and the week's  *)
(* share is a percentage.                                                   *)
TypeOK ==
    /\ RoadmapTypeOK
    /\ \A d \in DOMAIN missions : missions[d] \in Mission
    /\ \A t \in DOMAIN missionTasks : missionTasks[t] \in MissionTask
    /\ \A r \in Requests : Inserting(r) =>
         txn[r].day \notin DOMAIN missions /\ \A q \in Requests : Inserting(q) => q = r
    /\ mission_history(missions, missionTasks).weekly \in 0..100

(* A mission that completes while no other request commits reads as fully   *)
(* done in the history, with at least one task done: a day of rejections    *)
(* never counts for the streak.                                             *)
CompletionEarned ==
    [][\A d \in DOMAIN missions, r \in Requests :
         missions'[d].status # missions[d].status /\ txn'[r] # txn[r] /\ alone[r] =>
           LET n == mission_history(missions', missionTasks').missions[d].counts
           IN  n[1] = n[2] /\ n[1] > 0]_vars
=============================================================================
