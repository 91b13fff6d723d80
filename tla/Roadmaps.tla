------------------------------ MODULE Roadmaps ------------------------------
(***************************************************************************)
(* The roadmap of one startup (src/app/services/roadmap/service.py and the *)
(* endpoints of src/app/api/v1/endpoints/roadmap.py that edit it): its     *)
(* generation from the stage's template, the gallery's templates, and the  *)
(* phases, milestones and tasks editors create, change and delete.         *)
(* Dependencies and re-planning are in modules of their own.               *)
(***************************************************************************)
EXTENDS Transactions, Rounding, Templates, Functions, SequencesExt, FiniteSetsExt, TLC

CONSTANTS
    Stage,      \* the startup's stage
    Gallery,    \* templates of the gallery that are applied
    NoRoadmap

VARIABLES
    roadmap,     \* the templates applied to it, NoRoadmap before it exists
    phases,      \* id -> order
    milestones,  \* id -> milestone
    tasks,       \* id -> task
    built,       \* trees and rows created so far
    generated,   \* roadmap.generated events of committed requests
    announced    \* milestones with a roadmap.milestone.completed event

roadmapVars == <<roadmap, phases, milestones, tasks, built, generated, announced>>

Roadmap == Seq(DOMAIN GALLERY_TEMPLATES)

ASSUME GalleryAssumption == Gallery \subseteq DOMAIN GALLERY_TEMPLATES
ASSUME NoRoadmapAssumption == NoRoadmap \notin Roadmap

Statuses == {"todo", "done"}   \* in_progress counts as todo
Milestone == [phase : DOMAIN phases, due : Nat, status : Statuses, progress : 0..100, order : Nat]
Task == [milestone : DOMAIN milestones, status : Statuses, order : Nat]

RoadmapInit ==
    /\ roadmap = NoRoadmap
    /\ phases = << >> /\ milestones = << >> /\ tasks = << >>
    /\ built = 0 /\ generated = 0 /\ announced = {}

-----------------------------------------------------------------------------
(* A template's rows, as the nth tree: ids are <<n, phase, ...>>.           *)
PhaseRows(n, tmpl, start) == [i \in {<<n, p>> : p \in DOMAIN tmpl} |-> start + i[2] - 1]
MilestoneRows(n, tmpl) ==
    [i \in UNION {{<<n, p, m>> : m \in DOMAIN tmpl[p]} : p \in DOMAIN tmpl} |->
       [phase |-> <<n, i[2]>>, due |-> 7 * tmpl[i[2]][i[3]][1], status |-> "todo",
        progress |-> 0, order |-> i[3] - 1]]
TaskRows(n, tmpl) ==
    [i \in UNION {{m \o <<t>> : t \in 1..tmpl[m[2]][m[3]][2]} : m \in DOMAIN MilestoneRows(n, tmpl)} |->
       [milestone |-> SubSeq(i, 1, 3), status |-> "todo", order |-> i[4] - 1]]

_max_phase_order(ps) == Max({ps[p] : p \in DOMAIN ps} \cup {-1})

(* apply_template's loops, and generate_roadmap's, after the rows ps, ms    *)
(* and ts; two trees are made where there are no rows yet.                  *)
AddTree(ps, ms, ts, tmpls) ==
    LET n == built + 1 IN
    /\ built' = built + Len(tmpls)
    /\ IF Len(tmpls) = 2
       THEN /\ phases' = PutAll(PhaseRows(n, tmpls[1], 0), PhaseRows(n + 1, tmpls[2], Len(tmpls[1])))
            /\ milestones' = PutAll(MilestoneRows(n, tmpls[1]), MilestoneRows(n + 1, tmpls[2]))
            /\ tasks' = PutAll(TaskRows(n, tmpls[1]), TaskRows(n + 1, tmpls[2]))
       ELSE /\ phases' = PutAll(ps, PhaseRows(n, tmpls[1], _max_phase_order(ps) + 1))
            /\ milestones' = PutAll(ms, MilestoneRows(n, tmpls[1]))
            /\ tasks' = PutAll(ts, TaskRows(n, tmpls[1]))

(* What the gallery shows of its templates, and of one of them.             *)
list_templates ==
    [t \in DOMAIN GALLERY_TEMPLATES |->
       [counts |-> template_counts(GALLERY_TEMPLATES[t]),
        applied |-> roadmap # NoRoadmap /\ t \in ToSet(roadmap)]]
preview_template(t) == [counts |-> template_counts(GALLERY_TEMPLATES[t]), phases |-> GALLERY_TEMPLATES[t]]

(* Mutant of ClaimTaken: another's claim is not waited for, nor seen.       *)
ClaimIgnored(r) == FALSE

ClaimTaken(r) == roadmap # NoRoadmap

-----------------------------------------------------------------------------
(* get_roadmap, post_generate and apply_template_ep load the roadmap; where *)
(* there is none, generate_roadmap claims it with an insert that waits for  *)
(* another's and, when that committed, loads the winner's.                  *)
get_roadmap(r) ==
    /\ roadmap = NoRoadmap
    /\ Begin(r, [op |-> "claim", template |-> "none"]) /\ UNCHANGED roadmapVars

apply_template_ep(r) ==
    /\ \E t \in Gallery :
         IF roadmap = NoRoadmap THEN Begin(r, [op |-> "claim", template |-> t])
         ELSE Begin(r, [op |-> "apply", template |-> t, applied |-> roadmap])
    /\ UNCHANGED roadmapVars

generate_roadmap(r) ==
    /\ Doing(r, "claim") /\ (~ClaimTaken(r) => ~Others(r, "claimed"))
    /\ IF ~ClaimTaken(r) THEN Go(r, [txn[r] EXCEPT !.op = "claimed"])
       ELSE IF txn[r].template = "none" THEN Go(r, Idle)
       ELSE Go(r, [op |-> "apply", template |-> txn[r].template, applied |-> roadmap])
    /\ UNCHANGED roadmapVars

CommitGenerate(r) ==
    /\ Doing(r, "claimed")
    /\ LET t == txn[r].template
           first == TemplateOf(Stage)
       IN  IF t = "none"
           THEN roadmap' = << >> /\ AddTree(<< >>, << >>, << >>, <<first>>)
           ELSE roadmap' = <<t>>
                /\ AddTree(<< >>, << >>, << >>, <<first, GALLERY_TEMPLATES[t]>>)
    /\ generated' = generated + 1
    /\ Commit(r)
    /\ UNCHANGED announced

(* Mutant of apply_template: the loaded list is not looked at.              *)
apply_again(r) ==
    /\ Doing(r, "apply")
    /\ roadmap' = Append(txn[r].applied, txn[r].template)
    /\ AddTree(phases, milestones, tasks, <<GALLERY_TEMPLATES[txn[r].template]>>)
    /\ Commit(r)
    /\ UNCHANGED <<generated, announced>>

(* A template in the loaded list is not applied again; the list written is  *)
(* the loaded one with the template.                                        *)
apply_template(r) ==
    /\ Doing(r, "apply")
    /\ IF txn[r].template \in ToSet(txn[r].applied) THEN UNCHANGED roadmapVars
       ELSE /\ roadmap' = Append(txn[r].applied, txn[r].template)
            /\ AddTree(phases, milestones, tasks, <<GALLERY_TEMPLATES[txn[r].template]>>)
            /\ UNCHANGED <<generated, announced>>
    /\ Commit(r)

-----------------------------------------------------------------------------
_milestone(m) == m \in DOMAIN milestones
_task(t) == t \in DOMAIN tasks

TasksOf(ts, m) == {t \in DOMAIN ts : ts[t].milestone = m}

recompute_milestone_progress(m, status, ts) ==
    LET mine == TasksOf(ts, m) IN
    IF mine = {} THEN IF status = "done" THEN 100 ELSE 0
    ELSE Pct(Cardinality({t \in mine : ts[t].status = "done"}), Cardinality(mine))

(* What the reader of the roadmap gets.                                     *)
serialize_tree(ms, ts) ==
    [m \in DOMAIN ms |-> [phase |-> ms[m].phase, status |-> ms[m].status, progress |-> ms[m].progress,
                          tasks |-> Restrict(ts, TasksOf(ts, m))]]

NextOrder(orders) == Max(orders \cup {-1}) + 1

(* An edit is flushed, which waits for another's of the same row, and then  *)
(* the tasks are counted.  A column that is set to what was loaded is not   *)
(* written.                                                                 *)
Unlocked(i) == \A q \in Requests : txn[q].op \in {"task", "milestone"} => txn[q].id # i

(* Mutant of Edit: the tasks are counted before the flush.                  *)
EditUnflushed(op, i, m, was, status, ts, mstatus) ==
    [op |-> op, id |-> i, milestone |-> m, was |-> was, status |-> status,
     old |-> milestones[m].progress, new |-> recompute_milestone_progress(m, mstatus, tasks)]

Edit(op, i, m, was, status, ts, mstatus) ==
    [op |-> op, id |-> i, milestone |-> m, was |-> was, status |-> status,
     old |-> milestones[m].progress, new |-> recompute_milestone_progress(m, mstatus, ts)]

Written(status, t) == IF t.status = t.was THEN status ELSE t.status

Progressed(ms, t) ==
    IF t.new = t.old \/ t.milestone \notin DOMAIN ms THEN ms
    ELSE [ms EXCEPT ![t.milestone].progress = t.new]

create_task_ep(r) ==
    \E m \in DOMAIN milestones, s \in Statuses :
      /\ Begin(r, Edit("new_task", NoRoadmap, m, "none", s,
                       Put(tasks, <<0>>, [milestone |-> m, status |-> s]), milestones[m].status))
      /\ UNCHANGED roadmapVars

update_task_ep(r) ==
    \E t \in DOMAIN tasks, s \in Statuses :
      /\ _task(t) /\ Unlocked(t)
      /\ Begin(r, Edit("task", t, tasks[t].milestone, tasks[t].status, s, [tasks EXCEPT ![t].status = s],
                       milestones[tasks[t].milestone].status))
      /\ UNCHANGED roadmapVars

delete_task_ep(r) ==
    \E t \in DOMAIN tasks :
      /\ _task(t) /\ Unlocked(t)
      /\ Begin(r, Edit("task", t, tasks[t].milestone, tasks[t].status, "deleted", Restrict(tasks, DOMAIN tasks \ {t}),
                       milestones[tasks[t].milestone].status))
      /\ UNCHANGED roadmapVars

update_milestone_ep(r) ==
    \E m \in DOMAIN milestones, s \in Statuses :
      /\ _milestone(m) /\ Unlocked(m)
      /\ Begin(r, Edit("milestone", m, m, milestones[m].status, s, tasks, s))
      /\ UNCHANGED roadmapVars

(* The commit; a row deleted meanwhile makes the request fail.              *)
CommitTask(r) ==
    LET t == txn[r] IN
    /\ t.op \in {"new_task", "task"} /\ _milestone(t.milestone)
    /\ \/ /\ Doing(r, "new_task")
          /\ built' = built + 1
          /\ tasks' = Put(tasks, <<built'>>,
                [milestone |-> t.milestone, status |-> t.status,
                 order |-> NextOrder({tasks[i].order : i \in TasksOf(tasks, t.milestone)})])
       \/ /\ Doing(r, "task") /\ _task(t.id)
          /\ tasks' = IF t.status = "deleted" THEN Restrict(tasks, DOMAIN tasks \ {t.id})
                      ELSE [tasks EXCEPT ![t.id].status = Written(@, t)]
          /\ UNCHANGED built
    /\ milestones' = Progressed(milestones, t)
    /\ Commit(r)
    /\ UNCHANGED <<roadmap, phases, generated, announced>>

CommitMilestone(r) ==
    LET t == txn[r] IN
    /\ Doing(r, "milestone") /\ _milestone(t.id)
    /\ milestones' = Progressed([milestones EXCEPT ![t.id].status = Written(@, t)], t)
    /\ announced' = announced \cup
          IF t.status = "done" /\ t.was # "done" THEN {t.id} ELSE {}
    /\ Commit(r)
    /\ UNCHANGED <<roadmap, phases, tasks, built, generated>>

(* Edits that load and write no more than a row: their own steps.  Deletes  *)
(* cascade.                                                                 *)
create_milestone_ep(r) ==
    \E p \in DOMAIN phases, s \in Statuses :
      /\ built' = built + 1
      /\ milestones' = Put(milestones, <<built'>>,
            [phase |-> p, due |-> 0, status |-> s, progress |-> IF s = "done" THEN 100 ELSE 0,
             order |-> NextOrder({milestones[m].order :
                         m \in {n \in DOMAIN milestones : milestones[n].phase = p}})])
      /\ Serve(r)
      /\ UNCHANGED <<roadmap, phases, tasks, generated, announced>>

create_phase(r) ==
    /\ roadmap # NoRoadmap
    /\ built' = built + 1
    /\ phases' = Put(phases, <<built'>>, NextOrder({phases[p] : p \in DOMAIN phases}))
    /\ Serve(r)
    /\ UNCHANGED <<roadmap, milestones, tasks, generated, announced>>

update_phase(r) ==
    /\ \E p \in DOMAIN phases, order \in 0..1 : phases' = [phases EXCEPT ![p] = order]
    /\ Serve(r)
    /\ UNCHANGED <<roadmap, milestones, tasks, built, generated, announced>>

KeepMilestones(ms) ==
    /\ milestones' = Restrict(milestones, ms)
    /\ tasks' = Restrict(tasks, {t \in DOMAIN tasks : tasks[t].milestone \in ms})

delete_milestone_ep(r) ==
    \E m \in DOMAIN milestones :
      /\ KeepMilestones(DOMAIN milestones \ {m})
      /\ Serve(r)
      /\ UNCHANGED <<roadmap, phases, built, generated, announced>>

delete_phase(r) ==
    \E p \in DOMAIN phases :
      /\ phases' = Restrict(phases, DOMAIN phases \ {p})
      /\ KeepMilestones({m \in DOMAIN milestones : milestones[m].phase # p})
      /\ Serve(r)
      /\ UNCHANGED <<roadmap, built, generated, announced>>

RoadmapStep(r) ==
    \/ get_roadmap(r) \/ generate_roadmap(r) \/ CommitGenerate(r)
    \/ apply_template_ep(r) \/ apply_template(r)
    \/ create_task_ep(r) \/ update_task_ep(r) \/ delete_task_ep(r) \/ CommitTask(r)
    \/ update_milestone_ep(r) \/ CommitMilestone(r)
    \/ create_milestone_ep(r) \/ delete_milestone_ep(r)
    \/ create_phase(r) \/ update_phase(r) \/ delete_phase(r)

-----------------------------------------------------------------------------
RoadmapTypeOK ==
    /\ roadmap = NoRoadmap \/ roadmap \in Roadmap
    /\ \A p \in DOMAIN phases : phases[p] \in Nat
    /\ \A m \in DOMAIN milestones : milestones[m] \in Milestone
    /\ \A t \in DOMAIN tasks : tasks[t] \in Task

(* However many requests ask for the roadmap at once, one tree is built and *)
(* announced once.                                                          *)
GeneratedOnce == generated = IF roadmap = NoRoadmap THEN 0 ELSE 1

(* An edit of a task or a milestone that no other request commits into      *)
(* leaves the milestone's progress as its tasks say, whatever earlier       *)
(* edits that raced have left there.                                        *)
EditSetsProgress ==
    [][\A r \in Requests :
         /\ txn[r].op \in {"task", "new_task", "milestone"} /\ alone[r]
         /\ txn'[r] = Idle /\ <<milestones, tasks>>' # <<milestones, tasks>>
         => LET shown == serialize_tree(milestones', tasks')[txn[r].milestone] IN
            shown.progress = recompute_milestone_progress(txn[r].milestone, shown.status, shown.tasks)
      ]_<<roadmapVars, txn>>

(* A template applied while no other request commits adds as many           *)
(* milestones and tasks as the gallery announced for it, and nothing where  *)
(* the gallery listed it as applied.                                        *)
AppliedAsAnnounced ==
    [][\A r \in Requests :
         Doing(r, "apply") /\ alone[r] /\ txn'[r] = Idle /\ served' = served
         /\ (roadmap' # roadmap \/ built' # built) =>
           LET t == txn[r].template IN
           /\ ~list_templates[t].applied
           /\ <<Cardinality(DOMAIN milestones') - Cardinality(DOMAIN milestones),
                Cardinality(DOMAIN tasks') - Cardinality(DOMAIN tasks)>> = preview_template(t).counts
      ]_<<roadmapVars, txn>>
=============================================================================
