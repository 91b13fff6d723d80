----------------------------- MODULE Templates ------------------------------
(***************************************************************************)
(* The roadmap templates (src/app/services/roadmap/templates.py and        *)
(* gallery.py): a template is its phases, a phase its milestones, and a    *)
(* milestone the week it is due and how many tasks it has.                 *)
(***************************************************************************)
EXTENDS Integers, FiniteSets

idea == << << <<1, 2>>, <<3, 1>> >>, << <<6, 2>> >> >>
validation == << << <<2, 2>>, <<5, 2>> >>, << <<10, 2>> >> >>
build == << << <<8, 2>> >>, << <<14, 2>> >> >>
launch == << << <<3, 2>> >>, << <<6, 2>> >> >>
growth == << << <<6, 2>> >>, << <<12, 2>> >> >>
scale == << << <<8, 2>> >>, << <<20, 2>> >> >>

STAGE_TEMPLATES ==
    [idea |-> idea, validation |-> validation, build |-> build,
     launch |-> launch, growth |-> growth, scale |-> scale]

(* _stage_key: the idea template where the startup has no stage.            *)
TemplateOf(stage) ==
    IF stage \in DOMAIN STAGE_TEMPLATES THEN STAGE_TEMPLATES[stage] ELSE STAGE_TEMPLATES.idea

validation_sprint == << << <<1, 2>>, <<3, 1>> >> >>
mvp_build == << << <<6, 2>> >> >>
go_to_market == << << <<2, 2>> >> >>
pre_seed_raise == << << <<3, 2>>, <<8, 2>> >> >>
company_formation == << << <<2, 2>>, <<4, 2>> >> >>
scale_playbook == << << <<8, 2>> >> >>

GALLERY_TEMPLATES ==
    [validation_sprint |-> validation_sprint, mvp_build |-> mvp_build,
     go_to_market |-> go_to_market, pre_seed_raise |-> pre_seed_raise,
     company_formation |-> company_formation, scale_playbook |-> scale_playbook]

(* How many milestones and tasks a template has, by their places in it.     *)
MilestonesIn(tmpl) == UNION {{<<p, m>> : m \in DOMAIN tmpl[p]} : p \in DOMAIN tmpl}
TasksIn(tmpl) == UNION {{<<i[1], i[2], t>> : t \in 1..tmpl[i[1]][i[2]][2]} : i \in MilestonesIn(tmpl)}

template_counts(tmpl) == <<Cardinality(MilestonesIn(tmpl)), Cardinality(TasksIn(tmpl))>>
=============================================================================
