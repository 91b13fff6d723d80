--------------------------- MODULE AssessmentBank ---------------------------
(***************************************************************************)
(* The questions of the startup assessment and what is computed from its   *)
(* answers (src/app/services/assessment/bank.py, engine.py, scoring.py).   *)
(* An assessment's answers are a function from some questions' keys.       *)
(***************************************************************************)
EXTENDS Rounding, Sequences, SequencesExt

Dimension == <<"product", "market", "money", "legal", "team">>

Always == <<"", {}>>
Choice(key, dim, points, show_if) ==
    [key |-> key, dim |-> dim, qtype |-> "single_choice", points |-> points, show_if |-> show_if]
Scale(key, dim, show_if) ==
    [key |-> key, dim |-> dim, qtype |-> "scale_1_5", points |-> [i \in 1..5 |-> i], show_if |-> show_if]
Currency(key, dim, show_if) ==
    [key |-> key, dim |-> dim, qtype |-> "numeric_currency", points |-> << >>, show_if |-> show_if]

(* The options of a question with their points, and the earlier answer that *)
(* makes it applicable.                                                     *)
ASSESSMENT_BANK == <<
    Choice("product_stage", "product", [idea |-> 1, prototype |-> 2, mvp |-> 3, live |-> 4], Always),
    Scale("product_confidence", "product", <<"product_stage", {"mvp", "live"}>>),
    Scale("market_clarity", "market", Always),
    Choice("market_research", "market", [none |-> 0, some |-> 2, deep |-> 3], Always),
    Choice("has_revenue", "money", [no |-> 0, yes |-> 2], Always),
    Currency("mrr", "money", <<"has_revenue", {"yes"}>>),
    Scale("runway_confidence", "money", Always),
    Choice("incorporated", "legal", [no |-> 0, yes |-> 2], Always),
    Choice("ip_assigned", "legal", [no |-> 0, unsure |-> 1, yes |-> 2], <<"incorporated", {"yes"}>>),
    Choice("team_size", "team", [solo |-> 1, cofounders |-> 3, team |-> 3], Always),
    Scale("team_confidence", "team", Always) >>

question_by_key(key) == CHOOSE q \in ToSet(ASSESSMENT_BANK) : q.key = key

is_applicable(q, answers) ==
    q.show_if = Always \/ (q.show_if[1] \in DOMAIN answers /\ answers[q.show_if[1]] \in q.show_if[2])

(* The first applicable question without an answer, if there is one.        *)
next_question(answers) ==
    LET open == {i \in DOMAIN ASSESSMENT_BANK :
                   /\ ASSESSMENT_BANK[i].key \notin DOMAIN answers
                   /\ is_applicable(ASSESSMENT_BANK[i], answers)}
    IN  IF open = {} THEN << >> ELSE <<ASSESSMENT_BANK[Min(open)]>>

(* The valid answers; one amount stands for all.                            *)
validate_answer(q) == IF q.qtype = "numeric_currency" THEN {0} ELSE DOMAIN q.points

MaxPoints(q) == Max({q.points[v] : v \in DOMAIN q.points} \cup {0})
_points(q, value) == IF q.qtype = "numeric_currency" THEN 0 ELSE q.points[value]

Counts(q, d, answers) ==
    q.dim = d /\ MaxPoints(q) > 0 /\ q.key \in DOMAIN answers /\ is_applicable(q, answers)

earned(d, answers) ==
    Total([i \in DOMAIN ASSESSMENT_BANK |->
             LET q == ASSESSMENT_BANK[i] IN
             IF Counts(q, d, answers) THEN _points(q, answers[q.key]) ELSE 0])

maxsum(d, answers) ==
    Total([i \in DOMAIN ASSESSMENT_BANK |->
             LET q == ASSESSMENT_BANK[i] IN IF Counts(q, d, answers) THEN MaxPoints(q) ELSE 0])

(* Each dimension's share of the points its answered questions can earn,    *)
(* which needs no clamping to 0..100.                                       *)
score(answers) ==
    [d \in ToSet(Dimension) |->
       IF maxsum(d, answers) = 0 THEN 50 ELSE Pct(earned(d, answers), maxsum(d, answers))]

(* The dimensions' mean.                                                    *)
overall_provisional(scores) ==
    Round(Total([i \in DOMAIN Dimension |-> scores[Dimension[i]]]), Len(Dimension))
=============================================================================
