---------------------------- MODULE MCAssessments ----------------------------
(* Assessments one or two answers short of their end, after none, one or    *)
(* two earlier ones, or after one from before there were health scores.     *)
EXTENDS Assessments

CONSTANTS r1, r2, Open, Past

MCRequests == {r1, r2}
MCSymmetry == Permutations(MCRequests)
LastOpen == {"team_confidence"}
Pasts == { << >>, <<"low">>, <<"high", "low">>}

Weak == [low |-> {"product", "legal"}, mixed |-> {"legal"}, high |-> {}]

(* Every question answered with its most, or its least in the weak         *)
(* dimensions of a kind, but those in open.                                 *)
Extreme(q, most) ==
    CHOOSE v \in validate_answer(q) : \A w \in validate_answer(q) :
      IF most THEN _points(q, w) <= _points(q, v) ELSE _points(q, v) <= _points(q, w)
Filled(kind, open) ==
    FoldLeft(LAMBDA f, q :
               IF q.key \in open \/ ~is_applicable(q, f) THEN f
               ELSE (q.key :> Extreme(q, q.dim \notin Weak[kind])) @@ f,
             << >>, ASSESSMENT_BANK)

Done(kind, i) ==
    [type |-> IF i = 1 THEN "initial" ELSE "quarterly", status |-> "completed", answers |-> Filled(kind, {})]
ScoreOf(kind) == score(Filled(kind, {}))

MCInit ==
    /\ TransactionsInit /\ week = 0
    /\ \E past \in Past, old \in BOOLEAN :
         LET n == Len(past)
             last == ScoreOf(past[n])
             overall == weighted_overall(last)
             none == n = 0 \/ old
         IN
         /\ old => past = <<"low">>
         /\ \E kind \in {"low", "mixed"} :
              assessments = Append([i \in 1..n |-> Done(past[i], i)],
                [type |-> IF n = 0 THEN "initial" ELSE "quarterly", status |-> "in_progress",
                 answers |-> Filled(kind, Open)])
         /\ completions = [i \in 1..n + 1 |-> IF i <= n THEN 1 ELSE 0]
         /\ pending = (n = 0) /\ narratives = {}
         /\ results = [i \in 1..n |-> [scores |-> ScoreOf(past[i]), narrative |-> "ai"]]
         /\ health = IF none THEN NoScore
                     ELSE [scores |-> last, score |-> overall, band |-> band_for(overall)]
         /\ signals = IF none THEN {} ELSE {[dim |-> d, value |-> last[d], by |-> n] : d \in ToSet(Dimension)}
         /\ history = IF none THEN << >>
              ELSE [i \in 1..n |-> [score |-> weighted_overall(ScoreOf(past[i])), week |-> 0,
                                    delta |-> weighted_overall(ScoreOf(past[i])) - weighted_overall(ScoreOf(past[1]))]]
         /\ recs = IF none THEN << >>
              ELSE [k \in ToSet(candidates(last)) |->
                     [status |-> "pending", body |-> "default",
                      priority |-> CHOOSE i \in DOMAIN candidates(last) : candidates(last)[i] = k]]
         /\ announced = IF n = 2 THEN {<<"dropped", 2>>} ELSE {}
MCSpec == (MCInit \/ Init) /\ [][Next]_vars
=============================================================================
