---------------------------- MODULE HealthScores ----------------------------
(***************************************************************************)
(* The health score of one startup (src/app/services/health_score): it is  *)
(* recomputed from the last completed assessment, in the transaction that  *)
(* completes it or by the first reader who finds none, and comes with a    *)
(* set of signals, a history and recommendations that founders accept or   *)
(* dismiss and that the worker's model call rewrites.                      *)
(***************************************************************************)
EXTENDS Transactions, AssessmentBank, FiniteSetsExt, TLC

CONSTANT NoScore

VARIABLES
    results,    \* assessment -> result; the last is the last completed
    health,     \* the current score, NoScore before the first
    signals,    \* rows [dim, value, by]
    history,    \* sequence of scores
    recs,       \* key -> recommendation
    announced,  \* healthscore events of committed requests
    week        \* 0 or, when seven days have passed, 1

healthVars == <<results, health, signals, history, recs, announced>>

BANDS == << <<39, "at_risk">>, <<59, "needs_work">>, <<79, "healthy">>, <<100, "thriving">> >>
band_for(s) == BANDS[Min({i \in DOMAIN BANDS : s <= BANDS[i][1]})][2]

(* Five equal weights, in hundredths.                                       *)
weighted_overall(scores) ==
    Round(Total([i \in DOMAIN Dimension |-> 20 * scores[Dimension[i]]]), 100)

(* Of each dimension, two recommendations: their lift and the score below   *)
(* which they are made.                                                     *)
Entry(key, dim, lift, below) == [key |-> key, dim |-> dim, lift |-> lift, below |-> below]
RECOMMENDATION_CATALOG == <<
    Entry("product.define_mvp", "product", 8, 60),
    Entry("product.user_feedback_loop", "product", 6, 50),
    Entry("market.icp_definition", "market", 7, 60),
    Entry("market.competitor_map", "market", 5, 50),
    Entry("money.runway_model", "money", 8, 60),
    Entry("money.pricing_experiment", "money", 6, 50),
    Entry("legal.incorporate", "legal", 9, 60),
    Entry("legal.founder_agreement", "legal", 7, 50),
    Entry("team.roles_clarity", "team", 7, 60),
    Entry("team.hiring_plan", "team", 5, 50) >>

Scores == [ToSet(Dimension) -> 0..100]
Result == [scores : Scores, narrative : {"template", "ai"}]
HealthScore == [scores : Scores, score : 0..100, band : {BANDS[i][2] : i \in DOMAIN BANDS}]
ASSUME NoScoreAssumption == NoScore \notin HealthScore
HealthSignal == [dim : ToSet(Dimension), value : 0..100, by : Nat]
HealthScoreHistory == [score : 0..100, delta : -100..100, week : 0..1]
HealthRecommendation ==
    [status : {"pending", "accepted", "dismissed"}, priority : 1..Len(RECOMMENDATION_CATALOG),
     body : {"default", "ai"}]

HealthInit ==
    /\ results = << >> /\ health = NoScore /\ signals = {} /\ history = << >>
    /\ recs = << >> /\ announced = {} /\ week = 0

-----------------------------------------------------------------------------
latest_completed_result == results[Len(results)].scores

(* The weak dimensions' entries: by the gap, then the lift, then as listed. *)
candidates(scores) ==
    LET weak == {i \in DOMAIN RECOMMENDATION_CATALOG :
                   scores[RECOMMENDATION_CATALOG[i].dim] < RECOMMENDATION_CATALOG[i].below}
        gap(i) == RECOMMENDATION_CATALOG[i].below - scores[RECOMMENDATION_CATALOG[i].dim]
        lift(i) == RECOMMENDATION_CATALOG[i].lift
        before(i, j) == \/ gap(i) > gap(j)
                        \/ gap(i) = gap(j) /\ (lift(i) > lift(j) \/ (lift(i) = lift(j) /\ i < j))
        rank(i) == 1 + Cardinality({j \in weak : before(j, i)})
    IN  [n \in 1..Cardinality(weak) |-> RECOMMENDATION_CATALOG[CHOOSE i \in weak : rank(i) = n].key]

(* Mutant of generate_recommendations: those of recovered dimensions stay.  *)
generate_and_keep(read, scores) ==
    LET ranked == candidates(scores)
        rank(k) == CHOOSE n \in DOMAIN ranked : ranked[n] = k
    IN  [k \in DOMAIN recs \cup ToSet(ranked) |->
           IF k \notin DOMAIN read THEN [status |-> "pending", priority |-> rank(k), body |-> "default"]
           ELSE IF k \in ToSet(ranked) THEN [recs[k] EXCEPT !.priority = rank(k)]
           ELSE recs[k]]

(* Mutant of generate_recommendations: the decided go with the pending.     *)
generate_anew(read, scores) ==
    LET ranked == candidates(scores)
        rank(k) == CHOOSE n \in DOMAIN ranked : ranked[n] = k
    IN  [k \in ToSet(ranked) |->
           IF k \notin DOMAIN read THEN [status |-> "pending", priority |-> rank(k), body |-> "default"]
           ELSE IF read[k].status # "dismissed" THEN [recs[k] EXCEPT !.priority = rank(k)]
           ELSE recs[k]]

(* generate_recommendations, on the rows it has read: pending ones that are *)
(* no longer candidates go, the decided keep their status.                  *)
generate_recommendations(read, scores) ==
    LET ranked == candidates(scores)
        gone == {k \in DOMAIN read : read[k].status = "pending" /\ k \notin ToSet(ranked)}
        rank(k) == CHOOSE n \in DOMAIN ranked : ranked[n] = k
    IN  [k \in (DOMAIN recs \ gone) \cup ToSet(ranked) |->
           IF k \notin DOMAIN read THEN [status |-> "pending", priority |-> rank(k), body |-> "default"]
           ELSE IF k \in ToSet(ranked) /\ read[k].status # "dismissed"
                THEN [recs[k] EXCEPT !.priority = rank(k)]
           ELSE recs[k]]

(* _delta_7d: against the last point of the week before, or the first.      *)
_delta_7d(h, current) ==
    LET old == {i \in DOMAIN h : h[i].week < week}
    IN  IF h = << >> THEN 0 ELSE current - h[IF old # {} THEN Max(old) ELSE 1].score

prior_max(h) == Max({h[i].score : i \in DOMAIN h})

-----------------------------------------------------------------------------
(* Mutant of Recompute: the signals are added to those there.               *)
RecomputeAdds(trigger, a, scores) ==
    [op |-> "recompute", trigger |-> trigger, assessment |-> a, scores |-> scores,
     deletes |-> {}, history |-> history, read |-> << >>]

(* recompute_health_score looks at the history and deletes the signals it   *)
(* sees, ...                                                                *)
Recompute(trigger, a, scores) ==
    [op |-> "recompute", trigger |-> trigger, assessment |-> a, scores |-> scores,
     deletes |-> signals, history |-> history, read |-> << >>]

(* ... upserts the score, which waits for another's, and reads the          *)
(* recommendations, ...                                                     *)
recompute_health_score(r) ==
    /\ Doing(r, "recompute") /\ ~Others(r, "scored")
    /\ Go(r, [txn[r] EXCEPT !.op = "scored", !.read = recs])
    /\ UNCHANGED <<healthVars, week>>

(* ... and writes them with its signals, history and events in the commit.  *)
Recomputed(r) ==
    LET t == txn[r]
        overall == weighted_overall(t.scores)
        delta == _delta_7d(history, overall)
        n == Len(history) + 1
    IN  /\ health' = [scores |-> t.scores, score |-> overall, band |-> band_for(overall)]
        /\ signals' = (signals \ t.deletes) \cup {[dim |-> d, value |-> t.scores[d], by |-> n] : d \in ToSet(Dimension)}
        /\ history' = Append(history, [score |-> overall, delta |-> delta, week |-> week])
        /\ recs' = generate_recommendations(t.read, t.scores)
        /\ announced' = announced \cup
             (IF delta <= -5 THEN {<<"dropped", n>>} ELSE {}) \cup
             (IF t.history # << >> /\ overall > prior_max(t.history) THEN {<<"record", n>>} ELSE {})

(* get_overview recomputes where there is a result and no score.            *)
get_health_score(r) ==
    /\ health = NoScore /\ results # << >>
    /\ Begin(r, Recompute("lazy_read", Len(results), latest_completed_result))
    /\ UNCHANGED <<healthVars, week>>

CommitLazyRead(r) ==
    /\ Doing(r, "scored") /\ txn[r].trigger = "lazy_read"
    /\ Recomputed(r)
    /\ Commit(r)
    /\ UNCHANGED <<results, week>>

-----------------------------------------------------------------------------
(* What the endpoints show.                                                 *)
get_dimension(dim) ==
    [score |-> IF health = NoScore THEN NoScore ELSE health.scores[dim],
     signals |-> {s \in signals : s.dim = dim},
     recommendations |-> {k \in DOMAIN recs : recs[k].status = "pending" /\
                            \E i \in DOMAIN RECOMMENDATION_CATALOG :
                              RECOMMENDATION_CATALOG[i].key = k /\ RECOMMENDATION_CATALOG[i].dim = dim}]

list_recommendations(status) ==
    {[key |-> k, priority |-> recs[k].priority] : k \in {x \in DOMAIN recs : recs[x].status = status}}

(* A founder accepts or dismisses: the row is loaded as pending and the     *)
(* decision written; a row deleted meanwhile makes the request fail.        *)
resolve_recommendation(r, target) ==
    /\ \E k \in DOMAIN recs :
         recs[k].status = "pending" /\ Begin(r, [op |-> "resolve", key |-> k, status |-> target])
    /\ UNCHANGED <<healthVars, week>>

accept_recommendation(r) == resolve_recommendation(r, "accepted")
dismiss_recommendation(r) == resolve_recommendation(r, "dismissed")

CommitResolve(r) ==
    /\ Doing(r, "resolve") /\ txn[r].key \in DOMAIN recs
    /\ recs' = [recs EXCEPT ![txn[r].key].status = txn[r].status]
    /\ Commit(r)
    /\ UNCHANGED <<results, health, signals, history, announced, week>>

(* handle_health_recommendations takes the pending rows with the            *)
(* catalogue's body, asks the model, and writes the bodies it gave: all, or *)
(* none.                                                                    *)
handle_health_recommendations(r) ==
    LET todo == {k \in DOMAIN recs : recs[k].status = "pending" /\ recs[k].body = "default"} IN
    /\ todo # {} /\ Begin(r, [op |-> "bodies", keys |-> todo])
    /\ UNCHANGED <<healthVars, week>>

CommitBodies(r) ==
    /\ Doing(r, "bodies")
    /\ \E some \in {{}, txn[r].keys} :
         /\ some \subseteq DOMAIN recs
         /\ recs' = [k \in DOMAIN recs |->
                       IF k \in some THEN [recs[k] EXCEPT !.body = "ai"] ELSE recs[k]]
    /\ Commit(r)
    /\ UNCHANGED <<results, health, signals, history, announced, week>>

HealthStep(r) ==
    \/ get_health_score(r) \/ recompute_health_score(r) \/ CommitLazyRead(r)
    \/ accept_recommendation(r) \/ dismiss_recommendation(r) \/ CommitResolve(r)
    \/ handle_health_recommendations(r) \/ CommitBodies(r)
=============================================================================
