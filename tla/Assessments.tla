----------------------------- MODULE Assessments -----------------------------
(***************************************************************************)
(* The assessments of one startup (src/app/services/assessment/service.py  *)
(* and its endpoints): at most one is in progress, its questions are       *)
(* answered in order, and the request that completes it scores it and      *)
(* recomputes the health score.                                            *)
(***************************************************************************)
EXTENDS HealthScores

VARIABLES
    assessments,  \* sequence of [type, status, answers]
    pending,      \* the profile's assessment_pending
    completions,  \* assessment -> times its completion's jobs and event were sent
    narratives    \* assessments whose narrative job is to run

assessmentVars == <<assessments, pending, completions, narratives>>
vars == <<assessmentVars, healthVars, week, txnVars>>

Answers(f) ==
    /\ DOMAIN f \subseteq {q.key : q \in ToSet(ASSESSMENT_BANK)}
    /\ \A k \in DOMAIN f : f[k] \in validate_answer(question_by_key(k))
Assessment == [type : {"initial", "quarterly"}, status : {"in_progress", "completed"}]

Init ==
    /\ TransactionsInit /\ HealthInit
    /\ assessments = << >> /\ pending = TRUE /\ completions = << >> /\ narratives = {}

InProgress == {a \in DOMAIN assessments : assessments[a].status = "in_progress"}

-----------------------------------------------------------------------------
(* start_or_resume: the insert waits for another's, and where that          *)
(* committed the other's assessment is resumed.                             *)
start_assessment(r) ==
    /\ InProgress = {}
    /\ Begin(r, [op |-> "start",
                 type |-> IF assessments # << >> THEN "quarterly" ELSE "initial"])
    /\ UNCHANGED <<assessmentVars, healthVars, week>>

(* Mutant of start_or_resume: inserted without waiting for another.         *)
start_twice(r) ==
    /\ Doing(r, "start") /\ Go(r, [txn[r] EXCEPT !.op = "started"])
    /\ UNCHANGED <<assessmentVars, healthVars, week>>

start_or_resume(r) ==
    /\ Doing(r, "start") /\ ~Others(r, "started")
    /\ Go(r, IF InProgress # {} THEN Idle ELSE [txn[r] EXCEPT !.op = "started"])
    /\ UNCHANGED <<assessmentVars, healthVars, week>>

CommitStart(r) ==
    /\ Doing(r, "started")
    /\ assessments' = Append(assessments, [type |-> txn[r].type, status |-> "in_progress", answers |-> << >>])
    /\ completions' = Append(completions, 0)
    /\ Commit(r)
    /\ UNCHANGED <<pending, narratives, healthVars, week>>

(* submit_answer: the question answered must be the next one, by the        *)
(* answers read; the upsert keeps the last of two answers to it.            *)
submit_answer(r) ==
    /\ \E a \in InProgress :
         LET next == next_question(assessments[a].answers) IN
         /\ next # << >>
         /\ \E v \in validate_answer(next[1]) :
              Begin(r, [op |-> "answer", assessment |-> a, key |-> next[1].key, value |-> v])
    /\ UNCHANGED <<assessmentVars, healthVars, week>>

post_answer(r) ==
    /\ Doing(r, "answer")
    /\ assessments' = [assessments EXCEPT ![txn[r].assessment].answers = Put(@, txn[r].key, txn[r].value)]
    /\ Commit(r)
    /\ UNCHANGED <<pending, completions, narratives, healthVars, week>>

(* complete_assessment: refused while the answers it reads leave a question *)
(* open; the status is claimed with an update that waits for another's and  *)
(* is without effect when that committed; the claimant scores what it read  *)
(* and goes on to recompute the health score.                               *)
post_complete_assessment(r) ==
    /\ \E a \in DOMAIN assessments :
         /\ next_question(assessments[a].answers) = << >>
         /\ Begin(r, [op |-> "complete", assessment |-> a, answers |-> assessments[a].answers])
    /\ UNCHANGED <<assessmentVars, healthVars, week>>

Completing(q, a) ==
    txn[q].op \in {"recompute", "scored"} /\ txn[q].trigger = "assessment_complete" /\ txn[q].assessment = a

(* Mutant of Claims: the status is looked at when the request loads it.     *)
ClaimsLoaded(r) == TRUE

Claims(r) == assessments[txn[r].assessment].status = "in_progress"

complete_assessment(r) ==
    LET t == txn[r] IN
    /\ Doing(r, "complete")
    /\ Claims(r) => \A q \in Requests : ~Completing(q, t.assessment)
    /\ Go(r, IF Claims(r) THEN Recompute("assessment_complete", t.assessment, score(t.answers)) ELSE Idle)
    /\ UNCHANGED <<assessmentVars, healthVars, week>>

CommitComplete(r) ==
    LET a == txn[r].assessment IN
    /\ Doing(r, "scored") /\ Completing(r, a)
    /\ assessments' = [assessments EXCEPT ![a].status = "completed"]
    /\ results' = Append(results, [scores |-> txn[r].scores, narrative |-> "template"])
    /\ pending' = (pending /\ assessments[a].type # "initial")
    /\ completions' = [completions EXCEPT ![a] = @ + 1]
    /\ narratives' = narratives \cup {a}
    /\ Recomputed(r)
    /\ Commit(r)
    /\ UNCHANGED week

(* handle_assessment_narrative reads the result, asks the model and writes. *)
handle_assessment_narrative(r) ==
    /\ \E a \in narratives : a \in DOMAIN results /\ Begin(r, [op |-> "narrative", assessment |-> a])
    /\ UNCHANGED <<assessmentVars, healthVars, week>>

CommitNarrative(r) ==
    LET a == txn[r].assessment IN
    /\ Doing(r, "narrative")
    /\ results' = [results EXCEPT ![a].narrative = "ai"]
    /\ narratives' = narratives \ {a}
    /\ Commit(r)
    /\ UNCHANGED <<assessments, pending, completions, health, signals, history, recs, announced, week>>

SevenDays ==
    /\ week = 0 /\ week' = 1
    /\ UNCHANGED <<assessmentVars, healthVars, txnVars>>

Next ==
    \/ \E r \in Requests :
         \/ start_assessment(r) \/ start_or_resume(r) \/ CommitStart(r)
         \/ submit_answer(r) \/ post_answer(r)
         \/ post_complete_assessment(r) \/ complete_assessment(r) \/ CommitComplete(r)
         \/ handle_assessment_narrative(r) \/ CommitNarrative(r)
         \/ HealthStep(r) /\ UNCHANGED assessmentVars
         \/ Rollback(r) /\ UNCHANGED <<assessmentVars, healthVars, week>>
    \/ SevenDays

Spec == Init /\ [][Next]_vars

-----------------------------------------------------------------------------
(* What the endpoints show of the assessments.                              *)
get_assessment(a) ==
    [status |-> assessments[a].status,
     answers |-> [d \in ToSet(Dimension) |->
                    {k \in DOMAIN assessments[a].answers : question_by_key(k).dim = d}],
     result |-> IF a \in DOMAIN results THEN results[a].scores ELSE << >>]

list_assessments ==
    [a \in DOMAIN assessments |->
       [status |-> assessments[a].status,
        overall |-> IF a \in DOMAIN results THEN overall_provisional(results[a].scores) ELSE -1]]

(* Types; only the last assessment can be in progress.                      *)
TypeOK ==
    /\ \A a \in DOMAIN assessments :
         /\ [type |-> assessments[a].type, status |-> assessments[a].status] \in Assessment
         /\ Answers(assessments[a].answers)
         /\ assessments[a].status = "in_progress" => a = Len(assessments)
         /\ list_assessments[a].overall \in -1..100
    /\ \A i \in DOMAIN results : results[i] \in Result
    /\ health = NoScore \/ health \in HealthScore
    /\ signals \subseteq HealthSignal
    /\ \A i \in DOMAIN history : history[i] \in HealthScoreHistory
    /\ \A k \in DOMAIN recs : recs[k] \in HealthRecommendation

(* However many requests complete an assessment, it has one result, and its *)
(* jobs and its event are sent once; before, none.                          *)
CompletedOnce ==
    \A a \in DOMAIN assessments :
      LET shown == get_assessment(a) IN
      /\ (shown.status = "completed") = (shown.result # << >>)
      /\ completions[a] = IF shown.status = "completed" THEN 1 ELSE 0
      /\ shown.status = "completed" /\ assessments[a].type = "initial" => ~pending

(* Recomputations and decisions interleave, and the recommendations a       *)
(* founder is shown are the weak dimensions' of the score shown, each once  *)
(* and ranked.                                                              *)
PendingMatchesScore ==
    health # NoScore =>
      LET ranked == candidates(health.scores) IN
      /\ \A s \in list_recommendations("pending") : ranked[s.priority] = s.key
      /\ ToSet(ranked) \subseteq DOMAIN recs

Decided(k) == k \in DOMAIN recs /\ recs[k].status # "pending"

(* What the design says of generate_recommendations: a founder's decision   *)
(* is durable.  The row of one that is made while the recommendations are   *)
(* rebuilt is deleted, and a later rebuild shows it as pending again.       *)
DecisionsAreDurable == [][\A k \in DOMAIN recs : Decided(k) => Decided(k)']_vars

(* A decision is only undone by a request that had read the recommendation  *)
(* before it was decided, whatever else is rebuilt, rewritten or decided.   *)
DecisionsOutlastFreshReads ==
    [][\A k \in DOMAIN recs : Decided(k) /\ ~Decided(k)' =>
         \E r \in Requests :
           Doing(r, "scored") /\ txn'[r] = Idle /\ txn[r].read[k].status = "pending"]_vars

(* A recomputation that no other request commits into leaves each dimension *)
(* with one signal, of the score shown, whatever racing ones had left.      *)
SignalsMatchScore ==
    [][\A r \in Requests :
         Doing(r, "scored") /\ alone[r] /\ history' # history /\ txn'[r] # txn[r] =>
           \A d \in ToSet(Dimension) :
             {s.value : s \in get_dimension(d)'.signals} = {get_dimension(d)'.score}
             /\ Cardinality(get_dimension(d)'.signals) = 1]_vars
=============================================================================
