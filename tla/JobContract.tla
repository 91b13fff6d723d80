---------------------------- MODULE JobContract -----------------------------
(***************************************************************************)
(* What the queue promises of a job, whoever runs it and however often     *)
(* workers crash: a job that was enqueued is settled once and for all; the *)
(* rows its handler writes appear exactly once, together with the job's    *)
(* success; mail may go out again on a retry, but a succeeded job's mail   *)
(* has gone out and none goes out after the job is settled.                *)
(***************************************************************************)
EXTENDS Naturals

CONSTANTS Jobs, Mailing, CountCap

VARIABLES
    outcome,   \* "absent", "pending", "succeeded" or "failed"
    effects    \* how often the job's effect has happened

contractVars == <<outcome, effects>>

Init ==
    /\ outcome = [j \in Jobs |-> "absent"]
    /\ effects = [j \in Jobs |-> 0]

Submit(j) ==
    /\ outcome[j] = "absent"
    /\ outcome' = [outcome EXCEPT ![j] = "pending"]
    /\ UNCHANGED effects

(* The handler's rows and the success are one commit.                      *)
Apply(j) ==
    /\ j \notin Mailing
    /\ outcome[j] = "pending" /\ effects[j] = 0
    /\ outcome' = [outcome EXCEPT ![j] = "succeeded"]
    /\ effects' = [effects EXCEPT ![j] = 1]

Send(j) ==
    /\ j \in Mailing
    /\ outcome[j] = "pending"
    /\ effects[j] < CountCap
    /\ effects' = [effects EXCEPT ![j] = @ + 1]
    /\ UNCHANGED outcome

Delivered(j) ==
    /\ j \in Mailing
    /\ outcome[j] = "pending" /\ effects[j] > 0
    /\ outcome' = [outcome EXCEPT ![j] = "succeeded"]
    /\ UNCHANGED effects

GiveUp(j) ==
    /\ outcome[j] = "pending"
    /\ outcome' = [outcome EXCEPT ![j] = "failed"]
    /\ UNCHANGED effects

Next ==
    \E j \in Jobs :
        Submit(j) \/ Apply(j) \/ Send(j) \/ Delivered(j) \/ GiveUp(j)

(* Whatever is pending is settled in the end.                              *)
Settling ==
    \A j \in Jobs : WF_contractVars(Apply(j) \/ Delivered(j) \/ GiveUp(j))

Spec == Init /\ [][Next]_contractVars
FairSpec == Spec /\ Settling
=============================================================================
