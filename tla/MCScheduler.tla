---------------------------- MODULE MCScheduler -----------------------------
(* Small instances of the scheduler for TLC: founders begin a change once   *)
(* or so, at any point of the ticks.                                        *)
EXTENDS Scheduler

CONSTANTS
    r1, r2, s1, m1,
    MaxEdits  \* bound: what founders begin to change in a behaviour

VARIABLE edits

TwoReplicas == {r1, r2}
OneStartup == {s1}
OneMilestone == {m1}
OwnerOfOne == [m \in OneMilestone |-> s1]
DueYesterday == [m \in OneMilestone |-> 0]

Calendar == MissionHour \/ NextDay
EndsWhatBegan == \E s \in Startups : CompleteAssessment(s)

(* Without members no mission is due, as none is before its hour.           *)
MCInit == Init /\ edits = 0 /\ \A s \in Startups : member[s]
MCNext ==
    /\ Next
    /\ IF UNCHANGED world \/ Calendar \/ EndsWhatBegan THEN UNCHANGED edits
       ELSE edits < MaxEdits /\ edits' = edits + 1
MCSpec == MCInit /\ [][MCNext]_<<vars, edits>> /\ Fairness
=============================================================================
