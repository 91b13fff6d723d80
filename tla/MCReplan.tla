------------------------------ MODULE MCReplan ------------------------------
(* Small instances of a roadmap that is re-planned, for TLC.                *)
EXTENDS Replan

CONSTANTS t1, t2, t3, m1, m2, m3, r1

ThreeTasks == {t1, t2, t3}
OneEditor == {r1}
ThreeMilestones == {m1, m2, m3}

Exchanged == Permutations(ThreeTasks) \cup Permutations(ThreeMilestones)
=============================================================================
