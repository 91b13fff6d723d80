----------------------------- MODULE MCJobQueue -----------------------------
(* Small instances of the job queue for TLC.                                *)
EXTENDS JobQueueProperties

CONSTANTS w1, w2

TwoWorkers == {w1, w2}

NoJobs == {}
TwoJobs == {1, 2}
ThreeJobs == {1, 2, 3}
FirstJob == {1}
SecondJob == {2}
ThirdJob == {3}
=============================================================================
