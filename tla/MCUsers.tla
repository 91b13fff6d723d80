------------------------------- MODULE MCUsers -------------------------------
(***************************************************************************)
(* What users hold between requests, their refresh sessions and their      *)
(* notifications, each in behaviours of its own: they write no row in      *)
(* common.                                                                 *)
(***************************************************************************)
EXTENDS Sessions, Notifications, TLC

CONSTANTS
    s1, s2, s3, f1, f2, r1, r2,  \* sessions
    u1, u2, u3, t1, t2           \* notifications

VARIABLE part

ThreeRows == {s1, s2, s3}
TwoFamilies == {f1, f2}
TwoRequests == {r1, r2}
Symmetric == Permutations(ThreeRows) \cup Permutations(TwoFamilies) \cup Permutations(TwoRequests)

ThreeUsers == {u1, u2, u3}
WorkerAndRequest == {t1, t2}
Worker == {t2}
Mailed == {u2}
ByFirst == [t \in WorkerAndRequest |-> u1]

MCInit ==
    /\ Init /\ NotificationsInit
    /\ part = "notifications" \/ (part = "sessions" /\ members = Users)
MCNext ==
    /\ UNCHANGED part
    /\ IF part = "sessions" THEN Next ELSE UNCHANGED vars
    /\ IF part = "notifications" THEN NotificationsNext ELSE UNCHANGED notificationVars
MCSpec == MCInit /\ [][MCNext]_<<vars, notificationVars, part>>
=============================================================================
