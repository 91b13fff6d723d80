------------------------------- MODULE Replan -------------------------------
(***************************************************************************)
(* Re-planning a roadmap (src/app/services/roadmap/replan.py): overdue     *)
(* milestones are moved, and what depends on them moves along.  Requests   *)
(* that change the dependencies (Dependencies), re-date a milestone or     *)
(* apply a proposal interleave.  A request computes the proposal from the  *)
(* rows it has loaded: it sorts the milestones by a depth-first search     *)
(* and then takes each in that order.  What it reads is its own, so no     *)
(* other request is between its steps here; between what it computed and   *)
(* what it commits, all others are.                                        *)
(***************************************************************************)
EXTENDS Dependencies, Sequences, SequencesExt, FiniteSetsExt

CONSTANTS
    Milestones,
    Buffer,   \* REPLAN_BUFFER_DAYS
    MaxDay,   \* bound: days that pass
    MaxDue,   \* bound: latest due date
    NoDue

ASSUME ReplanAssumption ==
    /\ IsFiniteSet(Milestones)
    /\ Buffer \in Nat \ {0} /\ MaxDay \in Nat /\ MaxDue \in Nat
    /\ NoDue \notin Int

VARIABLES
    home,    \* task -> its milestone; no update moves a task
    today,
    due,     \* milestone -> due_on
    done,    \* milestones with status done
    plan,    \* request -> milestone -> the due date it is about to write
    todo,    \* milestones the sort has yet to visit
    stack,   \* those its visits under way are at
    left,    \* milestone on the stack -> upstreams its visit has not come to
    ordered, \* those sorted
    shift,   \* milestone -> days, 0 until computed
    shifted  \* how many of ordered have been shifted

rowVars == <<home, today, due, done>>
sortVars == <<todo, stack, left, ordered, shift, shifted>>
vars == <<depVars, rowVars, plan, sortVars>>

Dues == 0..MaxDue \cup {NoDue}
NoPlan == [m \in {} |-> 0]

NoShift == [m \in Milestones |-> 0]

Init ==
    /\ DependenciesInit
    /\ home \in [Tasks -> Milestones]
    /\ today = 0 /\ done = {}
    /\ due \in [Milestones -> {0, NoDue}]
    /\ plan = [r \in Editors |-> NoPlan]
    /\ todo = {} /\ stack = << >> /\ left = [m \in Milestones |-> {}]
    /\ ordered = << >> /\ shift = NoShift /\ shifted = 0

-----------------------------------------------------------------------------
Overdue(d, m) == d[m] # NoDue /\ d[m] < today /\ m \notin done

(* Mutant of OwnShift: moves by the buffer, however late it is.             *)
OwnShiftByBuffer(m) == IF Overdue(due, m) THEN Buffer ELSE 0

(* base_shift                                                               *)
OwnShift(m) == IF Overdue(due, m) THEN today + Buffer - due[m] ELSE 0

(* _milestone_precedence                                                    *)
Upstream(m) == {home[e[2]] : e \in {f \in edges : home[f[1]] = m}} \ {m}

Computing == \E r \in Editors : op[r] = "computing"
Sorted == Computing /\ todo = {} /\ stack = << >>
Computed == Sorted /\ shifted = Len(ordered)

(* Mutant of Enter: visits no upstream.                                     *)
EnterAlone(m, l) ==
    /\ stack' = Append(stack, m)
    /\ left' = l

(* A visit begins, with what the visits under way have left.                *)
Enter(m, l) ==
    /\ stack' = Append(stack, m)
    /\ left' = [l EXCEPT ![m] = Upstream(m)]

(* The milestones come in whatever order the query returns them.            *)
VisitNext ==
    /\ Computing /\ stack = << >>
    /\ \E m \in todo :
         /\ todo' = todo \ {m}
         /\ \/ m \in ToSet(ordered) /\ UNCHANGED <<stack, left>>
            \/ m \notin ToSet(ordered) /\ Enter(m, left)
    /\ UNCHANGED <<depVars, rowVars, plan, ordered, shift, shifted>>

(* The next upstream of the milestone visited last: nothing if it is sorted *)
(* or, in a cycle, on the stack.                                            *)
VisitUpstream ==
    /\ stack # << >>
    /\ \E u \in left[Last(stack)] :
         LET rest == [left EXCEPT ![Last(stack)] = @ \ {u}] IN
         \/ u \in ToSet(ordered) \cup ToSet(stack) /\ left' = rest /\ UNCHANGED stack
         \/ u \notin ToSet(ordered) \cup ToSet(stack) /\ Enter(u, rest)
    /\ UNCHANGED <<depVars, rowVars, plan, todo, ordered, shift, shifted>>

Leave ==
    /\ stack # << >> /\ left[Last(stack)] = {}
    /\ stack' = Front(stack)
    /\ ordered' = Append(ordered, Last(stack))
    /\ UNCHANGED <<depVars, rowVars, plan, todo, left, shift, shifted>>

ShiftOf(m) == Max({OwnShift(m)} \cup {shift[u] : u \in Upstream(m)})

Propagate ==
    /\ Sorted /\ shifted < Len(ordered)
    /\ shifted' = shifted + 1
    /\ shift' = [shift EXCEPT ![ordered[shifted']] = ShiftOf(ordered[shifted'])]
    /\ UNCHANGED <<depVars, rowVars, plan, todo, stack, left, ordered>>

(* The new due date of what moves.                                          *)
Proposal == [m \in {n \in Milestones : shift[n] > 0 /\ due[n] # NoDue} |-> due[m] + shift[m]]

(* What apply_replan keeps of a proposal, and what writing it leaves.       *)
Kept(p, ids) == [m \in DOMAIN p \cap ids |-> p[m]]
After(d, p) == [m \in Milestones |-> IF m \in DOMAIN p THEN p[m] ELSE d[m]]

-----------------------------------------------------------------------------
BeginReplan(r) ==
    /\ ~Computing /\ op[r] = "idle"
    /\ op' = [op EXCEPT ![r] = "computing"]
    /\ todo' = Milestones
    /\ UNCHANGED <<taskRows, edges, pair, history, rowVars, plan, stack, left, ordered, shift, shifted>>

(* compute_replan returns.  apply_replan keeps the selected changes that    *)
(* are still proposed; with none of them, as for a preview, nothing is      *)
(* changed.                                                                 *)
Select(r) ==
    /\ op[r] = "computing" /\ Computed
    /\ \E ids \in SUBSET DOMAIN Proposal :
         /\ \A m \in ids : Proposal[m] <= MaxDue
         /\ plan' = [plan EXCEPT ![r] = Kept(Proposal, ids)]
         /\ op' = [op EXCEPT ![r] = IF ids = {} THEN "idle" ELSE "applying"]
    /\ ordered' = << >> /\ shift' = NoShift /\ shifted' = 0
    /\ UNCHANGED <<taskRows, edges, pair, history, rowVars, todo, stack, left>>

(* replan_apply commits, or fails.                                          *)
EndApply(r) ==
    /\ ~Computing /\ op[r] = "applying"
    /\ due' \in {due, After(due, plan[r])}
    /\ op' = [op EXCEPT ![r] = "idle"]
    /\ plan' = [plan EXCEPT ![r] = NoPlan]
    /\ UNCHANGED <<taskRows, edges, pair, history, home, today, done, sortVars>>

(* update_milestone_ep: an editor re-dates a milestone or sets its status.  *)
UpdateMilestone ==
    /\ ~Computing
    /\ \E m \in Milestones :
         \/ /\ \E day \in Dues : due' = [due EXCEPT ![m] = day]
            /\ UNCHANGED done
         \/ /\ done' \in {done \cup {m}, done \ {m}}
            /\ UNCHANGED due
    /\ UNCHANGED <<depVars, home, today, plan, sortVars>>

DayPasses ==
    /\ ~Computing /\ today < MaxDay
    /\ today' = today + 1
    /\ UNCHANGED <<depVars, home, due, done, plan, sortVars>>

ChangeDependencies ==
    /\ ~Computing /\ DependenciesNext
    /\ UNCHANGED <<rowVars, plan, sortVars>>

Next ==
    \/ VisitNext \/ VisitUpstream \/ Leave \/ Propagate
    \/ \E r \in Editors : BeginReplan(r) \/ Select(r) \/ EndApply(r)
    \/ UpdateMilestone \/ DayPasses \/ ChangeDependencies

Spec == Init /\ [][Next]_vars

-----------------------------------------------------------------------------
(* The state's types; a request applying a proposal holds a future date for *)
(* each milestone it is to move, and only one adding a dependency an edge.  *)
TypeOK ==
    /\ taskRows \subseteq Tasks /\ edges \subseteq taskRows \X taskRows
    /\ op \in [Editors -> {"idle", "checked", "computing", "applying"}]
    /\ pair \in [Editors -> (Tasks \X Tasks) \cup {None}]
    /\ home \in [Tasks -> Milestones] /\ today \in 0..MaxDay
    /\ due \in [Milestones -> Dues] /\ done \subseteq Milestones
    /\ DOMAIN plan = Editors
    /\ \A r \in Editors :
         /\ op[r] = "checked" <=> pair[r] # None
         /\ op[r] = "applying" <=> plan[r] # NoPlan
         /\ DOMAIN plan[r] \subseteq Milestones
         /\ \A m \in DOMAIN plan[r] : plan[r][m] \in 1..MaxDue
    /\ todo \subseteq Milestones /\ left \in [Milestones -> SUBSET Milestones]
    /\ stack \in Seq(Milestones) /\ ordered \in Seq(Milestones)
    /\ shift \in [Milestones -> Nat] /\ shifted \in 0..Len(ordered)

(* The milestones one waits on, over any number of steps, and itself.       *)
Ancestors(m) ==
    LET Closed(S) == \A n \in S : Upstream(n) \subseteq S
    IN  {u \in Milestones : \A S \in SUBSET Milestones : m \in S /\ Closed(S) => u \in S}

(* "Acyclic by construction": no milestone comes before itself.             *)
MilestonesAcyclic ==
    \A m \in Milestones : \A u \in Upstream(m) : m \notin Ancestors(u)

(* In whatever order the rows come, a milestone of an acyclic roadmap       *)
(* shifts with the latest of all that it waits on: the maximum, no sum, and *)
(* never what was computed before a blocker was.                            *)
ShiftsWithLatestBlocker ==
    Computed /\ MilestonesAcyclic =>
        shift = [m \in Milestones |-> Max({OwnShift(u) : u \in Ancestors(m)})]

NothingOverdue(d) == \A m \in Milestones : ~Overdue(d, m)

(* Accepting the whole proposal leaves nothing to propose that day, cycles  *)
(* or not: what moves is no longer overdue and pushes nothing.              *)
WholeProposalSettles ==
    Computed =>
        /\ NothingOverdue(After(due, Proposal))
        /\ NothingOverdue(due) => Proposal = NoPlan
=============================================================================
