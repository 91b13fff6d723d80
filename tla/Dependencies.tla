---------------------------- MODULE Dependencies ----------------------------
(***************************************************************************)
(* The task dependencies of one roadmap                                    *)
(* (src/app/services/roadmap/dependencies.py) and the endpoints that add   *)
(* and remove them.  <<t, u>> in edges reads "t depends on u".  An editor's *)
(* request searches the committed edges for a cycle, and inserts the edge  *)
(* when it commits; nothing is locked in between.                          *)
(***************************************************************************)
EXTENDS Integers, FiniteSets

CONSTANTS
    Tasks,     \* every task; one created later has simply no edge until then
    Editors,   \* requests of editors served at the same time
    None

ASSUME DependenciesAssumption == None \notin Tasks \X Tasks

VARIABLES
    taskRows,  \* the roadmap_tasks rows not deleted
    edges,     \* the roadmap_task_dependencies rows
    op,        \* what a request is doing
    pair,      \* the edge it is about to insert
    fresh,     \* requests since whose search no edge was added
    raced      \* edges whose request was no longer fresh when it added them

(* The last two are history: no action reads them but to record more.       *)
history == <<fresh, raced>>
depVars == <<taskRows, edges, op, pair, history>>

DependenciesInit ==
    /\ taskRows = Tasks /\ edges = {}
    /\ op = [r \in Editors |-> "idle"]
    /\ pair = [r \in Editors |-> None]
    /\ fresh = {} /\ raced = {}

-----------------------------------------------------------------------------
ClosedUnder(E, S) == \A e \in E : e[1] \in S => e[2] \in S

(* y is found by searching E from x: it is in all that holds x and, with a  *)
(* task, everything the task depends on.                                    *)
Reaches(E, x, y) == \A S \in SUBSET Tasks : x \in S /\ ClosedUnder(E, S) => y \in S

(* Mutant of WouldCreateCycle: looks one edge far.                          *)
WouldReverse(t, u) == <<u, t>> \in edges

WouldCreateCycle(t, u) == Reaches(edges, u, t)

(* create_dependency_ep up to the insert: 404 for unknown tasks, 422 for a  *)
(* self-dependency, 409 for a cycle.                                        *)
CheckEdge(r) ==
    /\ op[r] = "idle"
    /\ \E t, u \in taskRows :
         /\ t # u
         /\ ~WouldCreateCycle(t, u)
         /\ pair' = [pair EXCEPT ![r] = <<t, u>>]
    /\ op' = [op EXCEPT ![r] = "checked"]
    /\ fresh' = fresh \cup {r}
    /\ UNCHANGED <<taskRows, edges, raced>>

Done(r) ==
    /\ op' = [op EXCEPT ![r] = "idle"]
    /\ pair' = [pair EXCEPT ![r] = None]

(* add_dependency and the commit.  An edge that is there already stays.     *)
AddEdge(r) ==
    /\ op[r] = "checked"
    /\ pair[r][1] \in taskRows /\ pair[r][2] \in taskRows
    /\ edges' = edges \cup {pair[r]}
    /\ Done(r)
    /\ fresh' = IF pair[r] \in edges THEN fresh \ {r} ELSE {}
    /\ raced' = IF r \in fresh \/ pair[r] \in edges THEN raced ELSE raced \cup {pair[r]}
    /\ UNCHANGED taskRows

(* The foreign key refuses an edge of a task deleted since, or the request  *)
(* fails before its commit.                                                 *)
AddFails(r) ==
    /\ op[r] = "checked"
    /\ Done(r)
    /\ fresh' = fresh \ {r}
    /\ UNCHANGED <<taskRows, edges, raced>>

(* delete_dependency_ep                                                     *)
DeleteEdge ==
    /\ \E e \in edges : edges' = edges \ {e}
    /\ raced' = raced \cap edges'
    /\ UNCHANGED <<taskRows, op, pair, fresh>>

(* delete_task_ep; both foreign keys of an edge cascade.                    *)
DeleteTask ==
    /\ \E t \in taskRows :
         /\ taskRows' = taskRows \ {t}
         /\ edges' = {e \in edges : e[1] # t /\ e[2] # t}
    /\ raced' = raced \cap edges'
    /\ UNCHANGED <<op, pair, fresh>>

Request(r) == CheckEdge(r) \/ AddEdge(r) \/ AddFails(r)

DependenciesNext == (\E r \in Editors : Request(r)) \/ DeleteEdge \/ DeleteTask

DependenciesSpec == DependenciesInit /\ [][DependenciesNext]_depVars

-----------------------------------------------------------------------------
(* Every dependency joins two tasks that are there, and a request holds an  *)
(* edge exactly while it adds one.                                          *)
DependenciesTypeOK ==
    /\ taskRows \subseteq Tasks
    /\ edges \subseteq taskRows \X taskRows
    /\ op \in [Editors -> {"idle", "checked"}]
    /\ pair \in [Editors -> (Tasks \X Tasks) \cup {None}]
    /\ \A r \in Editors : op[r] = "checked" <=> pair[r] # None
    /\ fresh \subseteq {r \in Editors : op[r] = "checked"} /\ raced \subseteq edges

Acyclic(E) == \A e \in E : ~Reaches(E, e[2], e[1])

(* "The graph is kept acyclic by construction": no task ever depends, over  *)
(* however many steps, on itself.                                           *)
DependenciesAcyclic == Acyclic(edges)

(* Whatever was added and deleted before, and by however many editors, it   *)
(* takes a race to close a cycle: in each there is an edge that was added   *)
(* after another edge had been, which its request's search could not find.  *)
OnlyRacesCloseCycles == Acyclic(edges \ raced)
=============================================================================
