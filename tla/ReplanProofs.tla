---------------------------- MODULE ReplanProofs ----------------------------
(***************************************************************************)
(* Proofs about the dependencies of a roadmap's tasks (Dependencies) and    *)
(* about re-planning (Replan): for any number of tasks, milestones and      *)
(* editors, and for whatever order the milestones come in.                  *)
(***************************************************************************)
EXTENDS Replan, FiniteSetTheorems, SequenceTheorems, WellFoundedInduction, TLAPS

-----------------------------------------------------------------------------
(* Task dependencies (Dependencies): what a race did not add is acyclic, for *)
(* any number of tasks and editors.  "x reaches y" is that every closed set *)
(* with x has y, so a set that is closed, has x and lacks y shows that it   *)
(* does not; the lemmas build such sets, and no induction over paths is     *)
(* needed.                                                                  *)

(* Fewer edges reach no further: what does not reach now will not reach     *)
(* after an edge or a task is deleted.                                      *)
LEMMA FewerEdges ==
    ASSUME NEW E, NEW F, F \subseteq E, NEW x, NEW y, ~Reaches(E, x, y)
    PROVE  ~Reaches(F, x, y)
<1>1. PICK S \in SUBSET Tasks : x \in S /\ ClosedUnder(E, S) /\ y \notin S
  BY DEF Reaches
<1>2. ClosedUnder(F, S)
  BY <1>1 DEF ClosedUnder
<1>. QED
  BY <1>1, <1>2 DEF Reaches

(* The search would_create_cycle makes is enough: an edge t -> u is safe in *)
(* an acyclic graph when u does not reach t.                                *)
LEMMA SafeEdge ==
    ASSUME NEW E, NEW t, NEW u, ~Reaches(E, u, t),
           \A e \in E : ~Reaches(E, e[2], e[1])
    PROVE  \A e \in E \cup {<<t, u>>} : ~Reaches(E \cup {<<t, u>>}, e[2], e[1])
<1>. DEFINE F == E \cup {<<t, u>>}
<1>1. PICK R \in SUBSET Tasks : u \in R /\ ClosedUnder(E, R) /\ t \notin R
  BY DEF Reaches
<1>2. ClosedUnder(F, R)
  BY <1>1 DEF ClosedUnder
<1>3. ASSUME NEW e \in E
      PROVE  ~Reaches(F, e[2], e[1])
  <2>1. PICK S \in SUBSET Tasks : e[2] \in S /\ ClosedUnder(E, S) /\ e[1] \notin S
    BY <1>3 DEF Reaches
  <2>2. CASE t \notin S
    <3>1. ClosedUnder(F, S)
      BY <2>1, <2>2 DEF ClosedUnder
    <3>. QED
      BY <2>1, <3>1 DEF Reaches
  <2>3. CASE t \in S
    <3>1. ClosedUnder(F, S \cup R)
      BY <1>1, <2>1 DEF ClosedUnder
    <3>2. CASE e[1] \notin R
      BY <2>1, <3>1, <3>2 DEF Reaches
    <3>3. CASE e[1] \in R
      <4>1. e[2] \in R
        BY <1>1, <1>3, <3>3 DEF ClosedUnder
      <4>2. ClosedUnder(F, S \cap R)
        BY <1>1, <2>1 DEF ClosedUnder
      <4>. QED
        BY <2>1, <4>1, <4>2 DEF Reaches
    <3>. QED
      BY <3>2, <3>3
  <2>. QED
    BY <2>2, <2>3
<1>4. ~Reaches(F, u, t)
  BY <1>1, <1>2 DEF Reaches
<1>5. ASSUME NEW e \in F PROVE ~Reaches(F, e[2], e[1])
  <2>1. CASE e \in E
    BY <1>3, <2>1
  <2>2. CASE e = <<t, u>>
    BY <1>4, <2>2
  <2>. QED
    BY <1>5, <2>1, <2>2
<1>. QED
  BY <1>5

-----------------------------------------------------------------------------
(* The edge a request is about to insert closes no cycle, as long as none   *)
(* was added since the request searched.                                    *)
FreshIsSafe == \A r \in fresh : ~Reaches(edges, pair[r][2], pair[r][1])

(* What this takes of the types.                                            *)
EdgeShape ==
    /\ op = [r \in Editors |-> op[r]]
    /\ pair \in [Editors -> (Tasks \X Tasks) \cup {None}]
    /\ \A r \in Editors : op[r] = "checked" => pair[r] # None

RacesInv == fresh \subseteq Editors /\ OnlyRacesCloseCycles /\ FreshIsSafe

(* Of the edges that did not race, a subset is left: none closes a cycle.   *)
LEMMA FewerIsAcyclic ==
  ASSUME NEW E, Acyclic(E), NEW F, F \subseteq E
  PROVE  Acyclic(F)
BY FewerEdges DEF Acyclic

(* What only takes edges or requests away keeps both.                       *)
LEMMA FewerIsSafe ==
  ASSUME RacesInv, edges' \subseteq edges, edges' \ raced' \subseteq edges \ raced,
         fresh' \subseteq fresh, \A r \in fresh' : pair'[r] = pair[r]
  PROVE  RacesInv'
<1>1. OnlyRacesCloseCycles'
  BY FewerIsAcyclic DEF RacesInv, OnlyRacesCloseCycles
<1>2. ASSUME NEW r \in fresh' PROVE ~Reaches(edges', pair'[r][2], pair'[r][1])
  <2>1. ~Reaches(edges, pair[r][2], pair[r][1])
    BY <1>2 DEF RacesInv, FreshIsSafe
  <2>. QED
    BY <1>2, <2>1, FewerEdges
<1>. QED
  BY <1>1, <1>2 DEF RacesInv, FreshIsSafe

(* A request that is fresh adds a safe edge; one that is not adds an edge   *)
(* that counts as raced; and others that searched are fresh no more.        *)
LEMMA AddIsSafe ==
  ASSUME EdgeShape, RacesInv, NEW r \in Editors, AddEdge(r)
  PROVE  RacesInv'
<1>1. /\ edges' = edges \cup {pair[r]}
      /\ fresh' = IF pair[r] \in edges THEN fresh \ {r} ELSE {}
      /\ raced' = IF r \in fresh \/ pair[r] \in edges THEN raced ELSE raced \cup {pair[r]}
  BY DEF AddEdge
<1>2. \A q \in Editors \ {r} : pair'[q] = pair[q]
  BY DEF AddEdge, Done, EdgeShape
<1>3. fresh \subseteq Editors
  BY DEF RacesInv
<1>4. CASE pair[r] \in edges
  <2>1. edges' = edges /\ raced' = raced /\ fresh' = fresh \ {r}
    BY <1>1, <1>4
  <2>. QED
    BY <1>2, <1>3, <2>1, FewerIsSafe
<1>5. CASE pair[r] \notin edges
  <2>1. fresh' = {}
    BY <1>1, <1>5
  <2>2. CASE r \in fresh
    <3>1. /\ edges' \ raced' \subseteq (edges \ raced) \cup {<<pair[r][1], pair[r][2]>>}
      BY <1>1, <1>5, <2>2 DEF AddEdge, EdgeShape
    <3>2. ~Reaches(edges \ raced, pair[r][2], pair[r][1])
      BY <2>2, FewerEdges DEF RacesInv, FreshIsSafe
    <3>3. \A e \in edges \ raced : ~Reaches(edges \ raced, e[2], e[1])
      BY DEF RacesInv, OnlyRacesCloseCycles, Acyclic
    <3>4. Acyclic((edges \ raced) \cup {<<pair[r][1], pair[r][2]>>})
      BY <3>2, <3>3, SafeEdge DEF Acyclic
    <3>5. OnlyRacesCloseCycles'
      BY <3>1, <3>4, FewerIsAcyclic DEF OnlyRacesCloseCycles
    <3>. QED
      BY <2>1, <3>5 DEF RacesInv, FreshIsSafe
  <2>3. CASE r \notin fresh
    <3>1. edges' \ raced' \subseteq edges \ raced
      BY <1>1, <2>3
    <3>2. OnlyRacesCloseCycles'
      BY <3>1, FewerIsAcyclic DEF RacesInv, OnlyRacesCloseCycles
    <3>. QED
      BY <2>1, <3>2 DEF RacesInv, FreshIsSafe
  <2>. QED
    BY <2>2, <2>3
<1>. QED
  BY <1>4, <1>5

(* Whatever editors add and delete side by side.                            *)
LEMMA RacesStep ==
  ASSUME EdgeShape, RacesInv, [DependenciesNext]_depVars
  PROVE  RacesInv'
<1>1. ASSUME NEW r \in Editors, CheckEdge(r)
      PROVE  RacesInv'
  <2>1. PICK t, u \in taskRows : /\ ~WouldCreateCycle(t, u)
                                 /\ pair' = [pair EXCEPT ![r] = <<t, u>>]
    BY <1>1 DEF CheckEdge
  <2>2. edges' = edges /\ raced' = raced /\ fresh' = fresh \cup {r}
    BY <1>1 DEF CheckEdge
  <2>3. pair'[r] = <<t, u>> /\ \A q \in Editors \ {r} : pair'[q] = pair[q]
    BY <2>1 DEF EdgeShape
  <2>4. ~Reaches(edges, u, t)
    BY <2>1 DEF WouldCreateCycle
  <2>5. OnlyRacesCloseCycles'
    BY <2>2 DEF RacesInv, OnlyRacesCloseCycles
  <2>6. ASSUME NEW q \in fresh' PROVE ~Reaches(edges', pair'[q][2], pair'[q][1])
    <3>1. CASE q = r
      BY <2>2, <2>3, <2>4, <3>1
    <3>2. CASE q # r
      <4>1. q \in fresh /\ pair'[q] = pair[q]
        BY <2>2, <2>3, <2>6, <3>2 DEF RacesInv
      <4>. QED
        BY <2>2, <4>1 DEF RacesInv, FreshIsSafe
    <3>. QED
      BY <3>1, <3>2
  <2>. QED
    BY <2>2, <2>5, <2>6 DEF RacesInv, FreshIsSafe
<1>2. ASSUME NEW r \in Editors, AddEdge(r)
      PROVE  RacesInv'
  BY <1>2, AddIsSafe
<1>3. ASSUME NEW r \in Editors, AddFails(r)
      PROVE  RacesInv'
  <2>1. edges' = edges /\ raced' = raced /\ fresh' = fresh \ {r}
    BY <1>3 DEF AddFails
  <2>2. \A q \in fresh' : pair'[q] = pair[q]
    BY <1>3, <2>1 DEF AddFails, Done, EdgeShape, RacesInv
  <2>. QED
    BY <2>1, <2>2, FewerIsSafe
<1>4. ASSUME DeleteEdge \/ DeleteTask
      PROVE  RacesInv'
  <2>1. edges' \subseteq edges /\ raced' = raced \cap edges' /\ UNCHANGED <<fresh, pair>>
    BY <1>4 DEF DeleteEdge, DeleteTask
  <2>. QED
    BY <2>1, FewerIsSafe
<1>5. CASE UNCHANGED depVars
  BY <1>5, FewerIsSafe DEF depVars, history
<1>. QED
  BY <1>1, <1>2, <1>3, <1>4, <1>5 DEF DependenciesNext, Request

(* Dependencies join existing tasks, however many requests there are.       *)
THEOREM DependenciesJoinTasks == DependenciesSpec => []DependenciesTypeOK
<1>1. DependenciesInit => DependenciesTypeOK
  BY DEF DependenciesInit, DependenciesTypeOK
<1>2. DependenciesTypeOK /\ [DependenciesNext]_depVars => DependenciesTypeOK'
  <2>. SUFFICES ASSUME DependenciesTypeOK, [DependenciesNext]_depVars PROVE DependenciesTypeOK'
    OBVIOUS
  <2>. USE DEF DependenciesTypeOK
  <2>1. ASSUME NEW r \in Editors, CheckEdge(r) PROVE DependenciesTypeOK'
    BY <2>1, DependenciesAssumption DEF CheckEdge
  <2>2. ASSUME NEW r \in Editors, AddEdge(r) PROVE DependenciesTypeOK'
    <3>1. pair[r] \in Tasks \X Tasks
      BY <2>2 DEF AddEdge
    <3>2. pair[r] \in taskRows \X taskRows
      BY <2>2, <3>1 DEF AddEdge
    <3>. QED
      BY <2>2, <3>2 DEF AddEdge, Done
  <2>3. ASSUME NEW r \in Editors, AddFails(r) PROVE DependenciesTypeOK'
    BY <2>3 DEF AddFails, Done
  <2>4. ASSUME DeleteEdge PROVE DependenciesTypeOK'
    BY <2>4 DEF DeleteEdge
  <2>5. ASSUME DeleteTask PROVE DependenciesTypeOK'
    <3>1. PICK t \in taskRows : /\ taskRows' = taskRows \ {t}
                                /\ edges' = {e \in edges : e[1] # t /\ e[2] # t}
      BY <2>5 DEF DeleteTask
    <3>2. edges' \subseteq taskRows' \X taskRows'
      BY <3>1
    <3>. QED
      BY <2>5, <3>1, <3>2 DEF DeleteTask
  <2>6. CASE UNCHANGED depVars
    BY <2>6 DEF depVars, history
  <2>. QED
    BY <2>1, <2>2, <2>3, <2>4, <2>5, <2>6 DEF DependenciesNext, Request
<1>. QED
  BY <1>1, <1>2, PTL DEF DependenciesSpec

(* For any number of tasks and of editors at once: whatever was added and   *)
(* deleted before, a cycle has an edge that was added after another edge    *)
(* had been since its request searched; nothing but that race closes one.   *)
THEOREM CyclesTakeARace == DependenciesSpec => []OnlyRacesCloseCycles
<1>1. DependenciesInit => RacesInv
  BY DEF DependenciesInit, RacesInv, OnlyRacesCloseCycles, Acyclic, FreshIsSafe
<1>2. DependenciesTypeOK => EdgeShape
  BY DEF DependenciesTypeOK, EdgeShape
<1>3. DependenciesTypeOK /\ RacesInv /\ [DependenciesNext]_depVars => RacesInv'
  BY <1>2, RacesStep
<1>4. RacesInv => OnlyRacesCloseCycles
  BY DEF RacesInv
<1>. QED
  BY <1>1, <1>3, <1>4, DependenciesJoinTasks, PTL DEF DependenciesSpec

-----------------------------------------------------------------------------
(* Re-planning (Replan).  A finite set of integers has a maximum: take an   *)
(* element with the fewest above it.                                        *)
LEMMA MaxOfFinite ==
  ASSUME NEW S, IsFiniteSet(S), S \subseteq Int, S # {}
  PROVE  /\ Max(S) \in S
         /\ \A y \in S : y <= Max(S)
<1>1. PICK above : above = [x \in S |-> {y \in S : y > x}]
  OBVIOUS
<1>2. \A x \in S : above[x] \in SUBSET S
  BY <1>1
<1>3. \A x, y \in S : y > x => y \in above[x] /\ y \notin above[y]
  BY <1>1
<1>4. \A x, y \in S : y > x => above[y] \subseteq above[x]
  <2>. SUFFICES ASSUME NEW x \in S, NEW y \in S, y > x, NEW z \in above[y]
                PROVE  z \in above[x]
    OBVIOUS
  <2>1. z \in S /\ z > y
    BY <1>1
  <2>2. z > x
    <3>1. x \in Int /\ y \in Int /\ z \in Int
      BY <2>1
    <3>. QED
      BY <2>1, <3>1
  <2>. QED
    BY <1>1, <2>1, <2>2
<1>5. PICK T : T = {above[x] : x \in S}
  OBVIOUS
<1>6. T \subseteq FiniteSubsetsOf(S) /\ T # {}
  <2>1. FiniteSubsetsOf(S) = SUBSET S
    BY FS_FiniteSubsetsOfFinite
  <2>2. \A a \in T : a \in SUBSET S
    BY <1>2, <1>5
  <2>3. \E x \in S : above[x] \in T
    BY <1>5
  <2>. QED
    BY <2>1, <2>2, <2>3
<1>7. \E a \in T : \A b \in T : ~(<<b, a>> \in StrictSubsetOrdering(S))
  BY <1>6, FS_StrictSubsetOrderingWellFounded, WFMin
<1>8. PICK x \in S : \A y \in S : ~(<<above[y], above[x]>> \in StrictSubsetOrdering(S))
  BY <1>5, <1>7
<1>9. \A y \in S : ~(y > x)
  BY <1>2, <1>3, <1>4, <1>8 DEF StrictSubsetOrdering
<1>10. \A y \in S : x >= y
  BY <1>9
<1>11. Max(S) \in S /\ \A y \in S : Max(S) >= y
  BY <1>10 DEF Max
<1>. QED
  BY <1>11

(* What a function gives for finitely many arguments is finite.             *)
LEMMA FiniteRange ==
  ASSUME NEW S, IsFiniteSet(S), NEW f, S \subseteq DOMAIN f
  PROVE  IsFiniteSet({f[x] : x \in S})
<1>. DEFINE T == {f[x] : x \in S}
            g == [x \in S |-> f[x]]
<1>1. g \in Surjection(S, T)
  BY DEF Surjection
<1>. QED
  BY <1>1, FS_Surjection

-----------------------------------------------------------------------------
(* Typed rows, as far as the graph of milestones and their shifts go.       *)
Rows ==
    /\ edges \subseteq Tasks \X Tasks
    /\ home \in [Tasks -> Milestones]
    /\ today \in Nat
    /\ due \in [Milestones -> Dues]

LEMMA UpstreamAreMilestones ==
  ASSUME Rows
  PROVE  \A m : Upstream(m) \subseteq Milestones
BY DEF Rows, Upstream

(* Whoever computes own shifts gets natural numbers.                        *)
LEMMA OwnShiftIsNat ==
  ASSUME Rows
  PROVE  \A m \in Milestones : OwnShift(m) \in Nat /\ (Overdue(due, m) <=> OwnShift(m) > 0)
<1>. SUFFICES ASSUME NEW m \in Milestones
              PROVE  OwnShift(m) \in Nat /\ (Overdue(due, m) <=> OwnShift(m) > 0)
  OBVIOUS
<1>1. due[m] \in Nat \/ due[m] = NoDue
  BY ReplanAssumption DEF Rows, Dues
<1>2. CASE Overdue(due, m)
  <2>1. due[m] \in Nat /\ due[m] < today
    BY <1>1, <1>2 DEF Overdue
  <2>. QED
    BY <1>2, <2>1, ReplanAssumption DEF OwnShift, Rows
<1>3. CASE ~Overdue(due, m)
  BY <1>3 DEF OwnShift
<1>. QED
  BY <1>2, <1>3

(* A milestone comes after itself, what it waits on, and what that waits    *)
(* on.                                                                      *)
LEMMA AncestorsAreClosed ==
  ASSUME Rows
  PROVE  \A m \in Milestones :
           /\ Ancestors(m) \subseteq Milestones
           /\ m \in Ancestors(m)
           /\ \A a \in Ancestors(m) : Upstream(a) \subseteq Ancestors(m)
           /\ \A a \in Ancestors(m) : Ancestors(a) \subseteq Ancestors(m)
<1>. SUFFICES ASSUME NEW m \in Milestones
              PROVE  /\ Ancestors(m) \subseteq Milestones
                     /\ m \in Ancestors(m)
                     /\ \A a \in Ancestors(m) : Upstream(a) \subseteq Ancestors(m)
                     /\ \A a \in Ancestors(m) : Ancestors(a) \subseteq Ancestors(m)
  OBVIOUS
<1>1. Ancestors(m) \subseteq Milestones /\ m \in Ancestors(m)
  BY DEF Ancestors
<1>2. \A a \in Ancestors(m) : Upstream(a) \subseteq Ancestors(m)
  BY UpstreamAreMilestones DEF Ancestors
<1>3. \A a \in Ancestors(m) : Ancestors(a) \subseteq Ancestors(m)
  BY <1>1, <1>2 DEF Ancestors
<1>. QED
  BY <1>1, <1>2, <1>3

(* All that a milestone waits on is itself and what each upstream waits on. *)
LEMMA AncestorsByUpstream ==
  ASSUME Rows
  PROVE  \A m \in Milestones : \A a \in Ancestors(m) :
           a = m \/ \E u \in Upstream(m) : a \in Ancestors(u)
<1>. SUFFICES ASSUME NEW m \in Milestones
              PROVE  \A a \in Ancestors(m) : a = m \/ \E u \in Upstream(m) : a \in Ancestors(u)
  OBVIOUS
<1>. DEFINE S == {a \in Milestones : a = m \/ \E u \in Upstream(m) : a \in Ancestors(u)}
<1>1. \A n \in S : Upstream(n) \subseteq S
  <2>. SUFFICES ASSUME NEW n \in S, NEW v \in Upstream(n) PROVE v \in S
    OBVIOUS
  <2>1. v \in Milestones
    BY UpstreamAreMilestones
  <2>2. CASE n = m
    BY <2>1, <2>2, AncestorsAreClosed
  <2>3. CASE \E u \in Upstream(m) : n \in Ancestors(u)
    <3>. PICK u \in Upstream(m) : n \in Ancestors(u)
      BY <2>3
    <3>1. v \in Ancestors(u)
      BY UpstreamAreMilestones, AncestorsAreClosed
    <3>. QED
      BY <2>1, <3>1
  <2>. QED
    BY <2>2, <2>3
<1>2. S \in SUBSET Milestones /\ m \in S
  OBVIOUS
<1>3. \A a \in Ancestors(m) : a \in S
  <2>. HIDE DEF S
  <2>. QED
    BY <1>1, <1>2 DEF Ancestors
<1>. QED
  BY <1>3

(* The shift of the latest of all that a milestone waits on.                *)
Latest(m) == Max({OwnShift(u) : u \in Ancestors(m)})

LEMMA LatestBounds ==
  ASSUME Rows, NEW m \in Milestones
  PROVE  /\ \E a \in Ancestors(m) : Latest(m) = OwnShift(a)
         /\ \A a \in Ancestors(m) : OwnShift(a) <= Latest(m)
         /\ Latest(m) \in Nat
<1>. DEFINE S == {OwnShift(u) : u \in Ancestors(m)}
            own == [u \in Milestones |-> OwnShift(u)]
<1>1. Ancestors(m) \subseteq Milestones /\ m \in Ancestors(m)
  BY AncestorsAreClosed
<1>2. S = {own[u] : u \in Ancestors(m)}
  BY <1>1
<1>3. IsFiniteSet(S)
  <2>1. IsFiniteSet(Ancestors(m))
    BY <1>1, FS_Subset, ReplanAssumption
  <2>2. Ancestors(m) \subseteq DOMAIN own
    BY <1>1
  <2>. HIDE DEF own, S
  <2>. QED
    BY <1>2, <2>1, <2>2, FiniteRange
<1>4. S \subseteq Nat /\ S # {}
  BY <1>1, OwnShiftIsNat
<1>5. Max(S) \in S /\ \A y \in S : y <= Max(S)
  <2>. HIDE DEF S
  <2>1. S \subseteq Int
    BY <1>4
  <2>. QED
    BY <1>3, <1>4, <2>1, MaxOfFinite
<1>6. Latest(m) = Max(S)
  BY DEF Latest
<1>. QED
  BY <1>4, <1>5, <1>6

(* What Propagate takes for a milestone: the maximum is there.              *)
LEMMA ShiftOfBounds ==
  ASSUME Rows, shift \in [Milestones -> Nat], NEW m \in Milestones
  PROVE  /\ ShiftOf(m) \in Nat
         /\ ShiftOf(m) = OwnShift(m) \/ \E u \in Upstream(m) : ShiftOf(m) = shift[u]
         /\ OwnShift(m) <= ShiftOf(m)
         /\ \A u \in Upstream(m) : shift[u] <= ShiftOf(m)
<1>. DEFINE U == {shift[u] : u \in Upstream(m)}
            S == {OwnShift(m)} \cup U
<1>1. Upstream(m) \subseteq Milestones
  BY UpstreamAreMilestones
<1>2. IsFiniteSet(U)
  <2>1. IsFiniteSet(Upstream(m))
    BY <1>1, FS_Subset, ReplanAssumption
  <2>. QED
    BY <1>1, <2>1, FiniteRange
<1>3. IsFiniteSet(S)
  <2>. HIDE DEF U
  <2>1. IsFiniteSet(U \cup {OwnShift(m)})
    BY <1>2, FS_AddElement
  <2>2. S = U \cup {OwnShift(m)}
    OBVIOUS
  <2>. QED
    BY <2>1, <2>2
<1>4. S \subseteq Nat /\ S # {}
  BY <1>1, OwnShiftIsNat
<1>5. Max(S) \in S /\ \A y \in S : y <= Max(S)
  <2>. HIDE DEF S
  <2>1. S \subseteq Int
    BY <1>4
  <2>. QED
    BY <1>3, <1>4, <2>1, MaxOfFinite
<1>6. ShiftOf(m) = Max(S)
  BY DEF ShiftOf
<1>. QED
  BY <1>4, <1>5, <1>6

(* The latest of all that a milestone waits on, from its upstreams'.        *)
LEMMA LatestByUpstream ==
  ASSUME Rows, shift \in [Milestones -> Nat], NEW m \in Milestones,
         \A u \in Upstream(m) : shift[u] = Latest(u)
  PROVE  ShiftOf(m) = Latest(m)
<1>1. Upstream(m) \subseteq Milestones
  BY UpstreamAreMilestones
<1>2. ShiftOf(m) \in Nat /\ Latest(m) \in Nat
  BY ShiftOfBounds, LatestBounds
<1>3. ShiftOf(m) <= Latest(m)
  <2>1. OwnShift(m) <= Latest(m)
    BY AncestorsAreClosed, LatestBounds
  <2>2. ASSUME NEW u \in Upstream(m) PROVE shift[u] <= Latest(m)
    <3>1. u \in Milestones /\ u \in Ancestors(m)
      BY <1>1, AncestorsAreClosed
    <3>2. PICK a \in Ancestors(u) : Latest(u) = OwnShift(a)
      BY <3>1, LatestBounds
    <3>3. a \in Ancestors(m)
      BY <3>1, AncestorsAreClosed
    <3>. QED
      BY <3>2, <3>3, LatestBounds
  <2>. QED
    BY <2>1, <2>2, ShiftOfBounds
<1>4. Latest(m) <= ShiftOf(m)
  <2>1. PICK a \in Ancestors(m) : Latest(m) = OwnShift(a)
    BY LatestBounds
  <2>2. CASE a = m
    BY <2>1, <2>2, ShiftOfBounds
  <2>3. CASE \E u \in Upstream(m) : a \in Ancestors(u)
    <3>1. PICK u \in Upstream(m) : a \in Ancestors(u)
      BY <2>3
    <3>2. OwnShift(a) <= Latest(u) /\ Latest(u) \in Nat
      BY <1>1, <3>1, LatestBounds
    <3>3. Latest(u) <= ShiftOf(m)
      BY ShiftOfBounds
    <3>. QED
      BY <1>2, <2>1, <3>2, <3>3
  <2>. QED
    BY <2>2, <2>3, AncestorsByUpstream
<1>. QED
  BY <1>2, <1>3, <1>4

-----------------------------------------------------------------------------
(* One request computes at a time, and between two nothing is left over.    *)
OneComputes == \A q, r \in Editors : op[q] = "computing" /\ op[r] = "computing" => q = r

AtRest ==
    ~Computing =>
        /\ todo = {} /\ stack = << >> /\ ordered = << >>
        /\ shift = NoShift /\ shifted = 0

(* The sort loses no milestone.                                             *)
Covered == Computing => Milestones = todo \cup ToSet(ordered) \cup ToSet(stack)

(* Nothing is shifted before all is sorted.                                 *)
SortedFirst == shifted > 0 => todo = {} /\ stack = << >>

(* Each milestone on the stack waits, at some distance, on those above it,  *)
(* and none is there twice.                                                 *)
StackDescends ==
    /\ \A i, j \in 1..Len(stack) : stack[i] = stack[j] => i = j
    /\ \A i \in 1..Len(stack) : left[stack[i]] \subseteq Upstream(stack[i])
    /\ \A i, j \in 1..Len(stack) : i <= j => stack[j] \in Ancestors(stack[i])

(* Without a cycle, an upstream of a milestone on the stack is yet to be    *)
(* come to, or sorted, or next on the stack; and an upstream of one that is *)
(* sorted comes before it.                                                  *)
UpstreamNotMissed ==
    MilestonesAcyclic =>
        \A i \in 1..Len(stack) : \A u \in Upstream(stack[i]) :
          \/ u \in left[stack[i]] \/ u \in ToSet(ordered)
          \/ i < Len(stack) /\ u = stack[i + 1]

UpstreamFirst ==
    MilestonesAcyclic =>
        \A i \in 1..Len(ordered) : \A u \in Upstream(ordered[i]) :
          \E j \in 1..(i - 1) : ordered[j] = u

(* What is shifted is shifted far enough, not at all when nothing is late,  *)
(* and without a cycle exactly by its latest blocker.                       *)
ShiftsFarEnough == \A i \in 1..shifted : OwnShift(ordered[i]) <= shift[ordered[i]]
NothingMoves == NothingOverdue(due) => shift = NoShift
ShiftsExactly == MilestonesAcyclic => \A i \in 1..shifted : shift[ordered[i]] = Latest(ordered[i])

ReplanInv ==
    /\ TypeOK /\ OneComputes /\ AtRest /\ Covered /\ SortedFirst /\ StackDescends
    /\ UpstreamNotMissed /\ UpstreamFirst /\ ShiftsFarEnough /\ NothingMoves /\ ShiftsExactly

-----------------------------------------------------------------------------
(* Types.                                                                   *)
LEMMA TypesGiveRows ==
  ASSUME TypeOK
  PROVE  Rows
BY ReplanAssumption DEF TypeOK, Rows

LEMMA InitTypes == Init => TypeOK
<1>. SUFFICES ASSUME Init PROVE TypeOK
  OBVIOUS
<1>1. due \in [Milestones -> Dues] /\ today \in 0..MaxDay
  BY ReplanAssumption DEF Init, Dues
<1>2. \A r \in Editors : op[r] = "idle" /\ pair[r] = None /\ plan[r] = NoPlan
  BY DEF Init, DependenciesInit
<1>3. /\ taskRows \subseteq Tasks /\ edges \subseteq taskRows \X taskRows
      /\ op \in [Editors -> {"idle", "checked", "computing", "applying"}]
      /\ pair \in [Editors -> (Tasks \X Tasks) \cup {None}]
      /\ home \in [Tasks -> Milestones] /\ done \subseteq Milestones
      /\ DOMAIN plan = Editors
  BY DEF Init, DependenciesInit
<1>4. /\ todo \subseteq Milestones /\ left \in [Milestones -> SUBSET Milestones]
      /\ stack \in Seq(Milestones) /\ ordered \in Seq(Milestones)
      /\ shift \in [Milestones -> Nat] /\ shifted \in 0..Len(ordered)
  BY DEF Init, NoShift
<1>. QED
  BY <1>1, <1>2, <1>3, <1>4 DEF TypeOK, NoPlan

(* The steps of a sort and of the shifts change nothing but these.          *)
SortTypes ==
    /\ todo \subseteq Milestones /\ left \in [Milestones -> SUBSET Milestones]
    /\ stack \in Seq(Milestones) /\ ordered \in Seq(Milestones)
    /\ shift \in [Milestones -> Nat] /\ shifted \in 0..Len(ordered)

RowTypes ==
    /\ taskRows \subseteq Tasks /\ edges \subseteq taskRows \X taskRows
    /\ op \in [Editors -> {"idle", "checked", "computing", "applying"}]
    /\ pair \in [Editors -> (Tasks \X Tasks) \cup {None}]
    /\ home \in [Tasks -> Milestones] /\ today \in 0..MaxDay
    /\ due \in [Milestones -> Dues] /\ done \subseteq Milestones
    /\ DOMAIN plan = Editors

PlanTypes ==
    \A r \in Editors :
      /\ op[r] = "checked" <=> pair[r] # None
      /\ op[r] = "applying" <=> plan[r] # NoPlan
      /\ DOMAIN plan[r] \subseteq Milestones
      /\ \A m \in DOMAIN plan[r] : plan[r][m] \in 1..MaxDue

LEMMA TypesByPart ==
  /\ TypeOK <=> RowTypes /\ PlanTypes /\ SortTypes
  /\ TypeOK' <=> RowTypes' /\ PlanTypes' /\ SortTypes'
BY DEF TypeOK, RowTypes, PlanTypes, SortTypes

(* What the last of a sequence is, and all before it.                       *)
LEMMA LastAndFront ==
  ASSUME NEW S, NEW s \in Seq(S), s # << >>
  PROVE  /\ Len(s) \in Nat \ {0} /\ Last(s) = s[Len(s)] /\ Last(s) \in S
         /\ Front(s) \in Seq(S) /\ Len(Front(s)) = Len(s) - 1
         /\ \A i \in 1..(Len(s) - 1) : Front(s)[i] = s[i]
<1>1. Len(s) \in Nat \ {0}
  BY EmptySeq, LenProperties
<1>2. \A i \in 1..(Len(s) - 1) : s[i] \in S
  BY <1>1, ElementOfSeq
<1>3. /\ SubSeq(s, 1, Len(s) - 1) \in Seq(S)
      /\ Len(SubSeq(s, 1, Len(s) - 1)) = Len(s) - 1
      /\ \A i \in 1..(Len(s) - 1) : SubSeq(s, 1, Len(s) - 1)[i] = s[i]
  <2>. PICK n \in Nat : n = Len(s) - 1
    BY <1>1
  <2>1. /\ SubSeq(s, 1, n) \in Seq(S)
        /\ Len(SubSeq(s, 1, n)) = IF 1 <= n THEN n - 1 + 1 ELSE 0
        /\ \A i \in 1..(n - 1 + 1) : SubSeq(s, 1, n)[i] = s[1 + i - 1]
    BY <1>2, SubSeqProperties
  <2>2. Len(SubSeq(s, 1, n)) = n /\ \A i \in 1..n : SubSeq(s, 1, n)[i] = s[i]
    BY <2>1
  <2>. QED
    BY <2>1, <2>2
<1>4. s[Len(s)] \in S
  BY <1>1, ElementOfSeq
<1>. QED
  BY <1>1, <1>3, <1>4 DEF Last, Front

(* A visit that begins is of a milestone.                                   *)
LEMMA EnterTypes ==
  ASSUME Rows, stack \in Seq(Milestones), NEW m \in Milestones,
         NEW l \in [Milestones -> SUBSET Milestones], Enter(m, l)
  PROVE  stack' \in Seq(Milestones) /\ left' \in [Milestones -> SUBSET Milestones]
<1>1. Upstream(m) \subseteq Milestones
  BY UpstreamAreMilestones
<1>2. stack' \in Seq(Milestones)
  BY AppendProperties DEF Enter
<1>. QED
  BY <1>1, <1>2 DEF Enter

LEMMA SortKeepsTypes ==
  ASSUME TypeOK, VisitNext \/ VisitUpstream \/ Leave \/ Propagate
  PROVE  TypeOK'
<1>. USE TypesGiveRows, TypesByPart
<1>1. RowTypes' /\ PlanTypes'
  <2>1. UNCHANGED <<depVars, rowVars, plan>>
    BY DEF VisitNext, VisitUpstream, Leave, Propagate
  <2>. QED
    BY <2>1 DEF RowTypes, PlanTypes, depVars, rowVars
<1>2. CASE VisitNext
  <2>. PICK m \in todo : /\ todo' = todo \ {m}
                         /\ \/ UNCHANGED <<stack, left>>
                         \/ Enter(m, left)
    BY <1>2 DEF VisitNext
  <2>1. stack' \in Seq(Milestones) /\ left' \in [Milestones -> SUBSET Milestones]
    BY EnterTypes DEF SortTypes
  <2>. QED
    BY <1>1, <1>2, <2>1 DEF SortTypes, VisitNext
<1>3. CASE VisitUpstream
  <2>1. Last(stack) \in Milestones
    BY <1>3, LastAndFront DEF VisitUpstream, SortTypes
  <2>u. PICK u \in left[Last(stack)] : \E rest :
          /\ rest = [left EXCEPT ![Last(stack)] = @ \ {u}]
          /\ (left' = rest /\ UNCHANGED stack) \/ Enter(u, rest)
    BY <1>3 DEF VisitUpstream
  <2>2. PICK rest :
          /\ rest = [left EXCEPT ![Last(stack)] = @ \ {u}]
          /\ (left' = rest /\ UNCHANGED stack) \/ Enter(u, rest)
    BY <2>u
  <2>3. u \in Milestones /\ rest \in [Milestones -> SUBSET Milestones]
    BY <2>1, <2>u, <2>2 DEF SortTypes
  <2>4. stack' \in Seq(Milestones) /\ left' \in [Milestones -> SUBSET Milestones]
    BY <2>2, <2>3, EnterTypes DEF SortTypes
  <2>. QED
    BY <1>1, <1>3, <2>4 DEF SortTypes, VisitUpstream
<1>4. CASE Leave
  <2>1. Last(stack) \in Milestones /\ Front(stack) \in Seq(Milestones)
    BY <1>4, LastAndFront DEF Leave, SortTypes
  <2>2. ordered' \in Seq(Milestones) /\ Len(ordered') = Len(ordered) + 1
    BY <1>4, <2>1, AppendProperties DEF Leave, SortTypes
  <2>3. shifted' \in 0..Len(ordered')
    BY <1>4, <2>2 DEF Leave, SortTypes
  <2>. QED
    BY <1>1, <1>4, <2>1, <2>2, <2>3 DEF SortTypes, Leave
<1>5. CASE Propagate
  <2>1. shifted' \in 1..Len(ordered)
    BY <1>5 DEF Propagate, SortTypes
  <2>2. ordered[shifted'] \in Milestones
    BY <2>1, ElementOfSeq DEF SortTypes
  <2>3. ShiftOf(ordered[shifted']) \in Nat
    BY <2>2, ShiftOfBounds DEF SortTypes
  <2>4. shift' \in [Milestones -> Nat]
    BY <1>5, <2>2, <2>3 DEF Propagate, SortTypes
  <2>. QED
    BY <1>1, <1>5, <2>1, <2>4 DEF SortTypes, Propagate
<1>. QED
  BY <1>2, <1>3, <1>4, <1>5

(* A proposal has later dates for some of the milestones.                   *)
LEMMA ProposalTypes ==
  ASSUME TypeOK
  PROVE  /\ DOMAIN Proposal \subseteq Milestones
         /\ \A m \in DOMAIN Proposal :
              /\ shift[m] > 0 /\ due[m] \in 0..MaxDue
              /\ Proposal[m] = due[m] + shift[m] /\ Proposal[m] \in Nat \ {0}
<1>1. \A m \in Milestones : due[m] # NoDue => due[m] \in 0..MaxDue
  BY DEF TypeOK, Dues
<1>. QED
  BY <1>1, ReplanAssumption DEF TypeOK, Proposal

LEMMA SelectKeepsTypes ==
  ASSUME TypeOK, NEW r \in Editors, Select(r)
  PROVE  TypeOK'
<1>. USE TypesByPart
<1>1. PICK ids \in SUBSET DOMAIN Proposal :
        /\ \A m \in ids : Proposal[m] <= MaxDue
        /\ plan' = [plan EXCEPT ![r] = Kept(Proposal, ids)]
        /\ op' = [op EXCEPT ![r] = IF ids = {} THEN "idle" ELSE "applying"]
  BY DEF Select
<1>2. DOMAIN Kept(Proposal, ids) = ids /\ \A m \in ids : Kept(Proposal, ids)[m] = Proposal[m]
  BY DEF Kept
<1>3. \A m \in ids : Proposal[m] \in 1..MaxDue
  BY <1>1, ProposalTypes, ReplanAssumption
<1>4. ids = {} <=> Kept(Proposal, ids) = NoPlan
  <2>1. ids = {} => Kept(Proposal, ids) = NoPlan
    BY DEF Kept, NoPlan
  <2>. QED
    BY <1>2, <2>1 DEF NoPlan
<1>5. RowTypes'
  <2>1. op' \in [Editors -> {"idle", "checked", "computing", "applying"}] /\ DOMAIN plan' = Editors
    BY <1>1 DEF RowTypes
  <2>. QED
    BY <2>1 DEF RowTypes, Select, rowVars
<1>6. PlanTypes'
  <2>. SUFFICES ASSUME NEW q \in Editors
                PROVE  /\ op'[q] = "checked" <=> pair'[q] # None
                       /\ op'[q] = "applying" <=> plan'[q] # NoPlan
                       /\ DOMAIN plan'[q] \subseteq Milestones
                       /\ \A m \in DOMAIN plan'[q] : plan'[q][m] \in 1..MaxDue
    BY DEF PlanTypes, NoPlan
  <2>1. CASE q = r
    <3>1. plan'[q] = Kept(Proposal, ids) /\ op'[q] = IF ids = {} THEN "idle" ELSE "applying"
      BY <1>1, <2>1 DEF RowTypes
    <3>2. pair'[q] = None
      BY <2>1 DEF Select, PlanTypes
    <3>3. DOMAIN plan'[q] = ids
      BY <1>2, <3>1
    <3>4. DOMAIN plan'[q] \subseteq Milestones
      BY <3>3, ProposalTypes
    <3>5. \A m \in DOMAIN plan'[q] : plan'[q][m] \in 1..MaxDue
      BY <1>2, <1>3, <3>1
    <3>. QED
      BY <1>4, <3>1, <3>2, <3>4, <3>5
  <2>2. CASE q # r
    <3>1. plan'[q] = plan[q] /\ op'[q] = op[q] /\ pair'[q] = pair[q]
      BY <1>1, <2>2 DEF RowTypes, Select
    <3>. QED
      BY <3>1 DEF PlanTypes
  <2>. QED
    BY <2>1, <2>2
<1>7. SortTypes'
  BY DEF Select, SortTypes, NoShift
<1>. QED
  BY <1>5, <1>6, <1>7

LEMMA BeginKeepsTypes ==
  ASSUME TypeOK, NEW r \in Editors, BeginReplan(r)
  PROVE  TypeOK'
<1>. USE TypesByPart
<1>1. RowTypes'
  BY DEF BeginReplan, RowTypes, rowVars
<1>2. PlanTypes'
  <2>1. \A q \in Editors :
          /\ op'[q] = "checked" <=> op[q] = "checked"
          /\ op'[q] = "applying" <=> op[q] = "applying"
    BY DEF BeginReplan, RowTypes
  <2>. QED
    BY <2>1 DEF BeginReplan, PlanTypes
<1>3. SortTypes'
  BY DEF BeginReplan, SortTypes
<1>. QED
  BY <1>1, <1>2, <1>3

LEMMA EndKeepsTypes ==
  ASSUME TypeOK, NEW r \in Editors, EndApply(r)
  PROVE  TypeOK'
<1>. USE TypesByPart
<1>1. SortTypes'
  BY DEF EndApply, SortTypes, sortVars
<1>2. due' \in [Milestones -> Dues]
  <2>1. \A m \in DOMAIN plan[r] : plan[r][m] \in Dues
    BY ReplanAssumption DEF PlanTypes, Dues
  <2>2. After(due, plan[r]) \in [Milestones -> Dues]
    BY <2>1 DEF After, RowTypes
  <2>. QED
    BY <2>2 DEF EndApply, RowTypes
<1>3. RowTypes'
  BY <1>2 DEF EndApply, RowTypes
<1>4. PlanTypes'
  <2>1. op'[r] = "idle" /\ plan'[r] = NoPlan /\ pair'[r] = None
    BY DEF EndApply, RowTypes, PlanTypes
  <2>2. \A q \in Editors : q # r => op'[q] = op[q] /\ plan'[q] = plan[q] /\ pair'[q] = pair[q]
    BY DEF EndApply, RowTypes
  <2>3. DOMAIN NoPlan = {}
    BY DEF NoPlan
  <2>4. NoPlan' = NoPlan
    BY DEF NoPlan
  <2>. QED
    BY <2>1, <2>2, <2>3, <2>4 DEF PlanTypes
<1>. QED
  BY <1>1, <1>3, <1>4

LEMMA EditsKeepTypes ==
  ASSUME TypeOK, UpdateMilestone \/ DayPasses
  PROVE  TypeOK'
<1>. USE TypesByPart
<1>1. SortTypes' /\ PlanTypes'
  BY DEF UpdateMilestone, DayPasses, SortTypes, sortVars, PlanTypes, depVars
<1>2. today' \in 0..MaxDay
  BY ReplanAssumption DEF UpdateMilestone, DayPasses, RowTypes
<1>3. due' \in [Milestones -> Dues] /\ done' \subseteq Milestones
  BY DEF UpdateMilestone, DayPasses, RowTypes
<1>4. RowTypes'
  BY <1>2, <1>3 DEF UpdateMilestone, DayPasses, RowTypes, depVars
<1>. QED
  BY <1>1, <1>4

LEMMA DependenciesKeepTypes ==
  ASSUME TypeOK, ChangeDependencies
  PROVE  TypeOK'
<1>. USE TypesByPart
<1>1. SortTypes'
  BY DEF ChangeDependencies, SortTypes, sortVars
<1>2. home' \in [Tasks -> Milestones] /\ today' \in 0..MaxDay
      /\ due' \in [Milestones -> Dues] /\ done' \subseteq Milestones
      /\ DOMAIN plan' = Editors /\ plan' = plan
  BY DEF ChangeDependencies, RowTypes, rowVars
<1>3. /\ taskRows' \subseteq Tasks /\ edges' \subseteq taskRows' \X taskRows'
      /\ op' \in [Editors -> {"idle", "checked", "computing", "applying"}]
      /\ pair' \in [Editors -> (Tasks \X Tasks) \cup {None}]
      /\ \A q \in Editors :
           /\ op'[q] = "checked" <=> pair'[q] # None
           /\ op'[q] = "applying" <=> op[q] = "applying"
  <2>. USE DEF RowTypes, PlanTypes
  <2>. DEFINE Typed == /\ taskRows' \subseteq Tasks /\ edges' \subseteq taskRows' \X taskRows'
                       /\ op' \in [Editors -> {"idle", "checked", "computing", "applying"}]
                       /\ pair' \in [Editors -> (Tasks \X Tasks) \cup {None}]
                       /\ \A q \in Editors :
                            /\ op'[q] = "checked" <=> pair'[q] # None
                            /\ op'[q] = "applying" <=> op[q] = "applying"
  <2>1. ASSUME NEW r \in Editors, CheckEdge(r) PROVE Typed
    <3>1. PICK t, u \in taskRows : pair' = [pair EXCEPT ![r] = <<t, u>>]
      BY <2>1 DEF CheckEdge
    <3>2. <<t, u>> \in Tasks \X Tasks /\ <<t, u>> # None
      BY DependenciesAssumption
    <3>. QED
      BY <2>1, <3>1, <3>2 DEF CheckEdge
  <2>2. ASSUME NEW r \in Editors, AddEdge(r) PROVE Typed
    <3>1. pair[r] \in Tasks \X Tasks
      BY <2>2 DEF AddEdge
    <3>2. pair[r] \in taskRows \X taskRows
      BY <2>2, <3>1 DEF AddEdge
    <3>. QED
      BY <2>2, <3>2 DEF AddEdge, Done
  <2>3. ASSUME NEW r \in Editors, AddFails(r) PROVE Typed
    BY <2>3 DEF AddFails, Done
  <2>4. CASE DeleteEdge
    BY <2>4 DEF DeleteEdge
  <2>5. CASE DeleteTask
    <3>1. PICK t \in taskRows : /\ taskRows' = taskRows \ {t}
                                /\ edges' = {e \in edges : e[1] # t /\ e[2] # t}
      BY <2>5 DEF DeleteTask
    <3>2. edges' \subseteq taskRows' \X taskRows'
      BY <3>1
    <3>. QED
      BY <2>5, <3>1, <3>2 DEF DeleteTask
  <2>. QED
    BY <2>1, <2>2, <2>3, <2>4, <2>5 DEF ChangeDependencies, DependenciesNext, Request
<1>4. RowTypes'
  BY <1>2, <1>3 DEF RowTypes
<1>5. PlanTypes'
  <2>. SUFFICES ASSUME NEW q \in Editors
                PROVE  /\ op'[q] = "checked" <=> pair'[q] # None
                       /\ op'[q] = "applying" <=> plan[q] # NoPlan
                       /\ DOMAIN plan[q] \subseteq Milestones
                       /\ \A m \in DOMAIN plan[q] : plan[q][m] \in 1..MaxDue
    BY <1>2 DEF PlanTypes, NoPlan
  <2>1. op'[q] = "applying" <=> op[q] = "applying"
    BY <1>3
  <2>. QED
    BY <1>3, <2>1 DEF PlanTypes
<1>. QED
  BY <1>1, <1>4, <1>5

(* The tables and what a request holds keep their types, for any number of  *)
(* editors, tasks and milestones; a proposal being applied has a date for   *)
(* each milestone it moves.                                                 *)
THEOREM ReplanTypes == Spec => []TypeOK
<1>1. TypeOK /\ [Next]_vars => TypeOK'
  <2>. SUFFICES ASSUME TypeOK, [Next]_vars PROVE TypeOK'
    OBVIOUS
  <2>1. CASE VisitNext \/ VisitUpstream \/ Leave \/ Propagate
    BY <2>1, SortKeepsTypes
  <2>2. ASSUME NEW r \in Editors, BeginReplan(r) PROVE TypeOK'
    BY <2>2, BeginKeepsTypes
  <2>3. ASSUME NEW r \in Editors, Select(r) PROVE TypeOK'
    BY <2>3, SelectKeepsTypes
  <2>4. ASSUME NEW r \in Editors, EndApply(r) PROVE TypeOK'
    BY <2>4, EndKeepsTypes
  <2>5. CASE UpdateMilestone \/ DayPasses
    BY <2>5, EditsKeepTypes
  <2>6. CASE ChangeDependencies
    BY <2>6, DependenciesKeepTypes
  <2>7. CASE UNCHANGED vars
    BY <2>7 DEF vars, depVars, rowVars, sortVars, TypeOK, Dues, NoPlan
  <2>. QED
    BY <2>1, <2>2, <2>3, <2>4, <2>5, <2>6, <2>7 DEF Next
<1>. QED
  BY <1>1, InitTypes, PTL DEF Spec

-----------------------------------------------------------------------------
(* The invariant.  The sort and the shifts leave the rows and so the graph  *)
(* of milestones alone.                                                     *)
LEMMA SameGraph ==
  ASSUME UNCHANGED <<depVars, rowVars>>
  PROVE  /\ UNCHANGED <<edges, home, due, done, today, op>>
         /\ \A m : /\ Upstream(m)' = Upstream(m) /\ Ancestors(m)' = Ancestors(m)
                   /\ OwnShift(m)' = OwnShift(m) /\ Latest(m)' = Latest(m)
         /\ MilestonesAcyclic' <=> MilestonesAcyclic
         /\ Computing' <=> Computing
         /\ NothingOverdue(due)' <=> NothingOverdue(due)
<1>1. UNCHANGED <<edges, home, due, done, today, op>>
  BY DEF depVars, rowVars
<1>2. \A m : Upstream(m)' = Upstream(m)
  BY <1>1 DEF Upstream
<1>3. \A m : Ancestors(m)' = Ancestors(m)
  BY <1>2 DEF Ancestors
<1>4. \A m : OwnShift(m)' = OwnShift(m)
  BY <1>1 DEF OwnShift, Overdue
<1>5. \A m : Latest(m)' = Latest(m)
  BY <1>3, <1>4 DEF Latest
<1>6. MilestonesAcyclic' <=> MilestonesAcyclic
  BY <1>2, <1>3 DEF MilestonesAcyclic
<1>7. (Computing' <=> Computing) /\ (NothingOverdue(due)' <=> NothingOverdue(due))
  BY <1>1 DEF Computing, NothingOverdue, Overdue
<1>. QED
  BY <1>1, <1>2, <1>3, <1>4, <1>5, <1>6, <1>7

(* What the invariant says beyond types, when nothing is being computed and *)
(* when that begins.                                                        *)
SortInv ==
    /\ AtRest /\ Covered /\ SortedFirst /\ StackDescends
    /\ UpstreamNotMissed /\ UpstreamFirst /\ ShiftsFarEnough /\ NothingMoves /\ ShiftsExactly

LEMMA EmptyIsSafe ==
  ASSUME stack = << >>, ordered = << >>, shift = NoShift, shifted = 0,
         todo = IF Computing THEN Milestones ELSE {}
  PROVE  SortInv
<1>1. Len(stack) = 0 /\ Len(ordered) = 0 /\ 1..0 = {} /\ ToSet(stack) = {} /\ ToSet(ordered) = {}
  BY DEF ToSet
<1>. QED
  BY <1>1 DEF SortInv, AtRest, Covered, SortedFirst, StackDescends, UpstreamNotMissed,
              UpstreamFirst, ShiftsFarEnough, NothingMoves, ShiftsExactly

LEMMA EmptyIsSafeNext ==
  ASSUME stack' = << >>, ordered' = << >>, shift' = NoShift, shifted' = 0,
         todo' = IF Computing' THEN Milestones ELSE {}
  PROVE  SortInv'
<1>1. Len(stack') = 0 /\ Len(ordered') = 0 /\ 1..0 = {} /\ ToSet(stack') = {} /\ ToSet(ordered') = {}
  BY DEF ToSet
<1>. QED
  BY <1>1 DEF SortInv, AtRest, Covered, SortedFirst, StackDescends, UpstreamNotMissed,
              UpstreamFirst, ShiftsFarEnough, NothingMoves, ShiftsExactly, NoShift

(* A milestone that appears on the stack, or among the sorted, is at one of *)
(* its places.                                                              *)
LEMMA InSequence ==
  ASSUME NEW S, NEW s \in Seq(S)
  PROVE  \A x : x \in ToSet(s) <=> \E i \in 1..Len(s) : s[i] = x
BY LenProperties DEF ToSet

LEMMA InAppended ==
  ASSUME NEW S, NEW s \in Seq(S), NEW x \in S
  PROVE  ToSet(Append(s, x)) = ToSet(s) \cup {x}
<1>1. Append(s, x) \in Seq(S) /\ Len(Append(s, x)) = Len(s) + 1 /\ Len(s) \in Nat
  BY AppendProperties, LenProperties
<1>2. \A i \in 1..Len(s) : Append(s, x)[i] = s[i]
  BY AppendProperties
<1>3. Append(s, x)[Len(s) + 1] = x
  BY AppendProperties
<1>4. \A y : y \in ToSet(Append(s, x)) <=> y \in ToSet(s) \cup {x}
  <2>. TAKE y
  <2>1. y \in ToSet(Append(s, x)) <=> \E i \in 1..(Len(s) + 1) : Append(s, x)[i] = y
    BY <1>1, InSequence
  <2>2. y \in ToSet(s) <=> \E i \in 1..Len(s) : s[i] = y
    BY InSequence
  <2>. QED
    BY <1>1, <1>2, <1>3, <2>1, <2>2
<1>. QED
  BY <1>4

(* What a visit begun for m, on top of the stack, keeps.                    *)
LEMMA EnterKeepsStack ==
  ASSUME TypeOK, StackDescends, NEW m \in Milestones, m \notin ToSet(stack),
         \A i \in 1..Len(stack) : m \in Ancestors(stack[i]),
         NEW l \in [Milestones -> SUBSET Milestones], \A n : l[n] \subseteq left[n],
         Enter(m, l), UNCHANGED <<depVars, rowVars>>
  PROVE  StackDescends'
<1>. USE TypesGiveRows, SameGraph
<1>1. stack \in Seq(Milestones) /\ Len(stack) \in Nat
  BY LenProperties DEF TypeOK
<1>2. /\ Len(stack') = Len(stack) + 1 /\ stack'[Len(stack) + 1] = m
      /\ \A i \in 1..Len(stack) : stack'[i] = stack[i]
  BY <1>1, AppendProperties DEF Enter
<1>3. \A i \in 1..Len(stack) : stack[i] # m
  BY <1>1, InSequence
<1>4. \A i \in 1..Len(stack) : stack[i] \in Milestones
  BY <1>1, ElementOfSeq
<1>5. left'[m] = Upstream(m) /\ \A n \in Milestones : n # m => left'[n] = l[n]
  BY DEF Enter
<1>6. \A i, j \in 1..Len(stack') : stack'[i] = stack'[j] => i = j
  BY <1>1, <1>2, <1>3 DEF StackDescends
<1>7. \A i \in 1..Len(stack') : left'[stack'[i]] \subseteq Upstream(stack'[i])
  <2>. SUFFICES ASSUME NEW i \in 1..Len(stack')
                PROVE  left'[stack'[i]] \subseteq Upstream(stack'[i])
    OBVIOUS
  <2>1. CASE i = Len(stack) + 1
    BY <1>2, <1>5, <2>1
  <2>2. CASE i \in 1..Len(stack)
    <3>1. left'[stack[i]] = l[stack[i]]
      BY <1>3, <1>4, <1>5, <2>2
    <3>2. left[stack[i]] \subseteq Upstream(stack[i])
      BY <2>2 DEF StackDescends
    <3>. QED
      BY <1>2, <2>2, <3>1, <3>2
  <2>. QED
    BY <1>1, <1>2, <2>1, <2>2
<1>8. \A i, j \in 1..Len(stack') : i <= j => stack'[j] \in Ancestors(stack'[i])
  <2>. SUFFICES ASSUME NEW i \in 1..Len(stack'), NEW j \in 1..Len(stack'), i <= j
                PROVE  stack'[j] \in Ancestors(stack'[i])
    OBVIOUS
  <2>1. CASE j \in 1..Len(stack)
    <3>1. i \in 1..Len(stack)
      BY <1>1, <2>1
    <3>. QED
      BY <1>2, <2>1, <3>1 DEF StackDescends
  <2>2. CASE j = Len(stack) + 1 /\ i \in 1..Len(stack)
    BY <1>2, <2>2
  <2>3. CASE j = Len(stack) + 1 /\ i = j
    BY <1>2, <2>3, AncestorsAreClosed
  <2>. QED
    BY <1>1, <1>2, <2>1, <2>2, <2>3
<1>9. \A i \in 1..Len(stack') : (left[stack[i]])' \subseteq Upstream(stack[i])'
  <2>1. edges' = edges /\ home' = home
    OBVIOUS
  <2>. QED
    BY <1>7, <2>1 DEF Upstream
<1>10. \A i, j \in 1..Len(stack') : i <= j => stack'[j] \in Ancestors(stack[i])'
  <2>1. \A n : Ancestors(n)' = Ancestors(n)
    OBVIOUS
  <2>. QED
    BY <1>8, <2>1
<1>. QED
  BY <1>6, <1>9, <1>10 DEF StackDescends

(* While it sorts, a request shifts nothing.                                *)
LEMMA SortShiftsNothing ==
  ASSUME TypeOK, SortInv, UNCHANGED <<depVars, rowVars, shift, shifted>>,
         todo # {} \/ stack # << >>
  PROVE  AtRest' /\ SortedFirst' /\ ShiftsFarEnough' /\ NothingMoves' /\ ShiftsExactly'
<1>. USE SameGraph
<1>1. Computing
  BY DEF SortInv, AtRest
<1>2. shifted = 0
  BY DEF SortInv, SortedFirst, TypeOK
<1>3. shifted' = 0 /\ 1..0 = {} /\ NoShift' = NoShift
  BY <1>2 DEF NoShift
<1>4. AtRest' /\ SortedFirst'
  BY <1>1, <1>3 DEF AtRest, SortedFirst
<1>5. ShiftsFarEnough' /\ ShiftsExactly'
  BY <1>3 DEF ShiftsFarEnough, ShiftsExactly
<1>6. NothingMoves'
  BY <1>3 DEF SortInv, NothingMoves
<1>. QED
  BY <1>4, <1>5, <1>6

(* Nor does a visit that goes on disturb what is sorted.                    *)
LEMMA SortedStays ==
  ASSUME UpstreamFirst, UNCHANGED <<depVars, rowVars, ordered>>
  PROVE  UpstreamFirst' /\ ToSet(ordered') = ToSet(ordered)
<1>1. /\ edges' = edges /\ home' = home /\ ordered' = ordered
      /\ MilestonesAcyclic' <=> MilestonesAcyclic
  BY SameGraph
<1>2. UpstreamFirst'
  BY <1>1 DEF UpstreamFirst, Upstream
<1>. QED
  BY <1>1, <1>2

LEMMA VisitNextIsSafe ==
  ASSUME TypeOK, SortInv, VisitNext
  PROVE  SortInv'
<1>. USE TypesGiveRows, SameGraph
<1>0. edges' = edges /\ home' = home /\ (MilestonesAcyclic' <=> MilestonesAcyclic)
  BY DEF VisitNext
<1>1. PICK m \in todo : /\ todo' = todo \ {m}
                        /\ \/ m \in ToSet(ordered) /\ UNCHANGED <<stack, left>>
                           \/ m \notin ToSet(ordered) /\ Enter(m, left)
  BY DEF VisitNext
<1>2. /\ stack = << >> /\ Computing
      /\ UNCHANGED <<depVars, rowVars, plan, ordered, shift, shifted>>
  BY DEF VisitNext
<1>3. AtRest' /\ SortedFirst' /\ ShiftsFarEnough' /\ NothingMoves' /\ ShiftsExactly'
  BY <1>1, <1>2, SortShiftsNothing
<1>4. Milestones = todo \cup ToSet(ordered)
  BY <1>2 DEF SortInv, Covered, ToSet
<1>5. Len(stack) = 0 /\ 1..0 = {} /\ m \in Milestones
  BY <1>1, <1>2, <1>4
<1>. UpstreamFirst' /\ ToSet(ordered') = ToSet(ordered)
  BY <1>2, SortedStays DEF SortInv
<1>6. CASE m \in ToSet(ordered) /\ UNCHANGED <<stack, left>>
  <2>1. Covered'
    BY <1>1, <1>2, <1>4, <1>6 DEF Covered, ToSet
  <2>2. StackDescends'
    BY <1>2, <1>5, <1>6 DEF StackDescends
  <2>3. UpstreamNotMissed'
    BY <1>2, <1>5, <1>6 DEF UpstreamNotMissed
  <2>. QED
    BY <1>3, <2>1, <2>2, <2>3 DEF SortInv
<1>7. CASE m \notin ToSet(ordered) /\ Enter(m, left)
  <2>1. stack' = <<m>> /\ left'[m] = Upstream(m)
    BY <1>2, <1>5, <1>7 DEF Enter, TypeOK
  <2>2. Covered'
    <3>1. ToSet(stack') = {m}
      BY <2>1 DEF ToSet
    <3>2. todo' = todo \ {m} /\ ToSet(ordered') = ToSet(ordered)
      BY <1>1, <1>2
    <3>. QED
      BY <1>1, <1>4, <3>1, <3>2 DEF Covered
  <2>3. StackDescends'
    <3>1. left \in [Milestones -> SUBSET Milestones] /\ m \notin ToSet(stack)
      BY <1>2 DEF TypeOK, ToSet
    <3>. QED
      BY <1>2, <1>5, <1>7, <3>1, EnterKeepsStack DEF SortInv
  <2>4. UpstreamNotMissed'
    <3>1. \A i \in 1..Len(stack') : stack'[i] = m
      BY <2>1
    <3>2. left'[m] = Upstream(m)
      BY <2>1
    <3>. QED
      BY <1>0, <3>1, <3>2 DEF UpstreamNotMissed, Upstream
  <2>. QED
    BY <1>3, <2>2, <2>3, <2>4 DEF SortInv
<1>. QED
  BY <1>1, <1>6, <1>7

LEMMA VisitUpstreamIsSafe ==
  ASSUME TypeOK, SortInv, VisitUpstream
  PROVE  SortInv'
<1>. USE TypesGiveRows, SameGraph
<1>0. edges' = edges /\ home' = home /\ (MilestonesAcyclic' <=> MilestonesAcyclic)
  BY DEF VisitUpstream
<1>. DEFINE top == Last(stack)
<1>u. PICK u \in left[top] : \E rest :
        /\ rest = [left EXCEPT ![top] = @ \ {u}]
        /\ \/ u \in ToSet(ordered) \cup ToSet(stack) /\ left' = rest /\ UNCHANGED stack
           \/ u \notin ToSet(ordered) \cup ToSet(stack) /\ Enter(u, rest)
  BY DEF VisitUpstream
<1>1. PICK rest :
        /\ rest = [left EXCEPT ![top] = @ \ {u}]
        /\ \/ u \in ToSet(ordered) \cup ToSet(stack) /\ left' = rest /\ UNCHANGED stack
           \/ u \notin ToSet(ordered) \cup ToSet(stack) /\ Enter(u, rest)
  BY <1>u
<1>2. /\ stack # << >>
      /\ UNCHANGED <<depVars, rowVars, plan, todo, ordered, shift, shifted>>
  BY DEF VisitUpstream
<1>3. AtRest' /\ SortedFirst' /\ ShiftsFarEnough' /\ NothingMoves' /\ ShiftsExactly'
  BY <1>2, SortShiftsNothing
<1>4. /\ Len(stack) \in Nat \ {0} /\ top = stack[Len(stack)] /\ top \in Milestones
      /\ stack \in Seq(Milestones) /\ left \in [Milestones -> SUBSET Milestones]
      /\ \A i \in 1..Len(stack) : stack[i] \in Milestones
  BY <1>2, LastAndFront, ElementOfSeq DEF TypeOK
<1>5. /\ u \in Upstream(top) /\ u \in Milestones
      /\ \A n \in Milestones : rest[n] \subseteq left[n]
      /\ \A n \in Milestones : n # top => rest[n] = left[n]
      /\ rest \in [Milestones -> SUBSET Milestones]
      /\ rest[top] = left[top] \ {u}
  BY <1>u, <1>1, <1>4 DEF SortInv, StackDescends
<1>6. \A i \in 1..Len(stack) : stack[i] = top => i = Len(stack)
  BY <1>4 DEF SortInv, StackDescends
<1>7. \A i \in 1..Len(stack) : u \in Ancestors(stack[i])
  <2>. TAKE i \in 1..Len(stack)
  <2>1. top \in Ancestors(stack[i])
    BY <1>4 DEF SortInv, StackDescends
  <2>. QED
    BY <1>4, <1>5, <2>1, AncestorsAreClosed
<1>. UpstreamFirst' /\ ToSet(ordered') = ToSet(ordered)
  BY <1>2, SortedStays DEF SortInv
<1>8. CASE u \in ToSet(ordered) \cup ToSet(stack) /\ left' = rest /\ UNCHANGED stack
  <2>1. Covered'
    BY <1>2, <1>8 DEF SortInv, Covered
  <2>2. StackDescends'
    BY <1>2, <1>4, <1>5, <1>8 DEF SortInv, StackDescends
  <2>3. ASSUME MilestonesAcyclic PROVE u \in ToSet(ordered)
    <3>. SUFFICES ASSUME u \in ToSet(stack) PROVE FALSE
      BY <1>8
    <3>1. PICK i \in 1..Len(stack) : stack[i] = u
      BY <1>4, InSequence
    <3>2. top \in Ancestors(u)
      BY <1>4, <3>1 DEF SortInv, StackDescends
    <3>. QED
      BY <1>4, <1>5, <2>3, <3>2 DEF MilestonesAcyclic
  <2>4. UpstreamNotMissed'
    <3>. SUFFICES ASSUME MilestonesAcyclic
                  PROVE  \A i \in 1..Len(stack) : \A v \in Upstream(stack[i]) :
                           \/ v \in rest[stack[i]] \/ v \in ToSet(ordered)
                           \/ i < Len(stack) /\ v = stack[i + 1]
      BY <1>0, <1>8 DEF UpstreamNotMissed, Upstream
    <3>. TAKE i \in 1..Len(stack)
    <3>. TAKE v \in Upstream(stack[i])
    <3>1. \/ v \in left[stack[i]] \/ v \in ToSet(ordered)
          \/ i < Len(stack) /\ v = stack[i + 1]
      BY DEF SortInv, UpstreamNotMissed
    <3>2. v \in left[stack[i]] => v \in rest[stack[i]] \/ v = u
      BY <1>4, <1>5
    <3>. QED
      BY <2>3, <3>1, <3>2
  <2>. QED
    BY <1>3, <2>1, <2>2, <2>4 DEF SortInv
<1>9. CASE u \notin ToSet(ordered) \cup ToSet(stack) /\ Enter(u, rest)
  <2>1. /\ Len(stack') = Len(stack) + 1 /\ stack'[Len(stack) + 1] = u
        /\ \A i \in 1..Len(stack) : stack'[i] = stack[i]
        /\ ToSet(stack') = ToSet(stack) \cup {u}
    BY <1>4, <1>5, <1>9, AppendProperties, InAppended DEF Enter
  <2>2. /\ left'[u] = Upstream(u)
        /\ \A n \in Milestones : n # u => left'[n] = rest[n]
    BY <1>5, <1>9 DEF Enter
  <2>3. Covered'
    <3>1. Milestones = todo \cup ToSet(ordered) \cup ToSet(stack)
      BY <1>2 DEF SortInv, AtRest, Covered
    <3>. QED
      BY <1>2, <1>5, <2>1, <3>1 DEF Covered
  <2>4. StackDescends'
    <3>1. \A n : rest[n] \subseteq left[n]
      BY <1>1, <1>4
    <3>. QED
      BY <1>2, <1>5, <1>7, <1>9, <3>1, EnterKeepsStack DEF SortInv
  <2>5. UpstreamNotMissed'
    <3>. SUFFICES ASSUME MilestonesAcyclic
                  PROVE  \A i \in 1..(Len(stack) + 1) : \A v \in Upstream(stack'[i]) :
                           \/ v \in left'[stack'[i]] \/ v \in ToSet(ordered)
                           \/ i < Len(stack) + 1 /\ v = stack'[i + 1]
      BY <1>0, <2>1 DEF UpstreamNotMissed, Upstream
    <3>. TAKE i \in 1..(Len(stack) + 1)
    <3>. TAKE v \in Upstream(stack'[i])
    <3>1. CASE i = Len(stack) + 1
      BY <2>1, <2>2, <3>1
    <3>2. CASE i \in 1..Len(stack)
      <4>1. stack'[i] = stack[i] /\ stack[i] # u
        BY <1>4, <1>9, <2>1, <3>2, InSequence
      <4>2. left'[stack[i]] = rest[stack[i]]
        BY <1>4, <2>2, <3>2, <4>1
      <4>3. \/ v \in left[stack[i]] \/ v \in ToSet(ordered)
            \/ i < Len(stack) /\ v = stack[i + 1]
        BY <3>2, <4>1 DEF SortInv, UpstreamNotMissed
      <4>4. CASE v \in left[stack[i]] /\ ~(v \in rest[stack[i]])
        <5>1. stack[i] = top /\ v = u
          BY <1>4, <1>5, <3>2, <4>4
        <5>2. i = Len(stack)
          BY <1>6, <3>2, <5>1
        <5>. QED
          BY <1>4, <2>1, <5>1, <5>2
      <4>5. CASE i < Len(stack) /\ v = stack[i + 1]
        <5>1. i + 1 \in 1..Len(stack)
          BY <1>4, <3>2, <4>5
        <5>2. stack'[i + 1] = v
          BY <2>1, <4>5, <5>1
        <5>. QED
          BY <1>4, <4>5, <5>2
      <4>. QED
        BY <4>1, <4>2, <4>3, <4>4, <4>5
    <3>. QED
      BY <1>4, <3>1, <3>2
  <2>. QED
    BY <1>3, <2>3, <2>4, <2>5 DEF SortInv
<1>. QED
  BY <1>1, <1>8, <1>9

LEMMA LeaveIsSafe ==
  ASSUME TypeOK, SortInv, Leave
  PROVE  SortInv'
<1>. USE TypesGiveRows, SameGraph
<1>. DEFINE top == Last(stack)
<1>1. /\ stack # << >> /\ left[top] = {}
      /\ stack' = Front(stack) /\ ordered' = Append(ordered, top)
      /\ UNCHANGED <<depVars, rowVars, plan, todo, left, shift, shifted>>
  BY DEF Leave
<1>2. AtRest' /\ SortedFirst' /\ ShiftsFarEnough' /\ NothingMoves' /\ ShiftsExactly'
  BY <1>1, SortShiftsNothing
<1>3. /\ Len(stack) \in Nat \ {0} /\ top = stack[Len(stack)] /\ top \in Milestones
      /\ stack \in Seq(Milestones) /\ ordered \in Seq(Milestones)
      /\ Len(stack') = Len(stack) - 1 /\ stack' \in Seq(Milestones)
      /\ \A i \in 1..(Len(stack) - 1) : stack'[i] = stack[i]
  <2>1. stack \in Seq(Milestones) /\ ordered \in Seq(Milestones)
    BY DEF TypeOK
  <2>2. /\ Len(stack) \in Nat \ {0} /\ Last(stack) = stack[Len(stack)] /\ Last(stack) \in Milestones
        /\ Front(stack) \in Seq(Milestones) /\ Len(Front(stack)) = Len(stack) - 1
        /\ \A i \in 1..(Len(stack) - 1) : Front(stack)[i] = stack[i]
    BY <1>1, <2>1, LastAndFront
  <2>. QED
    BY <1>1, <2>1, <2>2
<1>4. /\ Len(ordered) \in Nat /\ Len(ordered') = Len(ordered) + 1
      /\ \A i \in 1..Len(ordered) : ordered'[i] = ordered[i]
      /\ ordered'[Len(ordered) + 1] = top
      /\ ToSet(ordered') = ToSet(ordered) \cup {top}
  BY <1>1, <1>3, AppendProperties, LenProperties, InAppended
<1>5. /\ edges' = edges /\ home' = home /\ (MilestonesAcyclic' <=> MilestonesAcyclic)
      /\ \A m : Upstream(m)' = Upstream(m) /\ Ancestors(m)' = Ancestors(m)
      /\ Computing' <=> Computing
  BY <1>1
<1>6. Covered'
  <2>1. Milestones = todo \cup ToSet(ordered) \cup ToSet(stack)
    BY <1>1 DEF SortInv, AtRest, Covered
  <2>2. \A x \in ToSet(stack) : x = top \/ x \in ToSet(stack')
    <3>. TAKE x \in ToSet(stack)
    <3>1. PICK i \in 1..Len(stack) : stack[i] = x
      BY <1>3, InSequence
    <3>2. i # Len(stack) => i \in 1..Len(stack') /\ stack'[i] = x
      BY <1>3, <3>1
    <3>. QED
      BY <1>3, <3>1, <3>2, InSequence
  <2>3. ToSet(stack') \subseteq Milestones
    BY <1>3, InSequence, ElementOfSeq
  <2>4. ToSet(ordered') \subseteq Milestones
    BY <1>3, <1>4, <2>1
  <2>. QED
    BY <1>1, <1>4, <2>1, <2>2, <2>3, <2>4 DEF Covered
<1>7. StackDescends'
  <2>1. \A i \in 1..Len(stack') : i \in 1..Len(stack) /\ stack'[i] = stack[i]
    BY <1>3
  <2>2. \A i, j \in 1..Len(stack') : stack'[i] = stack'[j] => i = j
    BY <2>1 DEF SortInv, StackDescends
  <2>3. \A i \in 1..Len(stack') : left'[stack'[i]] \subseteq Upstream(stack'[i])
    BY <1>1, <2>1 DEF SortInv, StackDescends
  <2>4. \A i, j \in 1..Len(stack') : i <= j => stack'[j] \in Ancestors(stack'[i])
    BY <2>1 DEF SortInv, StackDescends
  <2>. QED
    BY <1>5, <2>2, <2>3, <2>4 DEF StackDescends
<1>8. UpstreamNotMissed'
  <2>. SUFFICES ASSUME MilestonesAcyclic
                PROVE  \A i \in 1..(Len(stack) - 1) : \A v \in Upstream(stack'[i]) :
                         \/ v \in left[stack'[i]] \/ v \in ToSet(ordered')
                         \/ i < Len(stack) - 1 /\ v = stack'[i + 1]
    BY <1>1, <1>3, <1>5 DEF UpstreamNotMissed, Upstream
  <2>. TAKE i \in 1..(Len(stack) - 1)
  <2>. TAKE v \in Upstream(stack'[i])
  <2>1. stack'[i] = stack[i] /\ i \in 1..Len(stack)
    BY <1>3
  <2>2. \/ v \in left[stack[i]] \/ v \in ToSet(ordered)
        \/ i < Len(stack) /\ v = stack[i + 1]
    BY <2>1 DEF SortInv, UpstreamNotMissed
  <2>3. CASE i = Len(stack) - 1 /\ v = stack[i + 1]
    BY <1>3, <1>4, <2>3
  <2>4. CASE i < Len(stack) - 1 /\ v = stack[i + 1]
    <3>1. stack'[i + 1] = stack[i + 1]
      BY <1>3, <2>4
    <3>. QED
      BY <2>4, <3>1
  <2>5. CASE v \in left[stack[i]] \/ v \in ToSet(ordered)
    BY <1>4, <2>1, <2>5
  <2>6. i = Len(stack) - 1 \/ i < Len(stack) - 1
    BY <1>3
  <2>. QED
    BY <2>2, <2>3, <2>4, <2>5, <2>6
<1>9. UpstreamFirst'
  <2>. SUFFICES ASSUME MilestonesAcyclic
                PROVE  \A i \in 1..(Len(ordered) + 1) : \A v \in Upstream(ordered'[i]) :
                         \E j \in 1..(i - 1) : ordered'[j] = v
    BY <1>4, <1>5 DEF UpstreamFirst, Upstream
  <2>. TAKE i \in 1..(Len(ordered) + 1)
  <2>. TAKE v \in Upstream(ordered'[i])
  <2>1. CASE i \in 1..Len(ordered)
    <3>1. PICK j \in 1..(i - 1) : ordered[j] = v
      BY <1>4, <2>1 DEF SortInv, UpstreamFirst
    <3>2. j \in 1..Len(ordered)
      BY <1>4, <2>1
    <3>. QED
      BY <1>4, <3>1, <3>2
  <2>2. CASE i = Len(ordered) + 1
    <3>1. v \in Upstream(stack[Len(stack)]) /\ Len(stack) \in 1..Len(stack)
      BY <1>3, <1>4, <2>2
    <3>2. v \in ToSet(ordered)
      <4>1. \/ v \in left[stack[Len(stack)]] \/ v \in ToSet(ordered)
            \/ Len(stack) < Len(stack)
        BY <3>1 DEF SortInv, UpstreamNotMissed
      <4>2. left[stack[Len(stack)]] = {}
        BY <1>1, <1>3
      <4>. QED
        BY <1>3, <4>1, <4>2
    <3>3. PICK j \in 1..Len(ordered) : ordered[j] = v
      BY <1>3, <3>2, InSequence
    <3>4. j \in 1..(i - 1)
      BY <1>4, <2>2
    <3>. QED
      BY <1>4, <3>3, <3>4
  <2>. QED
    BY <1>4, <2>1, <2>2
<1>. QED
  BY <1>2, <1>6, <1>7, <1>8, <1>9 DEF SortInv

LEMMA PropagateIsSafe ==
  ASSUME TypeOK, SortInv, Propagate
  PROVE  SortInv'
<1>. USE TypesGiveRows
<1>. DEFINE m == ordered[shifted + 1]
<1>1. /\ Computing /\ todo = {} /\ stack = << >> /\ shifted < Len(ordered)
      /\ shifted' = shifted + 1 /\ shift' = [shift EXCEPT ![m] = ShiftOf(m)]
      /\ UNCHANGED <<depVars, rowVars, plan, todo, stack, left, ordered>>
  BY DEF Propagate, Sorted
<1>2. /\ Len(ordered) \in Nat /\ shifted \in Nat /\ shifted + 1 \in 1..Len(ordered)
      /\ m \in Milestones /\ shift \in [Milestones -> Nat]
      /\ \A i \in 1..Len(ordered) : ordered[i] \in Milestones
  BY <1>1, LenProperties, ElementOfSeq DEF TypeOK
<1>3. /\ edges' = edges /\ home' = home /\ (MilestonesAcyclic' <=> MilestonesAcyclic)
      /\ Computing' <=> Computing
      /\ \A n : OwnShift(n)' = OwnShift(n) /\ Latest(n)' = Latest(n)
      /\ NothingOverdue(due)' <=> NothingOverdue(due)
  BY <1>1, SameGraph
<1>4. /\ shift'[m] = ShiftOf(m)
      /\ \A n \in Milestones : n # m => shift'[n] = shift[n]
  BY <1>1, <1>2
<1>5. \A i \in 1..(shifted + 1) : /\ i \in 1..Len(ordered)
                                  /\ ordered[i] = m \/ i \in 1..shifted
  BY <1>2
<1>6. AtRest' /\ SortedFirst'
  BY <1>1, <1>3 DEF AtRest, SortedFirst
<1>7. Covered'
  BY <1>1, <1>3 DEF SortInv, Covered, ToSet
<1>8. StackDescends' /\ UpstreamNotMissed'
  <2>1. Len(stack') = 0 /\ 1..0 = {}
    BY <1>1
  <2>. QED
    BY <2>1 DEF StackDescends, UpstreamNotMissed
<1>9. UpstreamFirst'
  BY <1>1, SortedStays DEF SortInv
<1>10. ShiftsFarEnough'
  <2>. SUFFICES ASSUME NEW i \in 1..(shifted + 1)
                PROVE  OwnShift(ordered[i]) <= shift'[ordered[i]]
    BY <1>1, <1>3 DEF ShiftsFarEnough, OwnShift, Overdue, rowVars
  <2>1. CASE ordered[i] = m
    BY <1>2, <1>4, <2>1, ShiftOfBounds
  <2>2. CASE ordered[i] # m
    BY <1>2, <1>4, <1>5, <2>2 DEF SortInv, ShiftsFarEnough
  <2>. QED
    BY <2>1, <2>2
<1>11. NothingMoves'
  <2>. SUFFICES ASSUME NothingOverdue(due) PROVE shift' = NoShift
    BY <1>3 DEF NothingMoves, NoShift
  <2>1. shift = NoShift /\ OwnShift(m) = 0
    BY <1>2 DEF SortInv, NothingMoves, NothingOverdue, OwnShift
  <2>2. \A u \in Upstream(m) : shift[u] = 0
    BY <2>1, UpstreamAreMilestones DEF NoShift
  <2>3. ShiftOf(m) = 0
    BY <1>2, <2>1, <2>2, ShiftOfBounds
  <2>. QED
    BY <1>1, <2>1, <2>3 DEF NoShift
<1>12. ShiftsExactly'
  <2>. SUFFICES ASSUME MilestonesAcyclic, NEW i \in 1..(shifted + 1)
                PROVE  shift'[ordered[i]] = Latest(ordered[i])
    BY <1>1, <1>3 DEF ShiftsExactly
  <2>1. CASE ordered[i] = m
    <3>1. \A u \in Upstream(m) : shift[u] = Latest(u)
      <4>. TAKE u \in Upstream(m)
      <4>1. PICK j \in 1..(shifted + 1 - 1) : ordered[j] = u
        BY <1>2 DEF SortInv, UpstreamFirst
      <4>2. j \in 1..shifted
        BY <1>2
      <4>. QED
        BY <4>1, <4>2 DEF SortInv, ShiftsExactly
    <3>. QED
      BY <1>2, <1>4, <2>1, <3>1, LatestByUpstream
  <2>2. CASE ordered[i] # m
    BY <1>2, <1>4, <1>5, <2>2 DEF SortInv, ShiftsExactly
  <2>. QED
    BY <2>1, <2>2
<1>. QED
  BY <1>6, <1>7, <1>8, <1>9, <1>10, <1>11, <1>12 DEF SortInv

(* Between two requests that compute, nothing is there to go wrong.         *)
LEMMA OthersAreSafe ==
  ASSUME TypeOK, OneComputes, SortInv,
         \/ \E r \in Editors : BeginReplan(r) \/ Select(r) \/ EndApply(r)
         \/ UpdateMilestone \/ DayPasses \/ ChangeDependencies
  PROVE  OneComputes' /\ SortInv'
<1>1. ASSUME NEW r \in Editors, BeginReplan(r) PROVE OneComputes' /\ SortInv'
  <2>1. op'[r] = "computing" /\ \A q \in Editors : q # r => op'[q] # "computing"
    BY <1>1 DEF BeginReplan, Computing, TypeOK
  <2>2. Computing'
    BY <2>1 DEF Computing
  <2>3. stack' = << >> /\ ordered' = << >> /\ shift' = NoShift /\ shifted' = 0 /\ todo' = Milestones
    BY <1>1 DEF BeginReplan, SortInv, AtRest
  <2>. QED
    BY <2>1, <2>2, <2>3, EmptyIsSafeNext DEF OneComputes
<1>2. ASSUME NEW r \in Editors, Select(r) PROVE OneComputes' /\ SortInv'
  <2>1. op'[r] # "computing" /\ \A q \in Editors : q # r => op'[q] = op[q]
    BY <1>2 DEF Select, TypeOK
  <2>2. ~Computing'
    BY <1>2, <2>1 DEF Computing, OneComputes, Select
  <2>3. stack' = << >> /\ ordered' = << >> /\ shift' = NoShift /\ shifted' = 0 /\ todo' = {}
    BY <1>2 DEF Select, Computed, Sorted
  <2>. QED
    BY <2>2, <2>3, EmptyIsSafeNext DEF OneComputes, Computing
<1>3. ASSUME ~Computing, ~Computing', UNCHANGED sortVars PROVE OneComputes' /\ SortInv'
  <2>1. stack' = << >> /\ ordered' = << >> /\ shift' = NoShift /\ shifted' = 0 /\ todo' = {}
    BY <1>3 DEF SortInv, AtRest, sortVars
  <2>. QED
    BY <1>3, <2>1, EmptyIsSafeNext DEF OneComputes, Computing
<1>4. ASSUME NEW r \in Editors, EndApply(r) PROVE OneComputes' /\ SortInv'
  <2>1. ~Computing' /\ ~Computing
    BY <1>4 DEF EndApply, Computing, TypeOK
  <2>. QED
    BY <1>3, <1>4, <2>1 DEF EndApply
<1>5. CASE UpdateMilestone \/ DayPasses
  <2>1. ~Computing' /\ ~Computing
    BY <1>5 DEF UpdateMilestone, DayPasses, Computing, depVars
  <2>. QED
    BY <1>3, <1>5, <2>1 DEF UpdateMilestone, DayPasses
<1>6. CASE ChangeDependencies
  <2>1. \A r \in Editors : op[r] # "computing"
    BY <1>6 DEF ChangeDependencies, Computing
  <2>2. \A r \in Editors : op'[r] # "computing"
    <3>1. ASSUME NEW r \in Editors, NEW o \in {"checked", "idle"},
                 op' = [op EXCEPT ![r] = o]
          PROVE  \A q \in Editors : op'[q] # "computing"
      BY <2>1, <3>1 DEF TypeOK
    <3>2. ASSUME op' = op PROVE \A q \in Editors : op'[q] # "computing"
      BY <2>1, <3>2
    <3>. QED
      BY <1>6, <3>1, <3>2 DEF ChangeDependencies, DependenciesNext, Request, CheckEdge,
                              AddEdge, AddFails, Done, DeleteEdge, DeleteTask
  <2>. QED
    BY <1>3, <1>6, <2>1, <2>2 DEF ChangeDependencies, Computing
<1>. QED
  BY <1>1, <1>2, <1>4, <1>5, <1>6

THEOREM ReplanInvariant == Spec => []ReplanInv
<1>1. Init => ReplanInv
  <2>. SUFFICES ASSUME Init PROVE ReplanInv
    OBVIOUS
  <2>1. \A r \in Editors : op[r] = "idle"
    BY DEF Init, DependenciesInit
  <2>2. ~Computing /\ OneComputes
    BY <2>1 DEF Computing, OneComputes
  <2>3. SortInv
    BY <2>2, EmptyIsSafe DEF Init
  <2>. QED
    BY <2>2, <2>3, InitTypes DEF ReplanInv, SortInv
<1>2. TypeOK /\ TypeOK' /\ ReplanInv /\ [Next]_vars => ReplanInv'
  <2>. SUFFICES ASSUME TypeOK, TypeOK', OneComputes, SortInv, [Next]_vars
                PROVE  OneComputes' /\ SortInv'
    BY DEF ReplanInv, SortInv
  <2>1. ASSUME UNCHANGED op PROVE OneComputes'
    BY <2>1 DEF OneComputes
  <2>2. CASE VisitNext
    BY <2>1, <2>2, VisitNextIsSafe DEF VisitNext, depVars
  <2>3. CASE VisitUpstream
    BY <2>1, <2>3, VisitUpstreamIsSafe DEF VisitUpstream, depVars
  <2>4. CASE Leave
    BY <2>1, <2>4, LeaveIsSafe DEF Leave, depVars
  <2>5. CASE Propagate
    BY <2>1, <2>5, PropagateIsSafe DEF Propagate, depVars
  <2>6. CASE \/ \E r \in Editors : BeginReplan(r) \/ Select(r) \/ EndApply(r)
             \/ UpdateMilestone \/ DayPasses \/ ChangeDependencies
    BY <2>6, OthersAreSafe
  <2>7. CASE UNCHANGED vars
    <3>1. UNCHANGED <<depVars, rowVars>> /\ UNCHANGED sortVars
      BY <2>7 DEF vars
    <3>2. /\ todo' = todo /\ stack' = stack /\ left' = left /\ ordered' = ordered
          /\ shift' = shift /\ shifted' = shifted /\ op' = op
      BY <3>1 DEF sortVars, depVars
    <3>3. /\ edges' = edges /\ home' = home /\ due' = due /\ NoShift' = NoShift
          /\ MilestonesAcyclic' <=> MilestonesAcyclic
          /\ Computing' <=> Computing
          /\ \A m : Ancestors(m)' = Ancestors(m)
          /\ \A m : OwnShift(m)' = OwnShift(m) /\ Latest(m)' = Latest(m)
          /\ NothingOverdue(due)' <=> NothingOverdue(due)
      BY <3>1, SameGraph DEF NoShift
    <3>4. AtRest' /\ Covered' /\ SortedFirst' /\ NothingMoves'
      BY <3>2, <3>3 DEF SortInv, AtRest, Covered, SortedFirst, NothingMoves, ToSet
    <3>5. StackDescends' /\ UpstreamNotMissed' /\ UpstreamFirst'
      <4>1. StackDescends'
        BY <3>2, <3>3 DEF SortInv, StackDescends, Upstream
      <4>2. UpstreamNotMissed' /\ UpstreamFirst'
        <5>1. UpstreamFirst' /\ ToSet(ordered') = ToSet(ordered)
          BY <3>1, <3>2, SortedStays DEF SortInv
        <5>2. UpstreamNotMissed'
          BY <3>2, <3>3 DEF SortInv, UpstreamNotMissed, Upstream
        <5>. QED
          BY <5>1, <5>2
      <4>. QED
        BY <4>1, <4>2
    <3>6. ShiftsFarEnough' /\ ShiftsExactly'
      BY <3>2, <3>3 DEF SortInv, ShiftsFarEnough, ShiftsExactly
    <3>. QED
      BY <2>1, <3>2, <3>4, <3>5, <3>6 DEF SortInv
  <2>. QED
    BY <2>2, <2>3, <2>4, <2>5, <2>6, <2>7 DEF Next
<1>. QED
  BY <1>1, <1>2, ReplanTypes, PTL DEF Spec

(* When a request has computed, every milestone is sorted and shifted.      *)
LEMMA AllShifted ==
  ASSUME TypeOK, SortInv, Computed
  PROVE  \A m \in Milestones : \E i \in 1..shifted : ordered[i] = m
<1>1. Milestones = ToSet(ordered) /\ shifted = Len(ordered)
  BY DEF SortInv, Covered, Computed, Sorted, ToSet
<1>. QED
  BY <1>1, InSequence DEF TypeOK

(* For any number of milestones, in whatever order the query returns them   *)
(* and whatever order their upstreams are visited in: without a cycle, a    *)
(* milestone shifts by the most that itself or anything it waits on must.   *)
THEOREM LatestBlockerDecides == Spec => []ShiftsWithLatestBlocker
<1>1. ReplanInv => ShiftsWithLatestBlocker
  <2>. SUFFICES ASSUME TypeOK, SortInv, Computed, MilestonesAcyclic
                PROVE  shift = [m \in Milestones |-> Latest(m)]
    BY DEF ReplanInv, SortInv, ShiftsWithLatestBlocker, Latest
  <2>1. \A m \in Milestones : shift[m] = Latest(m)
    BY AllShifted DEF SortInv, ShiftsExactly
  <2>. QED
    BY <2>1 DEF TypeOK
<1>. QED
  BY <1>1, ReplanInvariant, PTL

(* A proposal that is accepted as a whole leaves nothing late, and when     *)
(* nothing is late nothing is proposed; with cycles and without.            *)
THEOREM WholeProposalIsEnough == Spec => []WholeProposalSettles
<1>1. ReplanInv => WholeProposalSettles
  <2>. SUFFICES ASSUME TypeOK, SortInv, Computed
                PROVE  /\ NothingOverdue(After(due, Proposal))
                       /\ NothingOverdue(due) => Proposal = NoPlan
    BY DEF ReplanInv, SortInv, WholeProposalSettles
  <2>. USE TypesGiveRows
  <2>1. ASSUME NEW m \in Milestones PROVE ~Overdue(After(due, Proposal), m)
    <3>1. OwnShift(m) <= shift[m] /\ shift[m] \in Nat
      BY AllShifted DEF SortInv, ShiftsFarEnough, TypeOK
    <3>2. CASE m \in DOMAIN Proposal
      <4>1. /\ After(due, Proposal)[m] = due[m] + shift[m]
            /\ due[m] \in Nat /\ shift[m] \in Nat /\ today \in Nat
        BY <3>1, <3>2, ProposalTypes, ReplanAssumption DEF After, Rows
      <4>2. CASE Overdue(due, m)
        <5>1. OwnShift(m) = today + Buffer - due[m]
          BY <4>2 DEF OwnShift
        <5>. QED
          BY <3>1, <4>1, <5>1, ReplanAssumption DEF Overdue
      <4>3. CASE ~Overdue(due, m)
        <5>1. due[m] # NoDue
          BY <4>1, ReplanAssumption
        <5>. QED
          BY <4>1, <4>3, <5>1 DEF Overdue
      <4>. QED
        BY <4>2, <4>3
    <3>3. CASE m \notin DOMAIN Proposal
      <4>1. After(due, Proposal)[m] = due[m]
        BY <3>3 DEF After
      <4>2. due[m] = NoDue \/ shift[m] = 0
        BY <3>1, <3>3 DEF Proposal
      <4>3. due[m] = NoDue \/ ~Overdue(due, m)
        BY <3>1, <4>2, OwnShiftIsNat
      <4>. QED
        BY <4>1, <4>3 DEF Overdue
    <3>. QED
      BY <3>2, <3>3
  <2>2. ASSUME NothingOverdue(due) PROVE Proposal = NoPlan
    <3>1. {n \in Milestones : shift[n] > 0 /\ due[n] # NoDue} = {}
      BY <2>2 DEF SortInv, NothingMoves, NoShift
    <3>. QED
      BY <3>1 DEF Proposal, NoPlan
  <2>. QED
    BY <2>1, <2>2 DEF NothingOverdue
<1>. QED
  BY <1>1, ReplanInvariant, PTL

(* Re-planning, edits of milestones and days passing in between change      *)
(* nothing about that: it takes a race of two additions to close a cycle.   *)
THEOREM ReplanningClosesNoCycle == Spec => []OnlyRacesCloseCycles
<1>1. Init => RacesInv
  BY DEF Init, DependenciesInit, RacesInv, OnlyRacesCloseCycles, Acyclic, FreshIsSafe
<1>2. TypeOK /\ RacesInv /\ [Next]_vars => RacesInv'
  <2>. SUFFICES ASSUME TypeOK, RacesInv, [Next]_vars PROVE RacesInv'
    OBVIOUS
  <2>1. CASE [DependenciesNext]_depVars
    <3>1. EdgeShape
      BY DEF TypeOK, EdgeShape
    <3>. QED
      BY <2>1, <3>1, RacesStep
  <2>2. CASE UNCHANGED <<edges, pair, history>>
    BY <2>2, FewerIsSafe DEF history
  <2>3. ASSUME NEW r \in Editors, BeginReplan(r) \/ Select(r) \/ EndApply(r)
        PROVE  UNCHANGED <<edges, pair, history>>
    BY <2>3 DEF BeginReplan, Select, EndApply
  <2>4. CASE VisitNext \/ VisitUpstream \/ Leave \/ Propagate \/ UpdateMilestone \/ DayPasses
    BY <2>1, <2>4 DEF VisitNext, VisitUpstream, Leave, Propagate, UpdateMilestone, DayPasses
  <2>5. CASE ChangeDependencies
    BY <2>1, <2>5 DEF ChangeDependencies
  <2>6. CASE UNCHANGED vars
    BY <2>1, <2>6 DEF vars
  <2>. QED
    BY <2>2, <2>3, <2>4, <2>5, <2>6, <2>1 DEF Next
<1>3. RacesInv => OnlyRacesCloseCycles
  BY DEF RacesInv
<1>. QED
  BY <1>1, <1>2, <1>3, ReplanTypes, PTL DEF Spec
=============================================================================
