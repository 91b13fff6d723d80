---------------------------- MODULE BusinessProofs ---------------------------
(***************************************************************************)
(* Proofs about the business builder, for any number of requests at once   *)
(* and any number served.  What bounds the numbers is Done: a request      *)
(* raises a canvas's version by one and makes two records at most, when it *)
(* ends.                                                                   *)
(***************************************************************************)
EXTENDS Business, FiniteSetTheorems, TLAPS

(* Requests that are being served, and how many have ended.                 *)
Busy == {r \in Requests : txn[r] # Idle}
Done == served - Cardinality(Busy)

CanvasesSoFar == [blocks : BlockValues, version : 1..Done + 1]

Ops == {"idle", "get", "put", "axes", "fill_canvas", "filling", "create", "update", "delete",
        "fill_records", "drafting", "approve", "reject", "plan"} \cup SuggestionOps
Transaction(copy) ==
    [op : Ops, row : {"canvas", "map", None}, copy : {copy}, fresh : BOOLEAN,
     id : Nat, count : Nat, blocks : BlockValues]

(* Ended requests are counted.                                              *)
Counted ==
    /\ served \in 0..MaxServed
    /\ IsFiniteSet(Busy) /\ Done \in 0..MaxServed
    /\ txn = [r \in Requests |-> txn[r]]
    /\ landed = [r \in Requests |-> landed[r]]

(* The rows, the positions and versions within what ended requests can have *)
(* made of them.                                                            *)
RowsOK ==
    rows \in [canvas : CanvasesSoFar \cup {None}, map : Axes \cup {None}]

ShownOK == shown \subseteq CanvasesSoFar

RecordsOK ==
    /\ ids \in 0..2 * Done /\ DOMAIN recs \subseteq 1..ids
    /\ \A i \in DOMAIN recs : recs[i] \in RecordData

SuggestionsOK ==
    /\ suggestions \in Seq(Suggestions)
    /\ \A s \in 1..Len(suggestions) : suggestions[s].record <= ids

PlansOK ==
    /\ plans \in Seq(Plans)
    /\ \A p \in 1..Len(plans) : (plans[p].status = "complete") = (plans[p].document # None)

PublishedOK == published \subseteq {"canvas", "records", "suggested", "plan"}

(* What a request has loaded is of the table it is to write, a row that     *)
(* was there still is, and if it has counted a record the kind has been     *)
(* announced.                                                               *)
Holds(t) ==
    /\ t \in Transaction(t.copy)
    /\ t.row = "canvas" => t.copy \in CanvasesSoFar \cup {None}
    /\ t.row = "map" => t.copy \in Axes \cup {None}
    /\ t.fresh => t.row # None /\ t.copy # None
    /\ t.row # None /\ t.copy # None => t.fresh = (rows[t.row] = None)
    /\ t.op = "get" => t.row # None
    /\ t.op \in {"put", "fill_canvas", "filling", "canvas_update"} => t.row = "canvas"
    /\ t.op = "filling" => t.copy # None
    /\ t.op = "axes" => t.row = "map"
    /\ t.op \in {"create", "drafting", "approve"} =>
         t.count <= ids /\ (t.count # 0 => "records" \in published)
    /\ t.op \notin {"get", "put", "axes", "fill_canvas", "filling", "canvas_update", "approve"} =>
         t.row = None
    /\ t.op \in SuggestionOps => t.id <= ids
    /\ t.op \in {"approve", "reject"} => t.id \in 1..Len(suggestions)
    /\ t.op = "approve" =>
         t.row = IF suggestions[t.id].op = "canvas_update" THEN "canvas" ELSE None
    /\ t.op = "plan" => t.id \in 1..Len(plans) /\ t.copy \in Contexts

OneInserts ==
    \A q, r \in Requests : txn[q].fresh /\ txn[r].fresh /\ txn[q].row = txn[r].row => q = r

(* While a draft is on its way, what had landed when the model answered is  *)
(* what the request holds.                                                  *)
DraftsOnWhatLanded ==
    \A r \in Requests : txn[r].op = "filling" =>
      landed[r] = IF txn[r].fresh THEN empty_blocks ELSE txn[r].copy.blocks

BusinessInv ==
    /\ Counted /\ RowsOK /\ ShownOK /\ RecordsOK /\ SuggestionsOK /\ PlansOK /\ PublishedOK
    /\ \A r \in Requests : Holds(txn[r])
    /\ OneInserts /\ DraftsOnWhatLanded
    /\ KindAnnounced /\ ApprovedDeletionSticks

-----------------------------------------------------------------------------
(* A transaction that begins or goes on leaves the count of ended requests; *)
(* one that commits or is rolled back, and a job queued, add one.           *)
LEMMA BeginCounts ==
  ASSUME Counted, NEW r \in Requests, NEW t, t # Idle, Begin(r, t)
  PROVE  Counted' /\ Done' = Done /\ txn[r] = Idle
<1>1. Busy' = Busy \cup {r} /\ r \notin Busy
  BY DEF Counted, Begin, Busy
<1>2. IsFiniteSet(Busy') /\ Cardinality(Busy') = Cardinality(Busy) + 1 /\ Cardinality(Busy) \in Nat
  BY <1>1, FS_AddElement, FS_CardinalityType DEF Counted
<1>3. served \in 0..MaxServed /\ served < MaxServed /\ served' = served + 1
  BY DEF Counted, Begin
<1>4. Done' = Done
  BY <1>2, <1>3 DEF Done
<1>. QED
  BY <1>2, <1>3, <1>4, BusinessAssumption DEF Counted, Begin

(* A step of a transaction under way begins and ends none.                 *)
LEMMA StepCounts ==
  ASSUME Counted, NEW r \in Requests, NEW t, t # Idle, txn[r] # Idle, Step(r, t),
         landed' = [landed EXCEPT ![r] = landed'[r]]
  PROVE  Counted' /\ Done' = Done
<1>1. Busy' = Busy
  BY DEF Counted, Step, Busy
<1>2. Done' = Done
  BY <1>1 DEF Done, Step
<1>. QED
  BY <1>1, <1>2 DEF Counted, Step

(* One that commits or aborts is one more served and done.                  *)
LEMMA EndCounts ==
  ASSUME Counted, NEW r \in Requests, txn[r] # Idle, Commit(r) \/ Abort(r)
  PROVE  Counted' /\ Done' = Done + 1 /\ Done + 1 <= MaxServed
<1>1. Busy' = Busy \ {r} /\ r \in Busy
  BY DEF Counted, Commit, Abort, Busy
<1>2. IsFiniteSet(Busy') /\ Cardinality(Busy') = Cardinality(Busy) - 1 /\ Cardinality(Busy') \in Nat
  BY <1>1, FS_RemoveElement, FS_CardinalityType DEF Counted
<1>3. served' = served /\ served \in 0..MaxServed
  BY DEF Counted, Commit, Abort
<1>4. Cardinality(Busy) \in Nat
  BY FS_CardinalityType DEF Counted
<1>5. Done' = Done + 1 /\ Done + 1 <= MaxServed
  BY <1>2, <1>3, <1>4, BusinessAssumption DEF Done
<1>. QED
  BY <1>2, <1>3, <1>5, BusinessAssumption DEF Counted, Commit, Abort

(* So is one served in a single step.                                       *)
LEMMA QueueCounts ==
  ASSUME Counted, served < MaxServed, served' = served + 1, UNCHANGED <<txn, landed>>
  PROVE  Counted' /\ Done' = Done + 1
<1>1. Busy' = Busy
  BY DEF Busy
<1>2. Cardinality(Busy) \in Nat
  BY FS_CardinalityType DEF Counted
<1>3. Done' = Done + 1
  BY <1>1, <1>2 DEF Done, Counted
<1>. QED
  BY <1>1, <1>2, <1>3, BusinessAssumption DEF Counted, Done

-----------------------------------------------------------------------------
(* What a step never takes back.                                            *)
Grows ==
    /\ Done' >= Done /\ ids' >= ids /\ published \subseteq published'
    /\ Len(suggestions') >= Len(suggestions)
    /\ \A s \in 1..Len(suggestions) : suggestions'[s].op = suggestions[s].op
    /\ Len(plans') >= Len(plans)

(* What a request holds it goes on holding, while its row is neither        *)
(* inserted nor lost.                                                       *)
LEMMA HoldsOn ==
  ASSUME BusinessInv, Counted', RecordsOK', SuggestionsOK', PlansOK', Grows, NEW t, Holds(t),
         t.row \in {"canvas", "map"} /\ t.copy # None => (rows'[t.row] = None) = (rows[t.row] = None)
  PROVE  Holds(t)'
<1>1. CanvasesSoFar \subseteq CanvasesSoFar'
  BY DEF BusinessInv, Counted, Grows, CanvasesSoFar
<1>2. ids \in Nat /\ ids' >= ids /\ Len(suggestions) \in Nat /\ Len(plans) \in Nat /\ ids' \in Int
      /\ Len(suggestions') \in Int /\ Len(plans') \in Int
  BY DEF BusinessInv, Counted, RecordsOK, SuggestionsOK, PlansOK, Grows
<1>. QED
  BY <1>1, <1>2, NoneAssumption DEF Holds, Grows, Transaction

(* A step of one request keeps the invariant if it keeps the tables, what   *)
(* the request goes on with is held, and it inserts no row but its own.     *)
LEMMA StepKeeps ==
  ASSUME BusinessInv, Counted', Grows, NEW r \in Requests,
         RowsOK', RecordsOK', SuggestionsOK', PlansOK', PublishedOK',
         KindAnnounced', ApprovedDeletionSticks',
         shown' = shown \/ shown' = shown \cup ({rows'.canvas} \ {None}),
         \A x \in {"canvas", "map"} :
           (rows'[x] = None) # (rows[x] = None) => txn[r].fresh /\ txn[r].row = x,
         \A q \in Requests \ {r} : txn'[q] = txn[q] /\ landed'[q] = landed[q],
         Holds(txn[r])',
         txn'[r].fresh => \A q \in Requests \ {r} : ~(txn[q].fresh /\ txn[q].row = txn'[r].row),
         txn'[r].op = "filling" =>
           landed'[r] = IF txn'[r].fresh THEN empty_blocks ELSE txn'[r].copy.blocks
  PROVE  BusinessInv'
<1>1. \A q \in Requests \ {r} : Holds(txn[q])'
  <2> TAKE q \in Requests \ {r}
  <2>1. PICK t : t = txn[q]
    OBVIOUS
  <2>2. Holds(t) /\ t = txn'[q]
    BY <2>1 DEF BusinessInv
  <2>3. ASSUME t.row \in {"canvas", "map"}, t.copy # None
        PROVE  (rows'[t.row] = None) = (rows[t.row] = None)
    <3>1. CASE t.fresh
      BY <2>1, <2>3, <3>1 DEF BusinessInv, OneInserts, RowsOK
    <3>2. CASE ~t.fresh
      <4>1. rows[t.row] # None
        BY <2>2, <2>3, <3>2, NoneAssumption DEF Holds, Transaction
      <4>. QED
        BY <2>1, <2>3, <4>1 DEF BusinessInv, OneInserts, Holds, Transaction
    <3>. QED
      BY <3>1, <3>2
  <2>4. Holds(t)'
    BY <2>2, <2>3, HoldsOn
  <2>. QED
    BY <2>2, <2>4
<1>2. OneInserts'
  BY DEF OneInserts, BusinessInv
<1>3. DraftsOnWhatLanded'
  BY DEF DraftsOnWhatLanded, BusinessInv
<1>4. ShownOK'
  <2>1. CanvasesSoFar \subseteq CanvasesSoFar'
    BY DEF BusinessInv, Counted, Grows, CanvasesSoFar
  <2>. QED
    BY <2>1 DEF BusinessInv, RowsOK, ShownOK
<1>. QED
  BY <1>1, <1>2, <1>3, <1>4 DEF BusinessInv

(* A request begins with copies of rows as they are; nothing is written.    *)
LEMMA BeginKeeps ==
  ASSUME BusinessInv, NEW r \in Requests, NEW t, Begin(r, t),
         Holds(t), t.op # "idle", t.op # "filling", t.fresh = FALSE
  PROVE  BusinessInv'
<1>1. t # Idle
  BY DEF Idle
<1>2. Counted' /\ Done' = Done /\ txn[r] = Idle
  BY <1>1, BeginCounts DEF BusinessInv
<1>3. UNCHANGED <<tables, published, landed, shown>> /\ txn'[r] = t /\ \A q \in Requests \ {r} : txn'[q] = txn[q]
  BY DEF Begin, BusinessInv, Counted
<1>4. CanvasesSoFar' = CanvasesSoFar
  BY <1>2 DEF CanvasesSoFar
<1>5. RowsOK' /\ RecordsOK' /\ SuggestionsOK' /\ PlansOK' /\ PublishedOK'
  BY <1>2, <1>3, <1>4 DEF BusinessInv, RowsOK, RecordsOK, SuggestionsOK, PlansOK, PublishedOK, tables
<1>6. KindAnnounced' /\ ApprovedDeletionSticks'
  BY <1>3 DEF BusinessInv, KindAnnounced, overview, ApprovedDeletionSticks, tables
<1>7. Grows
  BY <1>2, <1>3 DEF BusinessInv, Counted, RecordsOK, SuggestionsOK, PlansOK, Grows, tables
<1>8. Holds(t)'
  BY <1>2, <1>3, <1>5, <1>7, HoldsOn DEF tables
<1>9. Holds(txn[r])'
  BY <1>3, <1>8
<1>. QED
  BY <1>2, <1>3, <1>5, <1>6, <1>7, <1>9, StepKeeps DEF tables

(* A request goes on: it has inserted a row, or the model has answered.     *)
LEMMA GoesOn ==
  ASSUME BusinessInv, NEW r \in Requests, NEW t, txn[r] # Idle, Step(r, t),
         landed' = [landed EXCEPT ![r] = landed'[r]],
         Holds(t), t.op # "idle",
         t.op = "filling" => landed'[r] = IF t.fresh THEN empty_blocks ELSE t.copy.blocks,
         t.fresh => \A q \in Requests \ {r} : ~(txn[q].fresh /\ txn[q].row = t.row)
  PROVE  BusinessInv'
<1>1. t # Idle
  BY DEF Idle
<1>2. Counted' /\ Done' = Done
  BY <1>1, StepCounts DEF BusinessInv
<1>3. /\ UNCHANGED <<tables, published, shown>> /\ txn'[r] = t
      /\ \A q \in Requests \ {r} : txn'[q] = txn[q] /\ landed'[q] = landed[q]
  BY DEF Step, BusinessInv, Counted
<1>4. CanvasesSoFar' = CanvasesSoFar
  BY <1>2 DEF CanvasesSoFar
<1>5. RowsOK' /\ RecordsOK' /\ SuggestionsOK' /\ PlansOK' /\ PublishedOK'
  BY <1>2, <1>3, <1>4 DEF BusinessInv, RowsOK, RecordsOK, SuggestionsOK, PlansOK, PublishedOK, tables
<1>6. KindAnnounced' /\ ApprovedDeletionSticks'
  BY <1>3 DEF BusinessInv, KindAnnounced, overview, ApprovedDeletionSticks, tables
<1>7. Grows
  BY <1>2, <1>3 DEF BusinessInv, Counted, RecordsOK, SuggestionsOK, PlansOK, Grows, tables
<1>8. Holds(t)'
  BY <1>2, <1>3, <1>5, <1>7, HoldsOn DEF tables
<1>9. Holds(txn[r])'
  BY <1>3, <1>8
<1>. QED
  BY <1>2, <1>3, <1>5, <1>6, <1>7, <1>9, StepKeeps DEF tables

(* A request that is not there holds nothing.                               *)
LEMMA IdleHolds == Holds(Idle) /\ Holds(Idle)'
BY NoneAssumption DEF Holds, Idle, Transaction, Ops, empty_blocks, BlockValues, Texts, SuggestionOps

(* A commit keeps the invariant if what it writes keeps the tables.         *)
LEMMA CommitKeeps ==
  ASSUME BusinessInv, NEW r \in Requests, txn[r] # Idle, Commit(r),
         Grows, RowsOK', RecordsOK', SuggestionsOK', PlansOK', PublishedOK',
         KindAnnounced', ApprovedDeletionSticks',
         \A x \in {"canvas", "map"} :
           (rows'[x] = None) # (rows[x] = None) => txn[r].fresh /\ txn[r].row = x
  PROVE  BusinessInv'
<1>1. Counted' /\ Done' = Done + 1
  BY EndCounts DEF BusinessInv
<1>2. /\ txn'[r] = Idle
      /\ \A q \in Requests \ {r} : txn'[q] = txn[q] /\ landed'[q] = landed[q]
  BY DEF Commit, BusinessInv, Counted
<1>3. Holds(txn[r])'
  BY <1>2, IdleHolds
<1>4. ~txn'[r].fresh /\ txn'[r].op # "filling"
  BY <1>2 DEF Idle
<1>. QED
  BY <1>1, <1>2, <1>3, <1>4, StepKeeps DEF Commit

(* With one more request ended, the tables are what they were and the       *)
(* bounds have only grown.                                                  *)
LEMMA TablesKept ==
  ASSUME BusinessInv, Done' = Done + 1 \/ Done' = Done, Done' <= MaxServed
  PROVE  /\ UNCHANGED rows => RowsOK'
         /\ UNCHANGED <<recs, ids>> => RecordsOK'
         /\ UNCHANGED <<suggestions, ids>> => SuggestionsOK'
         /\ UNCHANGED plans => PlansOK'
         /\ UNCHANGED published => PublishedOK'
         /\ UNCHANGED <<recs, published>> => KindAnnounced'
         /\ UNCHANGED <<recs, suggestions>> => ApprovedDeletionSticks'
         /\ CanvasesSoFar \subseteq CanvasesSoFar'
<1>1. CanvasesSoFar \subseteq CanvasesSoFar'
  BY DEF BusinessInv, Counted, CanvasesSoFar
<1>2. UNCHANGED rows => RowsOK'
  BY <1>1 DEF BusinessInv, RowsOK
<1>3. UNCHANGED <<recs, ids>> => RecordsOK'
  BY DEF BusinessInv, Counted, RecordsOK
<1>. QED
  BY <1>1, <1>2, <1>3
  DEF BusinessInv, SuggestionsOK, PlansOK, PublishedOK, KindAnnounced, overview, ApprovedDeletionSticks

-----------------------------------------------------------------------------
(* The transactions that load a row and nothing else.                       *)
LEMMA LoadsHold ==
  ASSUME BusinessInv, NEW t, t \in Transaction(t.copy), t.fresh = FALSE, NEW x \in {"canvas", "map"},
         t.op \in {"get", "put", "axes", "fill_canvas", "canvas_update", "approve"},
         t.op \in {"put", "fill_canvas", "canvas_update", "approve"} => x = "canvas",
         t.op = "axes" => x = "map",
         t.op = "approve" => t.count <= ids /\ (t.count # 0 => "records" \in published)
             /\ t.id \in 1..Len(suggestions) /\ suggestions[t.id].op = "canvas_update",
         t.op = "canvas_update" => t.id <= ids,
         NEW l, l = Loaded(t, x)
  PROVE  Holds(l) /\ l.op = t.op /\ l.fresh = FALSE
<1>1. /\ l \in Transaction(l.copy) /\ l.row = x /\ l.copy = rows[x] /\ l.fresh = FALSE
      /\ l.op = t.op /\ l.id = t.id /\ l.count = t.count
  BY DEF Loaded, Transaction
<1>2. rows \in [canvas : CanvasesSoFar \cup {None}, map : Axes \cup {None}]
  BY DEF BusinessInv, RowsOK
<1>. QED
  BY ZenonT(60), <1>1, <1>2, NoneAssumption DEF Holds, SuggestionOps

(* How many records there are: as many as were made at most, and none only  *)
(* if the kind is not announced.                                            *)
LEMMA CountFits ==
  ASSUME BusinessInv
  PROVE  ids \in Nat /\ count \in Nat /\ count <= ids /\ (count # 0 => "records" \in published)
<1>1. IsFiniteSet(1..ids) /\ Cardinality(1..ids) = ids /\ ids \in Nat
  <2>1. ids \in Nat
    BY BusinessAssumption DEF BusinessInv, RecordsOK, Counted
  <2>. QED
    BY <2>1, FS_Interval
<1>2. IsFiniteSet(DOMAIN recs) /\ Cardinality(DOMAIN recs) <= ids
  BY <1>1, FS_Subset DEF BusinessInv, RecordsOK
<1>3. Cardinality(DOMAIN recs) \in Nat
  BY <1>2, FS_CardinalityType
<1>4. count # 0 => DOMAIN recs # {}
  BY FS_EmptySet DEF count
<1>5. count \in 0..ids
  BY <1>1, <1>2, <1>3 DEF count
<1>6. DOMAIN recs # {} => "records" \in published
  BY DEF BusinessInv, KindAnnounced, overview
<1>. QED
  BY <1>1, <1>4, <1>5, <1>6

(* A transaction that holds no row.                                         *)
LEMMA RowlessHolds ==
  ASSUME BusinessInv, NEW t, t \in Transaction(t.copy), t.row = None, t.fresh = FALSE,
         t.op \notin {"get", "put", "axes", "fill_canvas", "filling", "canvas_update"},
         t.op \in {"create", "drafting", "approve"} =>
           t.count <= ids /\ (t.count # 0 => "records" \in published),
         t.op \in {"approve", "reject"} => t.id \in 1..Len(suggestions),
         t.op = "approve" => suggestions[t.id].op # "canvas_update",
         t.op \in SuggestionOps => t.id <= ids,
         t.op = "plan" => t.id \in 1..Len(plans) /\ t.copy \in Contexts
  PROVE  Holds(t)
BY NoneAssumption DEF Holds

(* The requests that begin with a row.                                      *)
LEMMA LoadingKeeps ==
  ASSUME BusinessInv, NEW r \in Requests,
         \/ get_canvas(r) \/ get_positioning_map(r) \/ put_canvas(r)
         \/ put_positioning_map(r) \/ handle_canvas_ai_fill(r)
  PROVE  BusinessInv'
<1>1. ASSUME NEW t, t \in Transaction(t.copy), t.fresh = FALSE, NEW x \in {"canvas", "map"},
             t.op \in {"get", "put", "axes", "fill_canvas"},
             t.op \in {"put", "fill_canvas"} => x = "canvas", t.op = "axes" => x = "map",
             Begin(r, Loaded(t, x))
      PROVE  BusinessInv'
  <2>1. PICK l : l = Loaded(t, x)
    OBVIOUS
  <2>2. Holds(l) /\ l.op = t.op /\ l.fresh = FALSE
    BY <1>1, <2>1, LoadsHold
  <2>3. Begin(r, l)
    BY <1>1, <2>1
  <2>. QED
    BY <1>1, <2>2, <2>3, BeginKeeps
<1>2. ASSUME NEW op \in {"get", "axes", "fill_canvas"}, NEW t, t = [Idle EXCEPT !.op = op]
      PROVE  t \in Transaction(t.copy) /\ t.fresh = FALSE /\ t.op = op
  <2>1. empty_blocks \in BlockValues
    BY DEF empty_blocks, BlockValues, Texts
  <2>. QED
    BY <1>2, <2>1 DEF Idle, Transaction, Ops
<1>3. CASE get_canvas(r)
  BY <1>1, <1>2, <1>3 DEF get_canvas
<1>4. CASE get_positioning_map(r)
  BY <1>1, <1>2, <1>4 DEF get_positioning_map
<1>5. CASE put_canvas(r)
  <2>1. PICK c \in shown, given \in Given :
          Begin(r, Loaded([Idle EXCEPT !.op = "put", !.count = c.version, !.blocks = given], "canvas"))
    BY <1>5 DEF put_canvas
  <2>2. given \in BlockValues /\ c.version \in Nat
    <3>1. given \in BlockValues
      BY DEF Given, BlockValues, Texts
    <3>2. c.version \in Nat
      BY DEF BusinessInv, Counted, ShownOK, CanvasesSoFar
    <3>. QED
      BY <3>1, <3>2
  <2>3. PICK t : t = [Idle EXCEPT !.op = "put", !.count = c.version, !.blocks = given]
    OBVIOUS
  <2>4. t \in Transaction(t.copy) /\ t.fresh = FALSE /\ t.op = "put"
    BY <2>2, <2>3 DEF Idle, Transaction, Ops
  <2>. QED
    BY <1>1, <2>1, <2>3, <2>4
<1>6. CASE put_positioning_map(r)
  BY <1>1, <1>2, <1>6 DEF put_positioning_map
<1>7. CASE handle_canvas_ai_fill(r)
  BY <1>1, <1>2, <1>7 DEF handle_canvas_ai_fill
<1>. QED
  BY <1>3, <1>4, <1>5, <1>6, <1>7

(* The requests and jobs that begin without one.                            *)
LEMMA BeginningKeeps ==
  ASSUME BusinessInv, NEW r \in Requests,
         \/ create_kind(r) \/ update_kind(r) \/ delete_kind(r) \/ reject_suggestion(r)
  PROVE  BusinessInv'
<1>0. empty_blocks \in BlockValues
  BY DEF empty_blocks, BlockValues, Texts
<1>1. CASE create_kind(r)
  <2>1. PICK t : t = [Idle EXCEPT !.op = "create", !.count = count]
    OBVIOUS
  <2>2. t \in Transaction(t.copy) /\ t.row = None /\ t.fresh = FALSE /\ t.op = "create" /\ t.count = count
    BY <1>0, <2>1, CountFits DEF Idle, Transaction, Ops
  <2>3. Holds(t)
    BY <2>2, CountFits, RowlessHolds DEF SuggestionOps
  <2>. QED
    BY <1>1, <2>1, <2>2, <2>3, BeginKeeps DEF create_kind
<1>2. ASSUME NEW op \in {"update", "delete"}, NEW i \in 1..ids, Begin(r, [Idle EXCEPT !.op = op, !.id = i])
      PROVE  BusinessInv'
  <2>1. PICK t : t = [Idle EXCEPT !.op = op, !.id = i]
    OBVIOUS
  <2>2. t \in Transaction(t.copy) /\ t.row = None /\ t.fresh = FALSE /\ t.op = op
    <3>1. i \in Nat
      BY CountFits
    <3>. QED
      BY <1>0, <2>1, <3>1 DEF Idle, Transaction, Ops
  <2>3. Holds(t)
    BY <2>2, RowlessHolds DEF SuggestionOps
  <2>. QED
    BY <1>2, <2>1, <2>2, <2>3, BeginKeeps
<1>3. CASE update_kind(r) \/ delete_kind(r)
  BY <1>2, <1>3 DEF update_kind, delete_kind
<1>4. CASE reject_suggestion(r)
  <2>1. PICK s \in DOMAIN suggestions : Begin(r, [Idle EXCEPT !.op = "reject", !.id = s])
    BY <1>4 DEF reject_suggestion
  <2>2. s \in 1..Len(suggestions) /\ s \in Nat
    BY DEF BusinessInv, SuggestionsOK
  <2>3. PICK t : t = [Idle EXCEPT !.op = "reject", !.id = s]
    OBVIOUS
  <2>4. t \in Transaction(t.copy) /\ t.row = None /\ t.fresh = FALSE /\ t.op = "reject" /\ t.id = s
    BY <1>0, <2>2, <2>3 DEF Idle, Transaction, Ops
  <2>5. Holds(t)
    BY <2>2, <2>4, RowlessHolds DEF SuggestionOps
  <2>. QED
    BY <2>1, <2>3, <2>4, <2>5, BeginKeeps
<1>. QED
  BY <1>1, <1>3, <1>4

(* A suggestion is made, or its approval begins: of a canvas with a copy of *)
(* it, of a record without.                                                 *)
LEMMA SuggestingKeeps ==
  ASSUME BusinessInv, NEW r \in Requests, create_suggestion(r) \/ approve_suggestion(r)
  PROVE  BusinessInv'
<1>0. empty_blocks \in BlockValues /\ 0 <= ids /\ ids \in Nat
  BY BusinessAssumption DEF empty_blocks, BlockValues, Texts, BusinessInv, RecordsOK, Counted
<1>1. ASSUME NEW t, t \in Transaction(t.copy), t.row = None, t.fresh = FALSE, t.id <= ids,
             t.op \in SuggestionOps,
             Begin(r, IF t.op = "canvas_update" THEN Loaded(t, "canvas") ELSE t)
      PROVE  BusinessInv'
  <2>1. PICK l : l = IF t.op = "canvas_update" THEN Loaded(t, "canvas") ELSE t
    OBVIOUS
  <2>2. Holds(l) /\ l.op = t.op /\ l.fresh = FALSE
    <3>1. CASE t.op = "canvas_update"
      BY <1>1, <2>1, <3>1, LoadsHold
    <3>2. CASE t.op # "canvas_update"
      BY <1>1, <2>1, <3>2, RowlessHolds DEF SuggestionOps
    <3>. QED
      BY <3>1, <3>2
  <2>3. Begin(r, l)
    BY <1>1, <2>1
  <2>. QED
    BY <1>1, <2>2, <2>3, BeginKeeps DEF SuggestionOps
<1>2. CASE create_suggestion(r)
  <2>1. PICK op \in SuggestionOps :
          \/ op = "canvas_update" /\ \E given \in Given :
               Begin(r, Loaded([Idle EXCEPT !.op = op, !.blocks = given], "canvas"))
          \/ op = "record_create" /\ Begin(r, [Idle EXCEPT !.op = op])
          \/ op \in {"record_update", "record_delete"} /\ \E i \in 1..ids :
               Begin(r, [Idle EXCEPT !.op = op, !.id = i])
    BY <1>2 DEF create_suggestion
  <2>2. CASE op = "canvas_update"
    <3>1. PICK given \in Given : Begin(r, Loaded([Idle EXCEPT !.op = op, !.blocks = given], "canvas"))
      BY <2>1, <2>2
    <3>2. PICK t : t = [Idle EXCEPT !.op = op, !.blocks = given]
      OBVIOUS
    <3>3. given \in BlockValues
      BY DEF Given, BlockValues, Texts
    <3>4. t \in Transaction(t.copy) /\ t.row = None /\ t.fresh = FALSE /\ t.op = op /\ t.id = 0
      BY <3>2, <3>3 DEF Idle, Transaction, Ops
    <3>. QED
      BY <1>0, <1>1, <2>2, <3>1, <3>2, <3>4
  <2>3. CASE op = "record_create"
    <3>1. PICK t : t = [Idle EXCEPT !.op = op]
      OBVIOUS
    <3>2. t \in Transaction(t.copy) /\ t.row = None /\ t.fresh = FALSE /\ t.op = op /\ t.id = 0
      BY <1>0, <3>1 DEF Idle, Transaction, Ops
    <3>. QED
      BY <1>0, <1>1, <2>1, <2>3, <3>1, <3>2
  <2>4. CASE op \in {"record_update", "record_delete"}
    <3>0. PICK i \in 1..ids : Begin(r, [Idle EXCEPT !.op = op, !.id = i])
      BY <2>1, <2>4
    <3>1. i \in Nat /\ i <= ids
      BY <1>0
    <3>2. PICK t : t = [Idle EXCEPT !.op = op, !.id = i]
      OBVIOUS
    <3>3. t \in Transaction(t.copy) /\ t.row = None /\ t.fresh = FALSE /\ t.op = op /\ t.id = i
      BY <1>0, <3>1, <3>2 DEF Idle, Transaction, Ops
    <3>. QED
      BY <1>1, <2>4, <3>0, <3>1, <3>2, <3>3
  <2>. QED
    BY <2>1, <2>2, <2>3, <2>4
<1>3. CASE approve_suggestion(r)
  <2>1. PICK s \in DOMAIN suggestions :
          LET t == [Idle EXCEPT !.op = "approve", !.id = s, !.count = count] IN
          Begin(r, IF suggestions[s].op = "canvas_update" THEN Loaded(t, "canvas") ELSE t)
    BY <1>3 DEF approve_suggestion
  <2>2. s \in 1..Len(suggestions) /\ s \in Nat
    BY DEF BusinessInv, SuggestionsOK
  <2>3. PICK t : t = [Idle EXCEPT !.op = "approve", !.id = s, !.count = count]
    OBVIOUS
  <2>4. /\ t \in Transaction(t.copy) /\ t.row = None /\ t.fresh = FALSE /\ t.op = "approve"
        /\ t.id = s /\ t.count = count
    BY <1>0, <2>2, <2>3, CountFits DEF Idle, Transaction, Ops
  <2>5. PICK l : l = IF suggestions[s].op = "canvas_update" THEN Loaded(t, "canvas") ELSE t
    OBVIOUS
  <2>6. Holds(l) /\ l.op = t.op /\ l.fresh = FALSE
    <3>1. CASE suggestions[s].op = "canvas_update"
      BY <1>0, <2>2, <2>4, <2>5, <3>1, CountFits, LoadsHold
    <3>2. CASE suggestions[s].op # "canvas_update"
      BY <1>0, <2>2, <2>4, <2>5, <3>2, CountFits, RowlessHolds DEF SuggestionOps
    <3>. QED
      BY <3>1, <3>2
  <2>7. Begin(r, l)
    BY <2>1, <2>3, <2>5
  <2>. QED
    BY <2>4, <2>6, <2>7, BeginKeeps
<1>. QED
  BY <1>2, <1>3

(* An insert finds a row, or makes one that no other request is making.     *)
LEMMA InsertKeeps ==
  ASSUME BusinessInv, NEW r \in Requests, Insert(r)
  PROVE  BusinessInv'
<1>. PICK o : o = txn[r]
  OBVIOUS
<1>1. /\ Holds(o) /\ o.row # None /\ o.copy = None /\ txn[r] # Idle /\ o.fresh = FALSE
      /\ o.row \in {"canvas", "map"} /\ o \in Transaction(o.copy)
  BY DEF BusinessInv, Insert, Idle, Holds, Transaction
<1>2. o.op # "filling" /\ o.op # "plan" /\ o.op # "idle"
  BY <1>1 DEF Holds
<1>3. rows \in [canvas : CanvasesSoFar \cup {None}, map : Axes \cup {None}]
  BY DEF BusinessInv, RowsOK
<1>4. landed' = [landed EXCEPT ![r] = landed'[r]]
  BY DEF Insert, BusinessInv, Counted
<1>5. CASE /\ rows[o.row] # None
           /\ Step(r, [o EXCEPT !.copy = rows[o.row]])
  <2>1. PICK t : t = [o EXCEPT !.copy = rows[o.row]]
    OBVIOUS
  <2>2. /\ t \in Transaction(t.copy) /\ t.row = o.row /\ t.op = o.op /\ t.fresh = FALSE
        /\ t.copy = rows[o.row] /\ t.id = o.id /\ t.count = o.count
    BY <1>1, <2>1 DEF Transaction
  <2>3. Holds(t)
    BY <1>1, <1>2, <1>3, <1>5, <2>2, NoneAssumption DEF Holds
  <2>. QED
    BY <1>1, <1>2, <1>4, <1>5, <2>1, <2>2, <2>3, GoesOn
<1>6. CASE /\ rows[o.row] = None
           /\ \A q \in Requests : ~(txn[q].fresh /\ txn[q].row = o.row)
           /\ Step(r, [o EXCEPT !.copy = NewRow[o.row], !.fresh = TRUE])
  <2>1. PICK t : t = [o EXCEPT !.copy = NewRow[o.row], !.fresh = TRUE]
    OBVIOUS
  <2>2. /\ t \in Transaction(t.copy) /\ t.row = o.row /\ t.op = o.op /\ t.fresh = TRUE
        /\ t.copy = NewRow[o.row] /\ t.id = o.id /\ t.count = o.count
    BY <1>1, <2>1 DEF Transaction
  <2>3. NewRow.canvas \in CanvasesSoFar /\ NewRow.map \in Axes
    BY DEF NewRow, CanvasesSoFar, Axes, empty_blocks, BlockValues, Texts, BusinessInv, Counted
  <2>4. NewRow[o.row] # None /\ (o.row = "canvas" => NewRow[o.row] \in CanvasesSoFar)
                             /\ (o.row = "map" => NewRow[o.row] \in Axes)
    <3>1. CanvasesSoFar \subseteq Canvases
      BY BusinessAssumption DEF CanvasesSoFar, Canvases, BusinessInv, Counted
    <3>. QED
      BY <1>1, <2>3, <3>1, NoneAssumption DEF NewRow
  <2>5. Holds(t)
    BY <1>1, <1>2, <1>6, <2>2, <2>4, NoneAssumption DEF Holds
  <2>6. Step(r, t) /\ \A q \in Requests \ {r} : ~(txn[q].fresh /\ txn[q].row = t.row)
    BY <1>6, <2>1, <2>2
  <2>. QED
    BY <1>1, <1>2, <1>4, <2>2, <2>5, <2>6, GoesOn
<1>. QED
  BY <1>5, <1>6 DEF Insert

(* The model has answered, and the canvas is read again.                    *)
LEMMA FillAnsweredKeeps ==
  ASSUME BusinessInv, NEW r \in Requests, FillAnswered(r)
  PROVE  BusinessInv'
<1>. PICK o : o = txn[r]
  OBVIOUS
<1>1. /\ Holds(o) /\ o.row = "canvas" /\ o.copy # None /\ txn[r] # Idle
      /\ o.op = "fill_canvas" /\ o \in Transaction(o.copy)
      /\ o.copy \in CanvasesSoFar /\ o.fresh = (rows.canvas = None)
  BY NoneAssumption DEF BusinessInv, FillAnswered, Ready, Idle, Holds
<1>2. rows.canvas \in CanvasesSoFar \cup {None}
  BY DEF BusinessInv, RowsOK
<1>3. PICK t : t = [refresh(o) EXCEPT !.op = "filling"]
  OBVIOUS
<1>4. /\ t \in Transaction(t.copy) /\ t.row = "canvas" /\ t.op = "filling" /\ t.fresh = o.fresh
      /\ t.copy = (IF o.fresh THEN o.copy ELSE rows.canvas)
  BY <1>1, <1>3 DEF Transaction, refresh, Ops
<1>5. Holds(t)
  BY <1>1, <1>2, <1>4, NoneAssumption DEF Holds, SuggestionOps
<1>6. landed' = [landed EXCEPT ![r] = landed'[r]] /\ landed'[r] = IF t.fresh THEN empty_blocks ELSE t.copy.blocks
  BY <1>4 DEF FillAnswered, BusinessInv, Counted
<1>7. t.fresh => \A q \in Requests \ {r} : ~(txn[q].fresh /\ txn[q].row = t.row)
  BY <1>1, <1>4 DEF BusinessInv, OneInserts
<1>8. Step(r, t)
  BY <1>3 DEF FillAnswered
<1>. QED
  BY <1>1, <1>4, <1>5, <1>6, <1>7, <1>8, GoesOn

(* The model has answered, and the records are counted again.               *)
LEMMA RecordsAnsweredKeeps ==
  ASSUME BusinessInv, NEW r \in Requests, RecordsAnswered(r)
  PROVE  BusinessInv'
<1>. PICK o : o = txn[r]
  OBVIOUS
<1>1. Holds(o) /\ o.op = "fill_records" /\ txn[r] # Idle /\ o \in Transaction(o.copy)
  BY DEF BusinessInv, RecordsAnswered, Idle, Holds
<1>2. PICK t : t = [o EXCEPT !.op = "drafting", !.count = count]
  OBVIOUS
<1>3. /\ t \in Transaction(t.copy) /\ t.row = o.row /\ t.copy = o.copy /\ t.fresh = o.fresh
      /\ t.op = "drafting" /\ t.count = count
  BY <1>1, <1>2, CountFits DEF Transaction, Ops
<1>4. Holds(t)
  BY <1>1, <1>3, CountFits DEF Holds, SuggestionOps
<1>5. t.fresh => \A q \in Requests \ {r} : ~(txn[q].fresh /\ txn[q].row = t.row)
  BY <1>3 DEF BusinessInv, OneInserts
<1>6. landed' = [landed EXCEPT ![r] = landed'[r]]
  BY DEF RecordsAnswered, BusinessInv, Counted
<1>7. Step(r, t)
  BY <1>2 DEF RecordsAnswered
<1>. QED
  BY <1>1, <1>3, <1>4, <1>5, <1>6, <1>7, GoesOn

(* A request that fails leaves the tables alone.                            *)
LEMMA AbortKeeps ==
  ASSUME BusinessInv, NEW r \in Requests, Abort(r)
  PROVE  BusinessInv'
<1>1. Counted' /\ Done' = Done + 1 /\ Done' <= MaxServed
  BY EndCounts DEF Abort, BusinessInv
<1>2. /\ UNCHANGED <<tables, published, shown>> /\ txn'[r] = Idle
      /\ \A q \in Requests \ {r} : txn'[q] = txn[q] /\ landed'[q] = landed[q]
  BY DEF Abort, BusinessInv, Counted
<1>3. RowsOK' /\ RecordsOK' /\ SuggestionsOK' /\ PlansOK' /\ PublishedOK' /\ KindAnnounced'
      /\ ApprovedDeletionSticks'
  BY <1>1, <1>2, TablesKept DEF tables
<1>4. Grows
  BY <1>1, <1>2 DEF BusinessInv, Counted, RecordsOK, SuggestionsOK, PlansOK, Grows, tables
<1>5. Holds(txn[r])' /\ txn'[r].fresh = FALSE /\ txn'[r].op # "filling"
  BY <1>2, IdleHolds DEF Idle
<1>. QED
  BY <1>1, <1>2, <1>3, <1>4, <1>5, StepKeeps DEF tables

(* Jobs are queued, a plan with its job, and a job is dropped that has      *)
(* nothing to do: no request goes on.                                       *)
LEMMA QueueKeeps ==
  ASSUME BusinessInv, NEW r \in Requests,
         UNCHANGED <<rows, recs, ids, suggestions, published, txn, shown, landed>>,
         \/ UNCHANGED <<plans, served>>
         \/ /\ served < MaxServed /\ served' = served + 1
            /\ plans' \in {plans, Append(plans, [status |-> "generating", document |-> None])}
  PROVE  BusinessInv'
<1>1. Counted' /\ (Done' = Done \/ Done' = Done + 1) /\ Done' <= MaxServed
  <2>1. CASE UNCHANGED <<plans, served>>
    BY <2>1, BusinessAssumption DEF BusinessInv, Counted, Busy, Done
  <2>2. CASE served < MaxServed /\ served' = served + 1
    BY <2>2, QueueCounts, BusinessAssumption DEF BusinessInv, Counted
  <2>. QED
    BY <2>1, <2>2
<1>2. PlansOK' /\ Len(plans') >= Len(plans)
  <2>1. CASE UNCHANGED plans
    BY <2>1 DEF BusinessInv, PlansOK
  <2>2. CASE plans' = Append(plans, [status |-> "generating", document |-> None])
    <3>1. [status |-> "generating", document |-> None] \in Plans
      BY DEF Plans
    <3>2. plans \in Seq(Plans)
      BY DEF BusinessInv, PlansOK
    <3>3. /\ plans' \in Seq(Plans) /\ Len(plans') = Len(plans) + 1
          /\ \A p \in 1..Len(plans) : plans'[p] = plans[p]
          /\ plans'[Len(plans) + 1] = [status |-> "generating", document |-> None]
      BY <2>2, <3>1, <3>2
    <3>. QED
      BY <3>2, <3>3 DEF BusinessInv, PlansOK
  <2>. QED
    BY <2>1, <2>2
<1>3. RowsOK' /\ RecordsOK' /\ SuggestionsOK' /\ PublishedOK' /\ KindAnnounced' /\ ApprovedDeletionSticks'
  BY <1>1, TablesKept
<1>4. Grows
  BY <1>1, <1>2 DEF BusinessInv, Counted, RecordsOK, SuggestionsOK, Grows
<1>5. Holds(txn[r])'
  <2>. PICK t : t = txn[r]
    OBVIOUS
  <2>1. Holds(t)'
    BY <1>1, <1>2, <1>3, <1>4, HoldsOn DEF BusinessInv
  <2>. QED
    BY <2>1
<1>6. /\ txn'[r].fresh => \A q \in Requests \ {r} : ~(txn[q].fresh /\ txn[q].row = txn'[r].row)
      /\ txn'[r].op = "filling" => landed'[r] = IF txn'[r].fresh THEN empty_blocks ELSE txn'[r].copy.blocks
  BY DEF BusinessInv, OneInserts, DraftsOnWhatLanded
<1>. QED
  BY <1>1, <1>2, <1>3, <1>4, <1>5, <1>6, StepKeeps

(* The jobs of records and of plans begin, or have nothing to do.           *)
LEMMA JobsKeep ==
  ASSUME BusinessInv, NEW r \in Requests,
         \/ ai_fill_canvas(r) \/ ai_fill_kind(r) \/ generate_plan(r)
         \/ handle_record_ai_fill(r) \/ handle_plan_generate(r)
  PROVE  BusinessInv'
<1>0. empty_blocks \in BlockValues
  BY DEF empty_blocks, BlockValues, Texts
<1>1. CASE ai_fill_canvas(r) \/ ai_fill_kind(r)
  BY <1>1, QueueKeeps DEF ai_fill_canvas, ai_fill_kind, Enqueue, tables
<1>2. CASE generate_plan(r)
  BY <1>2, QueueKeeps DEF generate_plan
<1>3. ASSUME NEW job, NoOp(r, job) PROVE BusinessInv'
  BY <1>3, QueueKeeps DEF NoOp, tables
<1>4. ASSUME NEW t, t \in Transaction(t.copy), t.row = None, t.fresh = FALSE,
             \/ t.op = "fill_records"
             \/ t.op = "plan" /\ t.id \in 1..Len(plans) /\ t.copy \in Contexts,
             Begin(r, t)
      PROVE  BusinessInv'
  <2>1. Holds(t)
    BY <1>4, RowlessHolds DEF SuggestionOps
  <2>. QED
    BY <1>4, <2>1, BeginKeeps
<1>5. CASE handle_record_ai_fill(r)
  <2>1. PICK t : t = [Idle EXCEPT !.op = "fill_records"]
    OBVIOUS
  <2>2. t \in Transaction(t.copy) /\ t.row = None /\ t.fresh = FALSE /\ t.op = "fill_records"
    BY <1>0, <2>1 DEF Idle, Transaction, Ops
  <2>. QED
    BY <1>3, <1>4, <1>5, <2>1, <2>2 DEF handle_record_ai_fill
<1>6. CASE handle_plan_generate(r)
  <2>1. PICK p \in DOMAIN plans :
          IF plans[p].status # "generating" THEN NoOp(r, <<"plan", p>>)
          ELSE Begin(r, [Idle EXCEPT !.op = "plan", !.id = p, !.copy = build_plan_context])
    BY <1>6 DEF handle_plan_generate
  <2>2. p \in 1..Len(plans) /\ p \in Nat
    BY DEF BusinessInv, PlansOK
  <2>3. build_plan_context \in Contexts
    BY BusinessAssumption DEF build_plan_context, Contexts, BusinessInv, RecordsOK, Counted
  <2>4. PICK t : t = [Idle EXCEPT !.op = "plan", !.id = p, !.copy = build_plan_context]
    OBVIOUS
  <2>5. /\ t \in Transaction(t.copy) /\ t.row = None /\ t.fresh = FALSE /\ t.op = "plan"
        /\ t.id = p /\ t.copy = build_plan_context
    BY <1>0, <2>2, <2>4 DEF Idle, Transaction, Ops
  <2>. QED
    BY <1>3, <1>4, <2>1, <2>2, <2>3, <2>4, <2>5
<1>. QED
  BY <1>1, <1>2, <1>5, <1>6

-----------------------------------------------------------------------------
(* A request that commits was there, and ends.                              *)
LEMMA Ending ==
  ASSUME BusinessInv, NEW r \in Requests, Commit(r), txn[r].op # "idle"
  PROVE  txn[r] # Idle /\ Done' = Done + 1 /\ Done' <= MaxServed /\ Done \in Nat
<1>1. txn[r] # Idle
  BY DEF Idle
<1>2. Done \in Nat
  BY BusinessAssumption DEF BusinessInv, Counted
<1>. QED
  BY <1>1, <1>2, EndCounts DEF BusinessInv

(* A table is written with a copy and a version more than it had: no        *)
(* version is more than the requests that have ended can have made, and     *)
(* what was not there before is what this request inserts.                  *)
LEMMA CanvasWritten ==
  ASSUME BusinessInv, NEW r \in Requests, NEW o, o = txn[r], o.row = "canvas", o.copy # None,
         NEW b \in BlockValues, Done' = Done + 1, Done' <= MaxServed,
         rows' = [rows EXCEPT !.canvas = [blocks |-> b, version |-> o.copy.version + 1]]
  PROVE  /\ RowsOK'
         /\ \A x \in {"canvas", "map"} :
              (rows'[x] = None) # (rows[x] = None) => txn[r].fresh /\ txn[r].row = x
<1>1. Holds(o) /\ o.copy \in CanvasesSoFar /\ o.fresh = (rows.canvas = None)
  BY NoneAssumption DEF BusinessInv, Holds
<1>2. rows \in [canvas : CanvasesSoFar \cup {None}, map : Axes \cup {None}] /\ Done \in Nat
  BY BusinessAssumption DEF BusinessInv, RowsOK, Counted
<1>3. o.copy.version \in 1..Done + 1
  BY <1>1 DEF CanvasesSoFar
<1>4. PICK c : c = [blocks |-> b, version |-> o.copy.version + 1]
  OBVIOUS
<1>5. c \in CanvasesSoFar'
  BY <1>2, <1>3, <1>4 DEF CanvasesSoFar
<1>6. c \in Canvases
  BY <1>2, <1>3, <1>4, BusinessAssumption DEF Canvases
<1>7. c # None
  BY <1>6, NoneAssumption
<1>8. rows'.canvas = c /\ rows'.map = rows.map
  BY <1>2, <1>4
<1>9. RowsOK'
  <2>1. CanvasesSoFar \subseteq CanvasesSoFar'
    BY TablesKept
  <2>2. rows' \in [canvas : CanvasesSoFar' \cup {None}, map : Axes \cup {None}]
    BY <1>2, <1>4, <1>5, <2>1
  <2>. QED
    BY <2>2 DEF RowsOK
<1>. QED
  BY <1>1, <1>7, <1>8, <1>9

(* A row that was only read is inserted if it is new.                       *)
LEMMA RowPersisted ==
  ASSUME BusinessInv, NEW r \in Requests, Done' = Done + 1, Done' <= MaxServed,
         rows' = Persisted(txn[r])
  PROVE  /\ RowsOK'
         /\ \A x \in {"canvas", "map"} :
              (rows'[x] = None) # (rows[x] = None) => txn[r].fresh /\ txn[r].row = x
<1>. PICK o : o = txn[r]
  OBVIOUS
<1>1. Holds(o) /\ o \in Transaction(o.copy)
  BY DEF BusinessInv, Holds
<1>2. rows \in [canvas : CanvasesSoFar \cup {None}, map : Axes \cup {None}] /\ RowsOK
  BY DEF BusinessInv, RowsOK
<1>3. CASE o.fresh = FALSE
  BY <1>3, TablesKept DEF Persisted
<1>4. CASE o.fresh = TRUE
  <2>1. /\ o.row \in {"canvas", "map"} /\ o.copy # None /\ rows[o.row] = None
        /\ o.row = "canvas" => o.copy \in CanvasesSoFar
        /\ o.row = "map" => o.copy \in Axes
    BY <1>1, <1>4 DEF Holds, Transaction
  <2>2. rows' = [rows EXCEPT ![o.row] = o.copy]
    BY <1>4 DEF Persisted
  <2>3. CanvasesSoFar \subseteq CanvasesSoFar'
    BY TablesKept
  <2>4. rows' \in [canvas : CanvasesSoFar' \cup {None}, map : Axes \cup {None}]
    <3>1. CASE o.row = "canvas"
      BY <1>2, <2>1, <2>2, <2>3, <3>1
    <3>2. CASE o.row = "map"
      BY <1>2, <2>1, <2>2, <2>3, <3>2
    <3>. QED
      BY <2>1, <3>1, <3>2
  <2>5. \A x \in {"canvas", "map"} : x # o.row => rows'[x] = rows[x]
    BY <1>2, <2>2
  <2>. QED
    BY <1>4, <2>4, <2>5 DEF RowsOK
<1>. QED
  BY <1>1, <1>3, <1>4 DEF Transaction

(* Saving a canvas: blocks left as the copy has them are not written.       *)
LEMMA SaveKeeps ==
  ASSUME BusinessInv, NEW r \in Requests, NEW o, o = txn[r], o.row = "canvas", o.copy # None,
         NEW blocks \in BlockValues, NEW expected, Done' = Done + 1, Done' <= MaxServed,
         save_canvas(o, blocks, expected)
  PROVE  /\ RowsOK' /\ PublishedOK' /\ published \subseteq published'
         /\ \A x \in {"canvas", "map"} :
              (rows'[x] = None) # (rows[x] = None) => txn[r].fresh /\ txn[r].row = x
<1>1. PICK b : b = IF ~o.fresh /\ blocks = o.copy.blocks THEN rows.canvas.blocks ELSE blocks
  OBVIOUS
<1>2. Holds(o) /\ o.fresh = (rows.canvas = None)
  BY NoneAssumption DEF BusinessInv, Holds
<1>3. rows.canvas \in CanvasesSoFar \cup {None}
  BY DEF BusinessInv, RowsOK
<1>4. b \in BlockValues
  BY <1>1, <1>2, <1>3 DEF CanvasesSoFar
<1>5. rows' = [rows EXCEPT !.canvas = [blocks |-> b, version |-> o.copy.version + 1]]
  BY <1>1 DEF save_canvas
<1>6. PublishedOK' /\ published \subseteq published'
  BY DEF save_canvas, BusinessInv, PublishedOK
<1>. QED
  BY <1>4, <1>5, <1>6, CanvasWritten

(* Canvases and maps are read, saved, edited and filled.                    *)
LEMMA CanvasCommits ==
  ASSUME BusinessInv, NEW r \in Requests,
         CommitGet(r) \/ CommitPut(r) \/ update_axes(r) \/ CommitFill(r)
  PROVE  BusinessInv'
<1>. PICK o : o = txn[r]
  OBVIOUS
<1>1. Commit(r) /\ UNCHANGED <<recs, ids, suggestions, plans>> /\ txn[r].op # "idle"
  BY DEF CommitGet, CommitPut, update_axes, CommitFill, Ready
<1>2. txn[r] # Idle /\ Done' = Done + 1 /\ Done' <= MaxServed
  BY <1>1, Ending
<1>3. Holds(o) /\ o \in Transaction(o.copy)
  BY DEF BusinessInv, Holds
<1>4. RecordsOK' /\ SuggestionsOK' /\ PlansOK' /\ ApprovedDeletionSticks'
  BY <1>1, <1>2, TablesKept
<1>5. /\ RowsOK' /\ PublishedOK' /\ published \subseteq published'
      /\ \A x \in {"canvas", "map"} :
           (rows'[x] = None) # (rows[x] = None) => txn[r].fresh /\ txn[r].row = x
  <2>1. CASE CommitGet(r)
    BY <1>2, <2>1, RowPersisted, TablesKept DEF CommitGet
  <2>2. CASE CommitPut(r)
    <3>1. o.row = "canvas" /\ o.copy # None /\ o.blocks \in BlockValues
      BY <1>3, <2>2, NoneAssumption DEF CommitPut, Ready, Holds, Transaction
    <3>2. save_canvas(o, o.blocks, o.count)
      BY <2>2 DEF CommitPut
    <3>. QED
      BY <1>2, <3>1, <3>2, SaveKeeps
  <2>3. CASE update_axes(r)
    <3>1. o.row = "map" /\ o.copy # None /\ o.fresh = (rows.map = None)
      BY <1>3, <2>3, NoneAssumption DEF update_axes, Ready, Holds
    <3>2. rows' = [rows EXCEPT !.map = "edited"] /\ published' = published
      BY <2>3 DEF update_axes
    <3>3. rows \in [canvas : CanvasesSoFar \cup {None}, map : Axes \cup {None}]
      BY DEF BusinessInv, RowsOK
    <3>4. CanvasesSoFar \subseteq CanvasesSoFar'
      BY <1>2, TablesKept
    <3>5. rows' \in [canvas : CanvasesSoFar' \cup {None}, map : Axes \cup {None}]
      BY <3>2, <3>3, <3>4 DEF Axes
    <3>6. rows'["canvas"] = rows["canvas"] /\ rows'["map"] # None
      BY <3>2, <3>3, NoneAssumption DEF Axes
    <3>. QED
      BY <1>2, <3>1, <3>2, <3>5, <3>6, TablesKept DEF RowsOK
  <2>4. CASE CommitFill(r)
    <3>1. o.row = "canvas" /\ o.copy # None /\ o.copy \in CanvasesSoFar /\ published' = published
      BY <1>3, <2>4, NoneAssumption DEF CommitFill, Ready, Holds
    <3>2. PICK some \in SUBSET {b \in Blocks : txn[r].copy.blocks[b] = ""} :
            rows' = IF some = {} THEN Persisted(txn[r])
                    ELSE [rows EXCEPT !.canvas =
                           [blocks |-> [b \in Blocks |-> IF b \in some THEN "ai" ELSE txn[r].copy.blocks[b]],
                            version |-> txn[r].copy.version + 1]]
      BY <2>4, Zenon DEF CommitFill
    <3>3. CASE some = {}
      BY <1>2, <3>1, <3>2, <3>3, RowPersisted, TablesKept
    <3>4. CASE some # {}
      <4>1. PICK v : v = [b \in Blocks |-> IF b \in some THEN "ai" ELSE o.copy.blocks[b]]
        OBVIOUS
      <4>2. v \in BlockValues
        BY <3>1, <4>1 DEF CanvasesSoFar, BlockValues, Texts
      <4>3. rows' = [rows EXCEPT !.canvas = [blocks |-> v, version |-> o.copy.version + 1]]
        BY <3>2, <3>4, <4>1
      <4>. QED
        BY <1>2, <3>1, <4>2, <4>3, CanvasWritten, TablesKept
    <3>. QED
      BY <3>3, <3>4
  <2>. QED
    BY <2>1, <2>2, <2>3, <2>4
<1>6. KindAnnounced'
  BY <1>1, <1>5 DEF BusinessInv, KindAnnounced, overview
<1>7. Grows
  BY <1>1, <1>2, <1>5 DEF BusinessInv, Counted, RecordsOK, SuggestionsOK, PlansOK, Grows
<1>. QED
  BY <1>1, <1>2, <1>4, <1>5, <1>6, <1>7, CommitKeeps

(* What the writes to the records keep: of the numbers given out so far     *)
(* none comes back, and a record is announced.                              *)
RecordsKept ==
    /\ RecordsOK' /\ PublishedOK' /\ KindAnnounced'
    /\ ids' >= ids /\ published \subseteq published'
    /\ \A i \in DOMAIN recs' : i <= ids => i \in DOMAIN recs

(* Records are made of what was counted when the request began.             *)
LEMMA CreateKeeps ==
  ASSUME BusinessInv, Done' = Done + 1, Done' <= MaxServed,
         NEW n \in Nat, n <= ids, n # 0 => "records" \in published,
         NEW data \in {"given", "ai"}, NEW howMany \in 0..2, create_record(n, data, howMany)
  PROVE  RecordsKept
<1>1. Done \in Nat /\ ids \in 0..2 * Done /\ DOMAIN recs \subseteq 1..ids /\ MaxServed \in Nat
  BY BusinessAssumption DEF BusinessInv, Counted, RecordsOK
<1>2. ids' = ids + howMany /\ DOMAIN recs' = DOMAIN recs \cup (ids + 1)..(ids + howMany)
  BY DEF create_record
<1>3. ids' \in 0..2 * Done' /\ DOMAIN recs' \subseteq 1..ids'
  BY <1>1, <1>2
<1>4. ASSUME NEW i \in DOMAIN recs' PROVE recs'[i] \in RecordData
  <2>1. CASE i \in DOMAIN recs
    <3>1. recs'[i] = recs[i]
      BY <1>4, <2>1 DEF create_record
    <3>. QED
      BY <2>1, <3>1 DEF BusinessInv, RecordsOK
  <2>2. CASE i \notin DOMAIN recs
    <3>1. recs'[i] = [position |-> n + i - ids - 1, data |-> data]
      BY <1>4, <2>2 DEF create_record
    <3>2. i \in (ids + 1)..(ids + howMany)
      BY <1>2, <1>4, <2>2
    <3>3. n + i - ids - 1 \in 0..2 * MaxServed
      BY <1>1, <3>2
    <3>. QED
      BY <3>1, <3>3 DEF RecordData
  <2>. QED
    BY <2>1, <2>2
<1>5. RecordsOK'
  BY <1>3, <1>4 DEF RecordsOK
<1>6. PublishedOK' /\ published \subseteq published'
  BY DEF create_record, BusinessInv, PublishedOK
<1>7. KindAnnounced'
  <2>1. DOMAIN recs' # {} => DOMAIN recs # {} \/ howMany > 0
    BY <1>1, <1>2
  <2>2. DOMAIN recs # {} => "records" \in published
    BY DEF BusinessInv, KindAnnounced, overview
  <2>3. DOMAIN recs' # {} => "records" \in published'
    BY <1>6, <2>1, <2>2 DEF create_record
  <2>. QED
    BY <2>3 DEF KindAnnounced, overview
<1>8. ids' >= ids /\ \A i \in DOMAIN recs' : i <= ids => i \in DOMAIN recs
  BY <1>1, <1>2
<1>. QED
  BY <1>5, <1>6, <1>7, <1>8 DEF RecordsKept

(* A record that is there is edited or deleted.                             *)
LEMMA EditKeeps ==
  ASSUME BusinessInv, Done' = Done + 1, Done' <= MaxServed, NEW id,
         update_record(id) \/ delete_record(id), UNCHANGED <<ids, published>>
  PROVE  RecordsKept /\ (delete_record(id) => id \notin DOMAIN recs')
<1>1. Done \in Nat /\ ids \in 0..2 * Done /\ DOMAIN recs \subseteq 1..ids
  BY BusinessAssumption DEF BusinessInv, Counted, RecordsOK
<1>2. DOMAIN recs' \subseteq DOMAIN recs
  BY DEF update_record, delete_record
<1>3. ASSUME NEW i \in DOMAIN recs' PROVE recs'[i] \in RecordData
  <2>1. recs[i] \in RecordData
    BY <1>2, <1>3 DEF BusinessInv, RecordsOK
  <2>2. CASE delete_record(id)
    BY <1>3, <2>1, <2>2 DEF delete_record
  <2>3. CASE update_record(id)
    <3>1. recs' = [recs EXCEPT ![id] = [recs[id] EXCEPT !.data = "edited"]] /\ id \in DOMAIN recs
      BY <2>3 DEF update_record
    <3>2. CASE i = id
      BY <1>3, <2>1, <3>1, <3>2 DEF RecordData
    <3>3. CASE i # id
      BY <1>3, <2>1, <3>1, <3>3
    <3>. QED
      BY <3>2, <3>3
  <2>. QED
    BY <2>2, <2>3
<1>4. RecordsOK'
  BY <1>1, <1>2, <1>3 DEF RecordsOK
<1>5. PublishedOK' /\ KindAnnounced'
  BY <1>2 DEF BusinessInv, PublishedOK, KindAnnounced, overview
<1>6. delete_record(id) => id \notin DOMAIN recs'
  BY DEF delete_record
<1>. QED
  BY <1>1, <1>2, <1>4, <1>5, <1>6 DEF RecordsKept

(* Where no number comes back, approved deletions stick.                    *)
LEMMA NothingReturns ==
  ASSUME BusinessInv, RecordsKept, UNCHANGED suggestions
  PROVE  ApprovedDeletionSticks'
<1>1. ASSUME NEW s \in DOMAIN suggestions' PROVE suggestions[s].record <= ids
  BY <1>1 DEF BusinessInv, SuggestionsOK
<1>. QED
  BY <1>1 DEF BusinessInv, RecordsKept, ApprovedDeletionSticks

(* Records are made, edited, deleted and drafted.                           *)
LEMMA RecordCommits ==
  ASSUME BusinessInv, NEW r \in Requests, CommitCreate(r) \/ CommitRecord(r) \/ CommitDrafts(r)
  PROVE  BusinessInv'
<1>. PICK o : o = txn[r]
  OBVIOUS
<1>1. Commit(r) /\ UNCHANGED <<rows, suggestions, plans>> /\ txn[r].op # "idle"
  BY DEF CommitCreate, CommitRecord, CommitDrafts
<1>2. txn[r] # Idle /\ Done' = Done + 1 /\ Done' <= MaxServed /\ Done \in Nat
  BY <1>1, Ending
<1>3. Holds(o) /\ o.count \in Nat
  BY DEF BusinessInv, Holds, Transaction
<1>4. RecordsKept
  <2>1. CASE CommitCreate(r)
    BY <1>2, <1>3, <2>1, CreateKeeps DEF CommitCreate, Holds
  <2>2. CASE CommitRecord(r)
    BY <1>2, <2>2, EditKeeps DEF CommitRecord
  <2>3. CASE CommitDrafts(r)
    BY <1>2, <1>3, <2>3, CreateKeeps DEF CommitDrafts, Holds
  <2>. QED
    BY <2>1, <2>2, <2>3
<1>5. RowsOK' /\ PlansOK'
  BY <1>1, <1>2, TablesKept
<1>6. SuggestionsOK'
  <2>1. ids \in Int /\ ids' \in Int /\ ids' >= ids
    BY <1>2, <1>4 DEF BusinessInv, RecordsKept, RecordsOK
  <2>2. ASSUME NEW s \in 1..Len(suggestions) PROVE suggestions[s].record \in Int /\ suggestions[s].record <= ids
    <3>1. suggestions[s] \in Suggestions /\ suggestions[s].record <= ids
      BY <2>2 DEF BusinessInv, SuggestionsOK
    <3>2. suggestions[s].record \in 0..2 * MaxServed
      BY <3>1 DEF Suggestions
    <3>. QED
      BY <3>1, <3>2, BusinessAssumption
  <2>. QED
    BY <1>1, <2>1, <2>2 DEF BusinessInv, SuggestionsOK
<1>7. ApprovedDeletionSticks'
  BY <1>1, <1>4, NothingReturns
<1>8. Grows
  BY <1>1, <1>2, <1>4 DEF BusinessInv, RecordsKept, SuggestionsOK, PlansOK, Grows
<1>. QED
  BY <1>1, <1>2, <1>4, <1>5, <1>6, <1>7, <1>8, CommitKeeps DEF RecordsKept

(* Suggestions are stored, decided and applied.                             *)
LEMMA SuggestionCommits ==
  ASSUME BusinessInv, NEW r \in Requests,
         CommitSuggestion(r) \/ CommitApprove(r) \/ CommitReject(r)
  PROVE  BusinessInv'
<1>. PICK o : o = txn[r]
  OBVIOUS
<1>1. Commit(r) /\ UNCHANGED plans /\ txn[r].op # "idle"
  BY DEF CommitSuggestion, CommitApprove, CommitReject, Ready, SuggestionOps
<1>2. txn[r] # Idle /\ Done' = Done + 1 /\ Done' <= MaxServed /\ Done \in Nat
  BY <1>1, Ending
<1>3. Holds(o) /\ o \in Transaction(o.copy)
  BY DEF BusinessInv, Holds
<1>4. /\ suggestions \in Seq(Suggestions) /\ ids \in 0..2 * Done /\ PlansOK' /\ PlansOK
      /\ \A s \in 1..Len(suggestions) : suggestions[s].record <= ids /\ suggestions[s].record \in Int
  <2>1. \A s \in 1..Len(suggestions) : suggestions[s] \in Suggestions
    BY DEF BusinessInv, SuggestionsOK
  <2>2. \A s \in 1..Len(suggestions) : suggestions[s].record \in 0..2 * MaxServed
    BY <2>1 DEF Suggestions
  <2>3. PlansOK' /\ PlansOK
    BY <1>1, <1>2, TablesKept DEF BusinessInv
  <2>. QED
    BY <2>2, <2>3, BusinessAssumption DEF BusinessInv, SuggestionsOK, RecordsOK
<1>5. CASE CommitSuggestion(r)
  <2>1. /\ o.op \in SuggestionOps /\ o.id \in Nat /\ o.id <= ids /\ o.blocks \in BlockValues
        /\ o.op = "canvas_update" => o.copy \in CanvasesSoFar
    BY <1>3, <1>5, NoneAssumption DEF CommitSuggestion, Ready, Holds, Transaction, SuggestionOps
  <2>2. PICK n : n = [op |-> o.op, status |-> "pending", record |-> o.id, blocks |-> o.blocks,
                      base |-> IF o.op = "canvas_update" THEN o.copy.version ELSE 0]
    OBVIOUS
  <2>3. n \in Suggestions /\ n.record = o.id /\ n.status = "pending"
    <3>1. (IF o.op = "canvas_update" THEN o.copy.version ELSE 0) \in 0..MaxServed + 1
      BY <1>2, <2>1, BusinessAssumption DEF CanvasesSoFar
    <3>2. o.id \in 0..2 * MaxServed
      BY <1>2, <1>4, <2>1, BusinessAssumption
    <3>. QED
      BY <2>1, <2>2, <3>1, <3>2 DEF Suggestions
  <2>4. /\ suggestions' = Append(suggestions, n) /\ rows' = Persisted(o)
        /\ published' = published \cup {"suggested"} /\ UNCHANGED <<recs, ids>>
    BY <1>5, <2>2 DEF CommitSuggestion
  <2>5. /\ suggestions' \in Seq(Suggestions) /\ Len(suggestions') = Len(suggestions) + 1
        /\ \A s \in 1..Len(suggestions) : suggestions'[s] = suggestions[s]
        /\ suggestions'[Len(suggestions) + 1] = n /\ Len(suggestions) \in Nat
        /\ DOMAIN suggestions' = 1..Len(suggestions) + 1 /\ DOMAIN suggestions = 1..Len(suggestions)
    BY <1>4, <2>3, <2>4
  <2>6. SuggestionsOK'
    BY <1>4, <2>1, <2>3, <2>4, <2>5 DEF SuggestionsOK
  <2>7. ApprovedDeletionSticks'
    BY <2>3, <2>4, <2>5 DEF BusinessInv, ApprovedDeletionSticks
  <2>8. RecordsOK' /\ PublishedOK' /\ KindAnnounced'
    BY <1>2, <2>4, TablesKept DEF BusinessInv, PublishedOK, KindAnnounced, overview
  <2>9. Grows
    BY <1>1, <1>2, <1>4, <2>4, <2>5 DEF Grows, PlansOK
  <2>. QED
    BY <1>1, <1>2, <1>4, <2>4, <2>6, <2>7, <2>8, <2>9, RowPersisted, CommitKeeps
<1>6. CASE CommitReject(r)
  <2>1. /\ o.id \in 1..Len(suggestions) /\ UNCHANGED <<rows, recs, ids, published>>
        /\ suggestions' = [suggestions EXCEPT ![o.id] = [suggestions[o.id] EXCEPT !.status = "rejected"]]
    BY <1>3, <1>6 DEF CommitReject, Holds
  <2>2. PICK n : n = [suggestions[o.id] EXCEPT !.status = "rejected"]
    OBVIOUS
  <2>3. suggestions[o.id] \in Suggestions
    BY <1>4, <2>1
  <2>4. /\ n \in Suggestions /\ n.op = suggestions[o.id].op /\ n.record = suggestions[o.id].record
        /\ n.status = "rejected"
    BY <2>2, <2>3 DEF Suggestions
  <2>5. /\ suggestions' \in Seq(Suggestions) /\ Len(suggestions') = Len(suggestions)
        /\ \A s \in 1..Len(suggestions) : s # o.id => suggestions'[s] = suggestions[s]
        /\ suggestions'[o.id] = n
        /\ DOMAIN suggestions' = 1..Len(suggestions) /\ DOMAIN suggestions = 1..Len(suggestions)
    BY <1>4, <2>1, <2>2, <2>4
  <2>6. SuggestionsOK'
    BY <1>4, <2>1, <2>4, <2>5 DEF SuggestionsOK
  <2>7. ApprovedDeletionSticks'
    BY <2>1, <2>4, <2>5 DEF BusinessInv, ApprovedDeletionSticks
  <2>8. RowsOK' /\ RecordsOK' /\ PublishedOK' /\ KindAnnounced'
    BY <1>2, <2>1, TablesKept
  <2>9. Grows
    BY <1>1, <1>2, <1>4, <2>1, <2>4, <2>5 DEF Grows, PlansOK
  <2>. QED
    BY <1>1, <1>2, <1>4, <2>1, <2>6, <2>7, <2>8, <2>9, CommitKeeps
<1>7. CASE CommitApprove(r)
  <2>1. /\ o.op = "approve" /\ o.id \in 1..Len(suggestions) /\ o.count \in Nat
        /\ _apply(suggestions[o.id], o)
        /\ suggestions' = [suggestions EXCEPT ![o.id] = [suggestions[o.id] EXCEPT !.status = "approved"]]
    BY <1>3, <1>7 DEF CommitApprove, Ready, Holds, Transaction
  <2>2. PICK n : n = [suggestions[o.id] EXCEPT !.status = "approved"]
    OBVIOUS
  <2>3. PICK s : s = suggestions[o.id]
    OBVIOUS
  <2>4. s \in Suggestions /\ s.record <= ids /\ s.record \in Int
    BY <1>4, <2>1, <2>3
  <2>5. n \in Suggestions /\ n.op = s.op /\ n.record = s.record
    BY <2>2, <2>3, <2>4 DEF Suggestions
  <2>6. /\ suggestions' \in Seq(Suggestions) /\ Len(suggestions') = Len(suggestions)
        /\ \A i \in 1..Len(suggestions) : i # o.id => suggestions'[i] = suggestions[i]
        /\ suggestions'[o.id] = n
        /\ DOMAIN suggestions' = 1..Len(suggestions) /\ DOMAIN suggestions = 1..Len(suggestions)
    BY SMTT(60), <1>4, <2>1, <2>2, <2>5
  <2>7. /\ RowsOK' /\ RecordsKept
        /\ \A x \in {"canvas", "map"} :
             (rows'[x] = None) # (rows[x] = None) => txn[r].fresh /\ txn[r].row = x
        /\ s.op = "record_delete" => s.record \notin DOMAIN recs'
    <3>1. CASE s.op = "canvas_update" /\ save_canvas(o, s.blocks, s.base) /\ UNCHANGED <<recs, ids>>
      <4>1. o.row = "canvas" /\ o.copy # None
        BY <1>3, <1>7, <2>1, <2>3, <3>1, NoneAssumption DEF CommitApprove, Ready, Holds
      <4>2. s.blocks \in BlockValues
        BY <2>4 DEF Suggestions
      <4>3. /\ RowsOK' /\ PublishedOK' /\ published \subseteq published'
            /\ \A x \in {"canvas", "map"} :
                 (rows'[x] = None) # (rows[x] = None) => txn[r].fresh /\ txn[r].row = x
        BY <1>2, <3>1, <4>1, <4>2, SaveKeeps
      <4>4. RecordsOK' /\ KindAnnounced'
        BY <1>2, <3>1, <4>3, TablesKept DEF BusinessInv, KindAnnounced, overview
      <4>. QED
        BY <1>4, <3>1, <4>3, <4>4 DEF RecordsKept
    <3>2. CASE s.op = "record_create" /\ create_record(o.count, "given", 1) /\ UNCHANGED rows
      BY <1>2, <1>3, <2>1, <3>2, CreateKeeps, TablesKept DEF Holds
    <3>3. CASE /\ \/ s.op = "record_update" /\ update_record(s.record)
                  \/ s.op = "record_delete" /\ delete_record(s.record)
               /\ UNCHANGED <<rows, ids, published>>
      BY <1>2, <3>3, EditKeeps, TablesKept
    <3>. QED
      BY <2>1, <2>3, <3>1, <3>2, <3>3 DEF _apply
  <2>8. ids' \in Int /\ ids' >= ids /\ ids \in Int
    BY <1>2, <1>4, <2>7 DEF RecordsKept, RecordsOK
  <2>9. SuggestionsOK'
    BY <1>4, <2>4, <2>5, <2>6, <2>8 DEF SuggestionsOK
  <2>10. ApprovedDeletionSticks'
    <3> SUFFICES ASSUME NEW i \in 1..Len(suggestions), suggestions'[i].op = "record_delete",
                        suggestions'[i].status = "approved"
                 PROVE  suggestions'[i].record \notin DOMAIN recs'
      BY <2>6 DEF ApprovedDeletionSticks
    <3>1. CASE i = o.id
      BY <2>5, <2>6, <2>7, <3>1
    <3>2. CASE i # o.id
      BY <1>4, <2>6, <2>7, <3>2 DEF BusinessInv, ApprovedDeletionSticks, RecordsKept
    <3>. QED
      BY <3>1, <3>2
  <2>11. Grows
    <3>1. \A i \in 1..Len(suggestions) : suggestions'[i].op = suggestions[i].op
      BY <2>3, <2>5, <2>6
    <3>2. Len(suggestions) \in Nat /\ Len(plans) \in Nat
      BY <1>4 DEF PlansOK
    <3>. QED
      BY <1>1, <1>2, <2>6, <2>7, <3>1, <3>2 DEF Grows, RecordsKept
  <2>. QED
    BY <1>1, <1>2, <1>4, <2>7, <2>9, <2>10, <2>11, CommitKeeps DEF RecordsKept
<1>. QED
  BY <1>5, <1>6, <1>7

(* A plan is stored with the document that was written for it.              *)
LEMMA PlanCommits ==
  ASSUME BusinessInv, NEW r \in Requests, CommitPlan(r)
  PROVE  BusinessInv'
<1>. PICK o : o = txn[r]
  OBVIOUS
<1>1. Commit(r) /\ UNCHANGED <<rows, recs, ids, suggestions>> /\ txn[r].op # "idle"
      /\ published' = published \cup {"plan"}
  BY DEF CommitPlan
<1>2. txn[r] # Idle /\ Done' = Done + 1 /\ Done' <= MaxServed /\ Done \in Nat
  BY <1>1, Ending
<1>3. o.id \in 1..Len(plans) /\ o.copy \in Contexts
  BY DEF BusinessInv, Holds, CommitPlan
<1>4. PICK n : n = [status |-> "complete", document |-> o.copy]
  OBVIOUS
<1>5. plans' = [plans EXCEPT ![o.id] = n] /\ plans \in Seq(Plans)
  BY <1>4 DEF CommitPlan, BusinessInv, PlansOK
<1>6. n \in Plans /\ n.status = "complete" /\ n.document # None
  BY <1>3, <1>4, NoneAssumption DEF Plans
<1>7. /\ plans' \in Seq(Plans) /\ Len(plans') = Len(plans) /\ plans'[o.id] = n /\ Len(plans) \in Nat
      /\ \A p \in 1..Len(plans) : p # o.id => plans'[p] = plans[p]
  BY <1>3, <1>5, <1>6
<1>8. PlansOK'
  BY <1>6, <1>7 DEF PlansOK, BusinessInv
<1>9. RowsOK' /\ RecordsOK' /\ SuggestionsOK' /\ ApprovedDeletionSticks'
  BY <1>1, <1>2, TablesKept
<1>10. PublishedOK' /\ KindAnnounced'
  BY <1>1 DEF BusinessInv, PublishedOK, KindAnnounced, overview
<1>11. Grows
  BY <1>1, <1>2, <1>7 DEF BusinessInv, RecordsOK, SuggestionsOK, Grows
<1>. QED
  BY <1>1, <1>2, <1>8, <1>9, <1>10, <1>11, CommitKeeps

-----------------------------------------------------------------------------
(* The invariant holds at the beginning, whether the canvas has been filled *)
(* in or nothing is there,                                                  *)
LEMMA BusinessBegins == Init => BusinessInv
<1>. SUFFICES ASSUME Init PROVE BusinessInv
  OBVIOUS
<1>1. Busy = {} /\ served = 0
  BY DEF Init, Busy
<1>2. IsFiniteSet(Busy) /\ Cardinality(Busy) = 0
  BY <1>1, FS_EmptySet
<1>3. Done = 0
  BY <1>1, <1>2 DEF Done
<1>4. Counted
  BY <1>1, <1>2, <1>3, BusinessAssumption DEF Init, Counted
<1>5. /\ rows.canvas \in CanvasesSoFar \cup {None} /\ rows.map \in Axes \cup {None}
      /\ RowsOK
  <2>1. CASE rows = [canvas |-> None, map |-> None]
    BY <2>1 DEF RowsOK
  <2>2. CASE rows = [NewRow EXCEPT !.canvas.blocks = [b \in Blocks |-> "user"]]
    <3>1. PICK v : v = [b \in Blocks |-> "user"]
      OBVIOUS
    <3>2. v \in BlockValues
      BY <3>1 DEF BlockValues, Texts
    <3>3. rows = [canvas |-> [blocks |-> v, version |-> 1], map |-> "default"]
      BY <2>2, <3>1 DEF NewRow
    <3>4. [blocks |-> v, version |-> 1] \in CanvasesSoFar
      BY <1>3, <3>2 DEF CanvasesSoFar
    <3>. QED
      BY <3>3, <3>4 DEF RowsOK, Axes
  <2>. QED
    BY <2>1, <2>2 DEF Init
<1>6. ShownOK
  BY <1>5 DEF Init, ShownOK
<1>7. RecordsOK /\ KindAnnounced
  <2>1. recs = << >> /\ ids = 0
    BY DEF Init
  <2>2. DOMAIN recs = {}
    BY <2>1
  <2>. QED
    <3>1. ids \in 0..2 * Done
      BY <1>3, <2>1
    <3>2. RecordsOK
      BY <2>2, <3>1 DEF RecordsOK
    <3>3. KindAnnounced
      BY <2>2 DEF KindAnnounced, overview
    <3>. QED
      BY <3>2, <3>3
<1>8. SuggestionsOK /\ PlansOK /\ PublishedOK /\ ApprovedDeletionSticks
  BY DEF Init, SuggestionsOK, PlansOK, PublishedOK, ApprovedDeletionSticks
<1>9. \A r \in Requests : txn[r] = Idle /\ txn[r].fresh = FALSE /\ txn[r].op = "idle"
  BY DEF Init, Idle
<1>10. \A r \in Requests : Holds(txn[r])
  BY <1>9, IdleHolds
<1>. QED
  BY <1>4, <1>5, <1>6, <1>7, <1>8, <1>9, <1>10 DEF BusinessInv, OneInserts, DraftsOnWhatLanded

(* and every step keeps it.                                                 *)
LEMMA BusinessKeeps == BusinessInv /\ [Next]_vars => BusinessInv'
<1>. SUFFICES ASSUME BusinessInv, [Next]_vars PROVE BusinessInv'
  OBVIOUS
<1>1. CASE UNCHANGED vars
  <2>1. Done' = Done /\ Busy' = Busy /\ CanvasesSoFar' = CanvasesSoFar
    BY <1>1 DEF vars, Busy, Done, CanvasesSoFar
  <2>2. Counted' /\ RowsOK' /\ ShownOK' /\ RecordsOK'
    BY <1>1, <2>1 DEF vars, tables, BusinessInv, Counted, RowsOK, ShownOK, RecordsOK
  <2>3. SuggestionsOK' /\ PlansOK' /\ PublishedOK' /\ OneInserts' /\ DraftsOnWhatLanded'
    BY <1>1 DEF vars, tables, BusinessInv, SuggestionsOK, PlansOK, PublishedOK, OneInserts, DraftsOnWhatLanded
  <2>4. KindAnnounced' /\ ApprovedDeletionSticks'
    BY <1>1 DEF vars, tables, BusinessInv, KindAnnounced, overview, ApprovedDeletionSticks
  <2>5. Grows
    BY <1>1, <2>1 DEF vars, tables, BusinessInv, Counted, RecordsOK, SuggestionsOK, PlansOK, Grows
  <2>6. ASSUME NEW r \in Requests PROVE Holds(txn[r])'
    <3>. PICK t : t = txn[r]
      OBVIOUS
    <3>1. Holds(t)'
      BY <1>1, <2>2, <2>3, <2>5, HoldsOn DEF vars, tables, BusinessInv
    <3>. QED
      BY <1>1, <3>1 DEF vars
  <2>. QED
    BY <2>2, <2>3, <2>4, <2>6 DEF BusinessInv
<1>2. ASSUME NEW r \in Requests, CanvasStep(r) PROVE BusinessInv'
  BY <1>2, LoadingKeeps, InsertKeeps, CanvasCommits, JobsKeep, FillAnsweredKeeps DEF CanvasStep
<1>3. ASSUME NEW r \in Requests, RecordStep(r) PROVE BusinessInv'
  BY <1>3, BeginningKeeps, RecordCommits, JobsKeep, RecordsAnsweredKeeps DEF RecordStep
<1>4. ASSUME NEW r \in Requests, SuggestionStep(r) PROVE BusinessInv'
  BY <1>4, SuggestingKeeps, SuggestionCommits, BeginningKeeps DEF SuggestionStep
<1>5. ASSUME NEW r \in Requests, PlanStep(r) PROVE BusinessInv'
  BY <1>5, JobsKeep, PlanCommits DEF PlanStep
<1>. QED
  BY <1>1, <1>2, <1>3, <1>4, <1>5, AbortKeeps DEF Next

(* The types, however many requests work on the canvas, the records, the    *)
(* suggestions and the plans at once: a row is inserted by one of them and  *)
(* a plan is complete with its document.                                    *)
THEOREM TypeCorrect == Spec => []TypeOK
<1>1. BusinessInv => TypeOK
  <2> SUFFICES ASSUME BusinessInv PROVE TypeOK
    OBVIOUS
  <2>1. rows.canvas \in Canvases \cup {None} /\ rows.map \in Axes \cup {None}
    BY BusinessAssumption DEF BusinessInv, Counted, RowsOK, CanvasesSoFar, Canvases
  <2>2. \A s \in DOMAIN suggestions : suggestions[s] \in Suggestions
    BY DEF BusinessInv, SuggestionsOK
  <2>3. \A p \in DOMAIN plans : plans[p] \in Plans
    BY DEF BusinessInv, PlansOK
  <2>4. get_plan # None => (get_plan.status = "complete") = (get_plan.document # None)
    BY DEF BusinessInv, PlansOK, get_plan
  <2>5. ASSUME NEW r \in Requests, txn[r].fresh
        PROVE  rows[txn[r].row] = None
    BY <2>5 DEF BusinessInv, Holds
  <2>. QED
    BY <2>1, <2>2, <2>3, <2>4, <2>5 DEF TypeOK, BusinessInv, RecordsOK, PublishedOK, OneInserts
<1>. QED
  BY <1>1, BusinessBegins, BusinessKeeps, PTL DEF Spec

(* A kind of records that the overview counts as complete has been          *)
(* announced, however creations, drafts and approvals race: who counts a    *)
(* record counts one that was announced.                                    *)
THEOREM CompleteKindsAnnounced == Spec => []KindAnnounced
<1>1. BusinessInv => KindAnnounced
  BY DEF BusinessInv
<1>. QED
  BY <1>1, BusinessBegins, BusinessKeeps, PTL DEF Spec

(* A record whose deletion was approved stays deleted, whatever edits and   *)
(* suggestions were under way: no number is given out again, and an edit    *)
(* writes only what is there.                                               *)
THEOREM DeletionsStick == Spec => []ApprovedDeletionSticks
<1>1. BusinessInv => ApprovedDeletionSticks
  BY DEF BusinessInv
<1>. QED
  BY <1>1, BusinessBegins, BusinessKeeps, PTL DEF Spec

(* A step of one request leaves the others where they are; while a draft is *)
(* on its way, the request ends with it or fails.                           *)
LEMMA OneMoves ==
  ASSUME BusinessInv, NEW q \in Requests,
         CanvasStep(q) \/ RecordStep(q) \/ SuggestionStep(q) \/ PlanStep(q) \/ Abort(q)
  PROVE  /\ \A r \in Requests : r # q => txn'[r] = txn[r]
         /\ txn[q].op = "filling" => CommitFill(q) \/ Abort(q)
<1>1. txn = [r \in Requests |-> txn[r]] /\ (txn[q].op = "filling" => txn[q] # Idle)
  BY DEF BusinessInv, Counted, Idle
<1>2. txn[q].op = "filling" => txn[q].row = "canvas" /\ txn[q].copy # None
  BY DEF BusinessInv, Holds
<1>3. CASE CanvasStep(q)
  <2>1. ASSUME NEW t, Begin(q, t) PROVE \A r \in Requests : r # q => txn'[r] = txn[r]
    BY <1>1, <2>1 DEF Begin
  <2>2. ASSUME NEW t, Step(q, t) PROVE \A r \in Requests : r # q => txn'[r] = txn[r]
    BY <1>1, <2>2 DEF Step
  <2>3. CASE get_canvas(q) \/ get_positioning_map(q) \/ put_canvas(q) \/ put_positioning_map(q)
             \/ handle_canvas_ai_fill(q)
    <3>1. PICK t : Begin(q, t)
      BY <2>3 DEF get_canvas, get_positioning_map, put_canvas, put_positioning_map, handle_canvas_ai_fill
    <3>. QED
      BY <1>1, <2>1, <3>1 DEF Begin
  <2>4. CASE Insert(q)
    BY <1>2, <2>2, <2>4 DEF Insert
  <2>5. CASE FillAnswered(q)
    BY <2>2, <2>5 DEF FillAnswered, Ready
  <2>6. CASE CommitGet(q) \/ CommitPut(q) \/ update_axes(q) \/ CommitFill(q)
    BY <1>1, <2>6 DEF CommitGet, CommitPut, update_axes, CommitFill, Ready, Commit
  <2>7. CASE ai_fill_canvas(q)
    BY <1>1, <2>7 DEF ai_fill_canvas, Enqueue
  <2>. QED
    BY <1>3, <2>3, <2>4, <2>5, <2>6, <2>7 DEF CanvasStep
<1>4. CASE RecordStep(q)
  <2>1. CASE create_kind(q) \/ update_kind(q) \/ delete_kind(q)
    <3>1. PICK t : Begin(q, t)
      BY <2>1 DEF create_kind, update_kind, delete_kind
    <3>. QED
      BY <1>1, <3>1 DEF Begin
  <2>2. CASE CommitCreate(q) \/ CommitRecord(q) \/ CommitDrafts(q)
    BY <1>1, <2>2 DEF CommitCreate, CommitRecord, CommitDrafts, Commit
  <2>3. CASE ai_fill_kind(q)
    BY <1>1, <2>3 DEF ai_fill_kind, Enqueue
  <2>4. CASE handle_record_ai_fill(q)
    BY <1>1, <2>4 DEF handle_record_ai_fill, NoOp, Begin
  <2>5. CASE RecordsAnswered(q)
    BY <1>1, <2>5 DEF RecordsAnswered, Step
  <2>. QED
    BY <1>4, <2>1, <2>2, <2>3, <2>4, <2>5 DEF RecordStep
<1>5. CASE SuggestionStep(q)
  <2>1. CASE create_suggestion(q) \/ approve_suggestion(q) \/ reject_suggestion(q)
    <3>1. PICK t : Begin(q, t)
      BY <2>1 DEF create_suggestion, approve_suggestion, reject_suggestion
    <3>. QED
      BY <1>1, <3>1 DEF Begin
  <2>2. CASE CommitSuggestion(q) \/ CommitApprove(q) \/ CommitReject(q)
    BY <1>1, <2>2 DEF CommitSuggestion, CommitApprove, CommitReject, Ready, Commit, SuggestionOps
  <2>. QED
    BY <1>5, <2>1, <2>2 DEF SuggestionStep
<1>6. CASE PlanStep(q)
  BY <1>1, <1>6 DEF PlanStep, generate_plan, handle_plan_generate, CommitPlan, NoOp, Begin, Commit
<1>7. CASE Abort(q)
  BY <1>1, <1>7 DEF Abort
<1>. QED
  BY <1>3, <1>4, <1>5, <1>6, <1>7

(* What had landed in the canvas when the model answered keeps its text in  *)
(* the draft: the handler reads the canvas again, and fills what is empty.  *)
THEOREM DraftsSpareEdits == Spec => EditsBehindModelSurvive
<1>1. ASSUME BusinessInv, [Next]_vars
      PROVE  [\A r \in Requests : txn[r].op = "filling" /\ txn'[r] # txn[r] =>
                \A b \in Blocks : landed[r][b] # "" =>
                  rows'.canvas.blocks[b] \in {landed[r][b], rows.canvas.blocks[b]}]_vars
  <2> SUFFICES ASSUME Next, NEW r \in Requests, txn[r].op = "filling", txn'[r] # txn[r],
                      NEW b \in Blocks, landed[r][b] # ""
               PROVE  rows'.canvas.blocks[b] \in {landed[r][b], rows.canvas.blocks[b]}
    BY <1>1
  <2>. PICK o : o = txn[r]
    OBVIOUS
  <2>1. o.op = "filling" /\ o.row = "canvas" /\ o.copy # None /\ o.copy \in CanvasesSoFar
        /\ o.fresh = FALSE /\ landed[r] = o.copy.blocks
    <3>1. Holds(o) /\ o \in Transaction(o.copy)
      BY <1>1 DEF BusinessInv, Holds
    <3>2. landed[r] = IF o.fresh THEN empty_blocks ELSE o.copy.blocks
      BY <1>1 DEF BusinessInv, DraftsOnWhatLanded
    <3>3. o.fresh \in BOOLEAN /\ (o.fresh = TRUE => FALSE)
      BY <3>1, <3>2 DEF empty_blocks, Transaction
    <3>4. o.fresh = FALSE /\ o.row = "canvas" /\ o.copy # None /\ o.copy \in CanvasesSoFar
      BY <3>1, <3>3 DEF Holds
    <3>. QED
      BY <3>2, <3>4
  <2>2. CASE CommitFill(r)
    <3>1. PICK some \in SUBSET {c \in Blocks : txn[r].copy.blocks[c] = ""} :
            rows' = IF some = {} THEN Persisted(txn[r])
                    ELSE [rows EXCEPT !.canvas =
                           [blocks |-> [c \in Blocks |-> IF c \in some THEN "ai" ELSE txn[r].copy.blocks[c]],
                            version |-> txn[r].copy.version + 1]]
      BY <2>2, Zenon DEF CommitFill
    <3>2. CASE some = {}
      BY <2>1, <3>1, <3>2 DEF Persisted
    <3>3. CASE some # {}
      <4>1. PICK v : v = [c \in Blocks |-> IF c \in some THEN "ai" ELSE o.copy.blocks[c]]
        OBVIOUS
      <4>2. rows \in [canvas : CanvasesSoFar \cup {None}, map : Axes \cup {None}]
        BY <1>1 DEF BusinessInv, RowsOK
      <4>3. rows'.canvas.blocks = v
        BY <3>1, <3>3, <4>1, <4>2
      <4>4. b \notin some
        BY <2>1, <3>1
      <4>. QED
        BY <2>1, <4>1, <4>3, <4>4
    <3>. QED
      BY <3>2, <3>3
  <2>3. CASE Abort(r)
    BY <2>3 DEF Abort, tables
  <2>4. CommitFill(r) \/ Abort(r)
    BY <1>1, <2>1, OneMoves DEF Next
  <2>. QED
    BY <2>2, <2>3, <2>4
<1>. QED
  BY <1>1, BusinessBegins, BusinessKeeps, PTL DEF Spec, EditsBehindModelSurvive
=============================================================================
