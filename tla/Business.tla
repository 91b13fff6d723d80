------------------------------ MODULE Business ------------------------------
(***************************************************************************)
(* The business builder (src/app/services/business, its endpoints and the  *)
(* worker's handlers): one canvas, the positioning map, the records of one *)
(* kind, suggestions and generated plans of one startup.  A request (or a  *)
(* worker's job) is a transaction: it loads copies, and what it writes is  *)
(* seen by others when it commits.  Rows are written by primary key, so a  *)
(* commit overwrites what was committed after its copies were loaded.      *)
(***************************************************************************)
EXTENDS Integers, Sequences, FiniteSets

CONSTANTS
    Requests,   \* requests and jobs served at the same time
    Blocks,     \* blocks of the canvas
    MaxServed,  \* bound: requests and jobs served in a behaviour
    None

ASSUME BusinessAssumption == IsFiniteSet(Blocks) /\ Blocks # {} /\ MaxServed \in Nat

VARIABLES
    rows,       \* the canvas and the map, None until first asked for
    recs,       \* id -> record, for the records that exist
    ids,        \* records created so far
    suggestions,
    plans,
    jobs,       \* jobs queued for the workers
    published,  \* events published by committed requests
    txn,        \* request -> its transaction
    served,
    shown,      \* canvases committed so far: what a client may have read
    landed      \* request -> the canvas committed when the model answered it

tables == <<rows, recs, ids, suggestions, plans>>
vars == <<tables, jobs, published, txn, served, shown, landed>>

Texts == {"", "user", "ai"}
BlockValues == [Blocks -> Texts]
Given == [Blocks -> {"", "user"}]   \* what a client sends counts as the user's
Canvases == [blocks : BlockValues, version : 1..MaxServed + 1]
Axes == {"default", "edited"}
RecordData == [position : 0..2 * MaxServed, data : {"given", "edited", "ai"}]

empty_blocks == [b \in Blocks |-> ""]
NewRow == [canvas |-> [blocks |-> empty_blocks, version |-> 1], map |-> "default"]

SuggestionOps == {"canvas_update", "record_create", "record_update", "record_delete"}
Suggestions ==
    [op : SuggestionOps, status : {"pending", "approved", "rejected"},
     record : 0..2 * MaxServed, blocks : BlockValues, base : 0..MaxServed + 1]
Contexts == [canvas : BOOLEAN, records : SUBSET (1..2 * MaxServed)]
Plans == [status : {"generating", "complete"}, document : Contexts \cup {None}]

(* None is no row, no copy of one and no table's name.                      *)
ASSUME NoneAssumption == None \notin Canvases \cup Axes \cup Contexts \cup {"canvas", "map"}

Idle == [op |-> "idle", row |-> None, copy |-> None, fresh |-> FALSE, id |-> 0,
         count |-> 0, blocks |-> empty_blocks]

Init ==
    /\ rows \in {[canvas |-> None, map |-> None],
                 [NewRow EXCEPT !.canvas.blocks = [b \in Blocks |-> "user"]]}
    /\ recs = << >> /\ ids = 0
    /\ suggestions = << >> /\ plans = << >>
    /\ jobs = {} /\ published = {}
    /\ txn = [r \in Requests |-> Idle] /\ served = 0
    /\ shown = {rows.canvas} \ {None}
    /\ landed = [r \in Requests |-> empty_blocks]

-----------------------------------------------------------------------------
(* completion: complete when every block is filled.                         *)
complete(blocks) == \A b \in Blocks : blocks[b] # ""

(* overview: a canvas is complete by its blocks, a kind by having a record. *)
overview ==
    [canvas |-> rows.canvas # None /\ complete(rows.canvas.blocks),
     records |-> DOMAIN recs # {}]

count == Cardinality(DOMAIN recs)

Begin(r, t) ==
    /\ txn[r] = Idle /\ served < MaxServed
    /\ served' = served + 1
    /\ txn' = [txn EXCEPT ![r] = t]
    /\ UNCHANGED <<tables, jobs, published, shown, landed>>

Step(r, t) ==
    /\ txn' = [txn EXCEPT ![r] = t]
    /\ UNCHANGED <<tables, jobs, published, served, shown>>

Commit(r) ==
    /\ txn' = [txn EXCEPT ![r] = Idle]
    /\ landed' = [landed EXCEPT ![r] = empty_blocks]
    /\ shown' = shown \cup ({rows'.canvas} \ {None})
    /\ UNCHANGED served

(* A 4xx, a crash or a failing model: the transaction is rolled back, and a *)
(* job stays queued.                                                        *)
Abort(r) ==
    /\ txn[r] # Idle
    /\ txn' = [txn EXCEPT ![r] = Idle]
    /\ landed' = [landed EXCEPT ![r] = empty_blocks]
    /\ UNCHANGED <<tables, jobs, published, served, shown>>

-----------------------------------------------------------------------------
(* get_or_create_canvas, get_or_create_map: select, and where there is no   *)
(* row insert one in a savepoint.  The insert waits for another's that is   *)
(* not committed, and meets the unique constraint when there is a row.      *)
Loaded(t, row) == [t EXCEPT !.row = row, !.copy = rows[row]]

Insert(r) ==
    /\ txn[r].row # None /\ txn[r].copy = None
    /\ \/ /\ rows[txn[r].row] # None
          /\ Step(r, [txn[r] EXCEPT !.copy = rows[txn[r].row]])
       \/ /\ rows[txn[r].row] = None
          /\ \A q \in Requests : ~(txn[q].fresh /\ txn[q].row = txn[r].row)
          /\ Step(r, [txn[r] EXCEPT !.copy = NewRow[txn[r].row], !.fresh = TRUE])
    /\ UNCHANGED landed

Ready(r, op) == txn[r].op = op /\ (txn[r].row # None => txn[r].copy # None)

Persisted(t) == IF t.fresh THEN [rows EXCEPT ![t.row] = t.copy] ELSE rows

(* save_canvas: the version given is compared with the copy's.              *)
save_canvas(t, blocks, expected) ==
    /\ expected = t.copy.version
    /\ rows' = [rows EXCEPT !.canvas = [version |-> t.copy.version + 1,
         blocks |-> IF ~t.fresh /\ blocks = t.copy.blocks THEN rows.canvas.blocks ELSE blocks]]
    /\ published' = published \cup
          IF complete(blocks) /\ ~complete(t.copy.blocks) THEN {"canvas"} ELSE {}

get_canvas(r) == Begin(r, Loaded([Idle EXCEPT !.op = "get"], "canvas"))
get_positioning_map(r) == Begin(r, Loaded([Idle EXCEPT !.op = "get"], "map"))

CommitGet(r) ==
    /\ Ready(r, "get")
    /\ rows' = Persisted(txn[r])
    /\ UNCHANGED <<recs, ids, suggestions, plans, jobs, published>>
    /\ Commit(r)

(* put_canvas: the client sends the version it read and its own blocks.     *)
put_canvas(r) ==
    \E c \in shown, given \in Given :
      Begin(r, Loaded([Idle EXCEPT !.op = "put", !.count = c.version, !.blocks = given], "canvas"))

CommitPut(r) ==
    /\ Ready(r, "put")
    /\ save_canvas(txn[r], txn[r].blocks, txn[r].count)
    /\ UNCHANGED <<recs, ids, suggestions, plans, jobs>>
    /\ Commit(r)

put_positioning_map(r) == Begin(r, Loaded([Idle EXCEPT !.op = "axes"], "map"))

update_axes(r) ==
    /\ Ready(r, "axes")
    /\ rows' = [rows EXCEPT !.map = "edited"]
    /\ UNCHANGED <<recs, ids, suggestions, plans, jobs, published>>
    /\ Commit(r)

-----------------------------------------------------------------------------
(* Jobs: queued with the request that asks for them, run until they commit. *)
Enqueue(r, job) ==
    /\ txn[r] = Idle /\ served < MaxServed
    /\ served' = served + 1
    /\ jobs' = jobs \cup {job}
    /\ UNCHANGED <<tables, published, txn, shown, landed>>

ai_fill_canvas(r) == Enqueue(r, <<"fill_canvas", 0>>)
ai_fill_kind(r) == Enqueue(r, <<"fill_records", 0>>)

JobDone(job) == jobs' = jobs \ {job}
NoOp(r, job) ==
    /\ txn[r] = Idle /\ job \in jobs /\ JobDone(job)
    /\ UNCHANGED <<tables, published, txn, served, shown, landed>>

handle_canvas_ai_fill(r) ==
    /\ <<"fill_canvas", 0>> \in jobs
    /\ Begin(r, Loaded([Idle EXCEPT !.op = "fill_canvas"], "canvas"))

(* Mutant of refresh: the copy loaded before the model was asked.           *)
stale(t) == t

(* The model answers, and the handler reads the canvas again.               *)
refresh(t) == IF t.fresh THEN t ELSE [t EXCEPT !.copy = rows.canvas]

FillAnswered(r) ==
    /\ Ready(r, "fill_canvas") /\ ~complete(txn[r].copy.blocks)
    /\ Step(r, [refresh(txn[r]) EXCEPT !.op = "filling"])
    /\ landed' = [landed EXCEPT ![r] = IF txn[r].fresh THEN empty_blocks ELSE rows.canvas.blocks]

(* Only blocks still empty in the copy are filled; any of them.             *)
CommitFill(r) ==
    LET t == txn[r]
        filled == {b \in Blocks : t.copy.blocks[b] = ""} IN
    /\ t.op = "filling" \/ (Ready(r, "fill_canvas") /\ complete(t.copy.blocks))
    /\ \E some \in SUBSET filled :
         rows' = IF some = {} THEN Persisted(t)
                 ELSE [rows EXCEPT !.canvas =
                        [blocks |-> [b \in Blocks |-> IF b \in some THEN "ai" ELSE t.copy.blocks[b]],
                         version |-> t.copy.version + 1]]
    /\ JobDone(<<"fill_canvas", 0>>)
    /\ UNCHANGED <<recs, ids, suggestions, plans, published>>
    /\ Commit(r)

(* Mutant of create_record: the record is counted after it is added.        *)
create_record_counted(n, data, howMany) ==
    /\ ids' = ids + howMany
    /\ recs' = [i \in DOMAIN recs \cup (ids + 1)..(ids + howMany) |->
                 IF i \in DOMAIN recs THEN recs[i]
                 ELSE [position |-> n + i - ids - 1, data |-> data]]
    /\ published' = published \cup IF n + howMany = 0 THEN {"records"} ELSE {}

-----------------------------------------------------------------------------
(* create_record: the position is the number of records it counted, and the *)
(* first record announces the kind.                                         *)
create_record(n, data, howMany) ==
    /\ ids' = ids + howMany
    /\ recs' = [i \in DOMAIN recs \cup (ids + 1)..(ids + howMany) |->
                 IF i \in DOMAIN recs THEN recs[i]
                 ELSE [position |-> n + i - ids - 1, data |-> data]]
    /\ published' = published \cup IF n = 0 /\ howMany > 0 THEN {"records"} ELSE {}

(* Mutant of update_record: the row is written whether it exists or not.    *)
upsert_record(id) ==
    recs' = [i \in DOMAIN recs \cup {id} |->
              IF i = id THEN [position |-> 0, data |-> "edited"] ELSE recs[i]]

(* The row is gone: the UPDATE matches nothing and the request fails.       *)
update_record(id) ==
    /\ id \in DOMAIN recs
    /\ recs' = [recs EXCEPT ![id].data = "edited"]

delete_record(id) == recs' = [i \in DOMAIN recs \ {id} |-> recs[i]]

create_kind(r) == Begin(r, [Idle EXCEPT !.op = "create", !.count = count])

CommitCreate(r) ==
    /\ txn[r].op = "create"
    /\ create_record(txn[r].count, "given", 1)
    /\ UNCHANGED <<rows, suggestions, plans, jobs>>
    /\ Commit(r)

(* 404 unless the record exists.                                            *)
_record(i) == i \in DOMAIN recs

update_kind(r) ==
    \E i \in 1..ids : _record(i) /\ Begin(r, [Idle EXCEPT !.op = "update", !.id = i])
delete_kind(r) ==
    \E i \in 1..ids : _record(i) /\ Begin(r, [Idle EXCEPT !.op = "delete", !.id = i])

CommitRecord(r) ==
    /\ \/ txn[r].op = "update" /\ update_record(txn[r].id)
       \/ txn[r].op = "delete" /\ delete_record(txn[r].id)
    /\ UNCHANGED <<rows, ids, suggestions, plans, jobs, published>>
    /\ Commit(r)

(* The handler looks whether there is a record, asks the model, and then    *)
(* creates up to three, counting again.                                     *)
handle_record_ai_fill(r) ==
    /\ <<"fill_records", 0>> \in jobs
    /\ IF count > 0 THEN NoOp(r, <<"fill_records", 0>>)
       ELSE Begin(r, [Idle EXCEPT !.op = "fill_records"])

RecordsAnswered(r) ==
    /\ txn[r].op = "fill_records"
    /\ Step(r, [txn[r] EXCEPT !.op = "drafting", !.count = count])
    /\ UNCHANGED landed

CommitDrafts(r) ==
    /\ txn[r].op = "drafting"
    /\ \E n \in 0..2 : create_record(txn[r].count, "ai", n)
    /\ JobDone(<<"fill_records", 0>>)
    /\ UNCHANGED <<rows, suggestions, plans>>
    /\ Commit(r)

-----------------------------------------------------------------------------
(* create_suggestion: a canvas is suggested against its version, a record   *)
(* must exist.                                                              *)
create_suggestion(r) ==
    \E op \in SuggestionOps : LET t == [Idle EXCEPT !.op = op] IN
      \/ op = "canvas_update" /\ \E given \in Given :
           Begin(r, Loaded([t EXCEPT !.blocks = given], "canvas"))
      \/ op = "record_create" /\ Begin(r, t)
      \/ op \in {"record_update", "record_delete"} /\ \E i \in 1..ids :
           _record(i) /\ Begin(r, [t EXCEPT !.id = i])

CommitSuggestion(r) ==
    LET t == txn[r] IN
    /\ t.op \in SuggestionOps /\ Ready(r, t.op)
    /\ suggestions' = Append(suggestions,
          [op |-> t.op, status |-> "pending", record |-> t.id, blocks |-> t.blocks,
           base |-> IF t.op = "canvas_update" THEN t.copy.version ELSE 0])
    /\ rows' = Persisted(t)
    /\ published' = published \cup {"suggested"}
    /\ UNCHANGED <<recs, ids, plans, jobs>>
    /\ Commit(r)

_require_pending(s) == suggestions[s].status = "pending"

approve_suggestion(r) ==
    \E s \in DOMAIN suggestions :
      LET t == [Idle EXCEPT !.op = "approve", !.id = s, !.count = count] IN
      /\ _require_pending(s)
      /\ suggestions[s].op \in {"record_update", "record_delete"} =>
            _record(suggestions[s].record)
      /\ Begin(r, IF suggestions[s].op = "canvas_update" THEN Loaded(t, "canvas") ELSE t)

(* _apply: through the functions the endpoints write with.                  *)
_apply(s, t) ==
    \/ /\ s.op = "canvas_update" /\ save_canvas(t, s.blocks, s.base)
       /\ UNCHANGED <<recs, ids>>
    \/ /\ s.op = "record_create" /\ create_record(t.count, "given", 1)
       /\ UNCHANGED rows
    \/ /\ \/ s.op = "record_update" /\ update_record(s.record)
          \/ s.op = "record_delete" /\ delete_record(s.record)
       /\ UNCHANGED <<rows, ids, published>>

CommitApprove(r) ==
    /\ Ready(r, "approve")
    /\ _apply(suggestions[txn[r].id], txn[r])
    /\ suggestions' = [suggestions EXCEPT ![txn[r].id].status = "approved"]
    /\ UNCHANGED <<plans, jobs>>
    /\ Commit(r)

reject_suggestion(r) ==
    \E s \in DOMAIN suggestions :
      _require_pending(s) /\ Begin(r, [Idle EXCEPT !.op = "reject", !.id = s])

CommitReject(r) ==
    /\ txn[r].op = "reject"
    /\ suggestions' = [suggestions EXCEPT ![txn[r].id].status = "rejected"]
    /\ UNCHANGED <<rows, recs, ids, plans, jobs, published>>
    /\ Commit(r)

-----------------------------------------------------------------------------
(* The plan and its job are committed together.                             *)
generate_plan(r) ==
    /\ txn[r] = Idle /\ served < MaxServed
    /\ served' = served + 1
    /\ plans' = Append(plans, [status |-> "generating", document |-> None])
    /\ jobs' = jobs \cup {<<"plan", Len(plans')>>}
    /\ UNCHANGED <<rows, recs, ids, suggestions, published, txn, shown, landed>>

(* What of the startup's data a plan is written from.                       *)
build_plan_context == [canvas |-> rows.canvas # None, records |-> DOMAIN recs]

(* handle_plan_generate: the context is read, section by section the model  *)
(* is asked, and the document and the plan are written.                     *)
handle_plan_generate(r) ==
    \E p \in DOMAIN plans :
      /\ <<"plan", p>> \in jobs
      /\ IF plans[p].status # "generating" THEN NoOp(r, <<"plan", p>>)
         ELSE Begin(r, [Idle EXCEPT !.op = "plan", !.id = p,
                                               !.copy = build_plan_context])

CommitPlan(r) ==
    /\ txn[r].op = "plan"
    /\ plans' = [plans EXCEPT ![txn[r].id] = [status |-> "complete",
                                              document |-> txn[r].copy]]
    /\ published' = published \cup {"plan"}
    /\ JobDone(<<"plan", txn[r].id>>)
    /\ UNCHANGED <<rows, recs, ids, suggestions>>
    /\ Commit(r)

(* get_plan serves the latest plan.                                         *)
get_plan == IF plans = << >> THEN None ELSE plans[Len(plans)]

-----------------------------------------------------------------------------
CanvasStep(r) ==
    \/ get_canvas(r) \/ put_canvas(r) \/ Insert(r) \/ CommitGet(r) \/ CommitPut(r)
    \/ get_positioning_map(r) \/ put_positioning_map(r) \/ update_axes(r)
    \/ ai_fill_canvas(r) \/ handle_canvas_ai_fill(r) \/ FillAnswered(r) \/ CommitFill(r)
RecordStep(r) ==
    \/ create_kind(r) \/ CommitCreate(r) \/ update_kind(r) \/ delete_kind(r) \/ CommitRecord(r)
    \/ ai_fill_kind(r) \/ handle_record_ai_fill(r) \/ RecordsAnswered(r) \/ CommitDrafts(r)
SuggestionStep(r) ==
    \/ create_suggestion(r) \/ CommitSuggestion(r)
    \/ approve_suggestion(r) \/ CommitApprove(r) \/ reject_suggestion(r) \/ CommitReject(r)
PlanStep(r) == generate_plan(r) \/ handle_plan_generate(r) \/ CommitPlan(r)

Next ==
    \E r \in Requests :
      CanvasStep(r) \/ RecordStep(r) \/ SuggestionStep(r) \/ PlanStep(r) \/ Abort(r)

Spec == Init /\ [][Next]_vars

-----------------------------------------------------------------------------
(* Types; a row is inserted by one request at a time, and never when there  *)
(* is one; a plan is complete with its document.                            *)
TypeOK ==
    /\ rows.canvas \in Canvases \cup {None} /\ rows.map \in Axes \cup {None}
    /\ DOMAIN recs \subseteq 1..ids /\ \A i \in DOMAIN recs : recs[i] \in RecordData
    /\ \A s \in DOMAIN suggestions : suggestions[s] \in Suggestions
    /\ \A p \in DOMAIN plans : plans[p] \in Plans
    /\ get_plan # None => (get_plan.status = "complete") = (get_plan.document # None)
    /\ published \subseteq {"canvas", "records", "suggested", "plan"}
    /\ \A r \in Requests : txn[r].fresh =>
         /\ rows[txn[r].row] = None
         /\ \A q \in Requests : txn[q].fresh /\ txn[q].row = txn[r].row => q = r

(* An edit that lands while the model drafts a canvas is not overwritten    *)
(* by the draft: blocks filled when the model answers keep their text.      *)
EditsBehindModelSurvive ==
    [][\A r \in Requests : txn[r].op = "filling" /\ txn'[r] # txn[r] =>
         \A b \in Blocks : landed[r][b] # "" =>
           rows'.canvas.blocks[b] \in {landed[r][b], rows.canvas.blocks[b]}]_vars

(* However creations, drafts and approvals race, a kind the overview shows  *)
(* complete was announced.                                                  *)
KindAnnounced == overview.records => "records" \in published

(* A deletion that was approved is not undone by an edit, or by another     *)
(* suggestion, that was under way.                                          *)
ApprovedDeletionSticks ==
    \A s \in DOMAIN suggestions :
      suggestions[s].op = "record_delete" /\ suggestions[s].status = "approved" =>
        suggestions[s].record \notin DOMAIN recs

=============================================================================
