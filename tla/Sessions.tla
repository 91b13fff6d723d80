------------------------------ MODULE Sessions ------------------------------
(***************************************************************************)
(* Refresh sessions and their rotation (src/app/services/auth/sessions.py) *)
(* under the endpoints that commit them (src/app/api/v1/endpoints/auth/).  *)
(*                                                                         *)
(* A row of auth_sessions belongs to a family; rotating it consumes it and *)
(* adds one row of the family.  Transactions are READ COMMITTED: an UPDATE *)
(* chooses its rows from what is committed when it starts, and waits for   *)
(* the row locks of other transactions.                                    *)
(***************************************************************************)
EXTENDS FiniteSets

CONSTANTS
    Ids,        \* the rows there may ever be (bound)
    Families,   \* family ids (bound on logins)
    Requests,   \* requests served at the same time
    None

ASSUME NoneIsNothing == None \notin Ids \cup Families

VARIABLES
    family,     \* auth_sessions: id -> family_id, None while there is no row
    rotated, revoked, expired,  \* rows with rotated_at, revoked_at, past expires_at
    op,         \* what each request's transaction is doing
    on,         \* the row it was given
    todo,       \* rows its UPDATE has chosen and not reached
    locked,     \* rows it has locked
    reused      \* families of rows that were refused as no longer live

table == <<family, rotated, revoked, expired>>
txn == <<op, on, todo, locked>>
vars == <<table, txn, reused>>

Rows == {s \in Ids : family[s] # None}
FamilyOf(f) == {s \in Rows : family[s] = f}
Live(s) == s \notin rotated \cup revoked \cup expired
Free(s) == \A q \in Requests : s \notin locked[q]

Init ==
    /\ family = [s \in Ids |-> None]
    /\ rotated = {} /\ revoked = {} /\ expired = {}
    /\ op = [r \in Requests |-> "idle"]
    /\ on = [r \in Requests |-> None]
    /\ todo = [r \in Requests |-> {}]
    /\ locked = [r \in Requests |-> {}]
    /\ reused = {}

-----------------------------------------------------------------------------
Begin(r, o, s, rows, locks) ==
    /\ op[r] = "idle"
    /\ op' = [op EXCEPT ![r] = o]
    /\ on' = [on EXCEPT ![r] = s]
    /\ todo' = [todo EXCEPT ![r] = rows]
    /\ locked' = [locked EXCEPT ![r] = locks]

End(r) ==
    /\ op' = [op EXCEPT ![r] = "idle"]
    /\ on' = [on EXCEPT ![r] = None]
    /\ todo' = [todo EXCEPT ![r] = {}]
    /\ locked' = [locked EXCEPT ![r] = {}]

(* issue_token_pair: a row of a new family.                                 *)
Login ==
    /\ \E s \in Ids \ Rows, f \in Families :
         /\ FamilyOf(f) = {}
         /\ family' = [family EXCEPT ![s] = f]
    /\ UNCHANGED <<rotated, revoked, expired, txn, reused>>

(* Mutant of Claim: the UPDATE, once it has waited for the row, does not    *)
(* look again at rotated_at.                                                *)
ClaimRotated(r) ==
    /\ \E s \in Rows :
         /\ Free(s) /\ s \notin revoked \cup expired
         /\ Begin(r, "refresh", s, {}, {s})
    /\ UNCHANGED <<table, reused>>

(* Mutant of Claim: the UPDATE does not filter on revoked_at.               *)
ClaimRevoked(r) ==
    /\ \E s \in Rows :
         /\ Free(s) /\ s \notin rotated \cup expired
         /\ Begin(r, "refresh", s, {}, {s})
    /\ UNCHANGED <<table, reused>>

(* rotate_refresh claims the row with one conditional UPDATE.               *)
Claim(r) ==
    /\ \E s \in Rows : Free(s) /\ Live(s) /\ Begin(r, "refresh", s, {}, {s})
    /\ UNCHANGED <<table, reused>>

(* The claimed row's successor is issued, and refresh() commits.            *)
FinishRefresh(r) ==
    /\ op[r] = "refresh"
    /\ rotated' = rotated \cup {on[r]}
    /\ \E s \in Ids \ Rows : family' = [family EXCEPT ![s] = family[on[r]]]
    /\ End(r)
    /\ UNCHANGED <<revoked, expired, reused>>

(* The claim matched nothing: _revoke_family begins its UPDATE.             *)
ClaimMatchesNothing(r) ==
    /\ \E s \in Rows :
         /\ Free(s) /\ ~Live(s)
         /\ Begin(r, "revoke", s, FamilyOf(family[s]) \ revoked, {})
    /\ UNCHANGED <<table, reused>>

(* An UPDATE reaches one of its rows once that is free.                     *)
ReachRow(r) ==
    /\ \E s \in todo[r] :
         /\ Free(s)
         /\ todo' = [todo EXCEPT ![r] = @ \ {s}]
         /\ locked' = [locked EXCEPT ![r] = @ \cup {s}]
    /\ UNCHANGED <<table, op, on, reused>>

(* Unauthorized is raised, and the request's session closed: not committed. *)
AnswerReuse(r) ==
    /\ op[r] = "revoke" /\ todo[r] = {}
    /\ reused' = reused \cup {family[on[r]]}
    /\ End(r)
    /\ UNCHANGED table

Logout ==
    /\ \E s \in Rows : Free(s) /\ revoked' = revoked \cup {s}
    /\ UNCHANGED <<family, rotated, expired, txn, reused>>

(* reset() of a password: revoke_all_for_user begins its UPDATE.            *)
BeginReset(r) ==
    /\ Begin(r, "reset", None, Rows \ revoked, {})
    /\ UNCHANGED <<table, reused>>

FinishReset(r) ==
    /\ op[r] = "reset" /\ todo[r] = {}
    /\ revoked' = revoked \cup locked[r]
    /\ End(r)
    /\ UNCHANGED <<family, rotated, expired, reused>>

(* The request fails: its transaction is rolled back.                       *)
Abort(r) ==
    /\ op[r] # "idle"
    /\ End(r)
    /\ UNCHANGED <<table, reused>>

Expire ==
    /\ \E s \in Rows : expired' = expired \cup {s}
    /\ UNCHANGED <<family, rotated, revoked, txn, reused>>

Step(r) ==
    \/ Claim(r)
    \/ FinishRefresh(r)
    \/ ClaimMatchesNothing(r)
    \/ ReachRow(r)
    \/ AnswerReuse(r)
    \/ BeginReset(r)
    \/ FinishReset(r)
    \/ Abort(r)

Next == Login \/ Logout \/ Expire \/ \E r \in Requests : Step(r)

Spec == Init /\ [][Next]_vars

-----------------------------------------------------------------------------
(* Types; what is rotated, revoked, expired, chosen or locked is a row that *)
(* exists.                                                                  *)
TypeOK ==
    /\ family \in [Ids -> Families \cup {None}]
    /\ rotated \subseteq Rows /\ revoked \subseteq Rows /\ expired \subseteq Rows
    /\ op \in [Requests -> {"idle", "refresh", "revoke", "reset"}]
    /\ on \in [Requests -> Ids \cup {None}]
    /\ todo \in [Requests -> SUBSET Rows] /\ locked \in [Requests -> SUBSET Rows]
    /\ reused \subseteq Families

(* Rotation is linear: a family never has two rows that were not rotated,   *)
(* however many refreshes of a row are served at once.                      *)
OneHeir ==
    \A s, t \in Rows \ rotated : family[s] = family[t] => s = t

(* A row that was revoked before its rotation committed has no successor:   *)
(* a family grows only from a row that is still in force.                   *)
NoHeirOfRevoked ==
    [][\A r \in Requests : FinishRefresh(r) => on[r] \notin revoked]_vars

(* A row that is refused as no longer live takes its family with it, the    *)
(* successor a concurrent refresh may just have been issued included.       *)
FamilyIsRevoked ==
    [][\A f \in reused' \ reused : {s \in Rows : family[s] = f} \subseteq revoked']_vars
=============================================================================
