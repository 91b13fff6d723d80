--------------------------- MODULE SessionsProofs ---------------------------
(***************************************************************************)
(* Rotation is linear, proved for any number of rows, families and         *)
(* requests.  OneHeir is not inductive by itself: a step that issues a     *)
(* successor needs to know that the claimed row was still unrotated, which *)
(* holds because its transaction has it locked and no other has.           *)
(***************************************************************************)
EXTENDS Sessions, TLAPS

(* Row locks are exclusive, and a claimed row is locked and unrotated.      *)
Exclusive == \A r, q \in Requests : r # q => locked[r] \cap locked[q] = {}

Claimed ==
    \A r \in Requests :
        /\ op[r] \in {"refresh", "revoke"} => on[r] \in Rows
        /\ op[r] = "refresh" =>
             on[r] \notin rotated \cup revoked /\ locked[r] = {on[r]} /\ todo[r] = {}

IInv == TypeOK /\ Exclusive /\ Claimed /\ OneHeir

(* Begin and End are assignments to the four variables of a transaction.    *)
LEMMA BeginType ==
    ASSUME TypeOK, NEW r \in Requests, NEW o \in {"refresh", "revoke", "reset"},
           NEW s \in Ids \cup {None}, NEW rows \in SUBSET Rows, NEW locks \in SUBSET Rows,
           Begin(r, o, s, rows, locks)
    PROVE  /\ op' \in [Requests -> {"idle", "refresh", "revoke", "reset"}]
           /\ on' \in [Requests -> Ids \cup {None}]
           /\ todo' \in [Requests -> SUBSET Rows] /\ locked' \in [Requests -> SUBSET Rows]
PROOF BY DEF TypeOK, Begin

(* A transaction that ends has an idle one's four variables.                *)
LEMMA EndType ==
    ASSUME TypeOK, NEW r \in Requests, End(r)
    PROVE  /\ op' \in [Requests -> {"idle", "refresh", "revoke", "reset"}]
           /\ on' \in [Requests -> Ids \cup {None}]
           /\ todo' \in [Requests -> SUBSET Rows] /\ locked' \in [Requests -> SUBSET Rows]
PROOF BY DEF TypeOK, End

(* Rows are never deleted: a step that gives an unused id a family keeps    *)
(* every row, and its family.                                               *)
LEMMA RowsGrow ==
    ASSUME TypeOK, NEW s \in Ids \ Rows, NEW f \in Families,
           family' = [family EXCEPT ![s] = f]
    PROVE  /\ Rows' = Rows \cup {s}
           /\ \A t \in Rows : family'[t] = family[t]
           /\ family'[s] = f
           /\ family' \in [Ids -> Families \cup {None}]
PROOF BY NoneIsNothing DEF TypeOK, Rows

(* The rows there are depend on their families only.                        *)
LEMMA RowsSame ==
    ASSUME family' = family
    PROVE  Rows' = Rows
PROOF BY DEF Rows

(* Every step keeps the types: what it chooses, locks or marks is a row.    *)
LEMMA TypeStep == TypeOK /\ Claimed /\ [Next]_vars => TypeOK'
PROOF
<1> SUFFICES ASSUME TypeOK, Claimed, [Next]_vars PROVE TypeOK'
    OBVIOUS
<1> USE NoneIsNothing
<1>1. CASE Login
  <2>1. PICK s \in Ids \ Rows, f \in Families : family' = [family EXCEPT ![s] = f]
        BY <1>1 DEF Login
  <2>2. /\ Rows' = Rows \cup {s}
        /\ family' \in [Ids -> Families \cup {None}]
        BY <2>1, RowsGrow
  <2>3. UNCHANGED <<rotated, revoked, expired, op, on, todo, locked, reused>>
        BY <1>1 DEF Login, txn
  <2> QED BY <2>2, <2>3 DEF TypeOK
<1>2. CASE Logout
  <2>1. Rows' = Rows
        BY <1>2, RowsSame DEF Logout
  <2> QED BY <1>2, <2>1 DEF TypeOK, Logout, txn
<1>3. CASE Expire
  <2>1. Rows' = Rows
        BY <1>3, RowsSame DEF Expire
  <2> QED BY <1>3, <2>1 DEF TypeOK, Expire, txn
<1>4. ASSUME NEW r \in Requests, Step(r) PROVE TypeOK'
  <2>1. CASE Claim(r)
    <3>1. PICK s \in Rows : Begin(r, "refresh", s, {}, {s})
          BY <2>1 DEF Claim
    <3>2. s \in Ids \cup {None} /\ {s} \in SUBSET Rows /\ {} \in SUBSET Rows
          BY <3>1 DEF Rows
    <3>3. Rows' = Rows
          BY <2>1, RowsSame DEF Claim, table
    <3> QED BY <2>1, <3>1, <3>2, <3>3, BeginType DEF TypeOK, Claim, table
  <2>2. CASE FinishRefresh(r)
    <3>1. PICK s \in Ids \ Rows : family' = [family EXCEPT ![s] = family[on[r]]]
          BY <2>2 DEF FinishRefresh
    <3>2. on[r] \in Rows
          BY <2>2 DEF Claimed, FinishRefresh
    <3>3. family[on[r]] \in Families
          BY <3>2 DEF TypeOK, Rows
    <3>4. /\ Rows' = Rows \cup {s}
          /\ family' \in [Ids -> Families \cup {None}]
          BY <3>1, <3>3, RowsGrow
    <3> QED BY <2>2, <3>2, <3>4, EndType DEF TypeOK, FinishRefresh
  <2>3. CASE ClaimMatchesNothing(r)
    <3>1. PICK s \in Rows : Begin(r, "revoke", s, FamilyOf(family[s]) \ revoked, {})
          BY <2>3 DEF ClaimMatchesNothing
    <3>2. /\ s \in Ids \cup {None} /\ {} \in SUBSET Rows
          /\ FamilyOf(family[s]) \ revoked \in SUBSET Rows
          BY <3>1 DEF Rows, FamilyOf
    <3>3. Rows' = Rows
          BY <2>3, RowsSame DEF ClaimMatchesNothing, table
    <3> QED BY <2>3, <3>1, <3>2, <3>3, BeginType DEF TypeOK, ClaimMatchesNothing, table
  <2>4. CASE ReachRow(r)
    <3>1. Rows' = Rows
          BY <2>4, RowsSame DEF ReachRow, table
    <3> QED BY <2>4, <3>1 DEF TypeOK, ReachRow, table
  <2>5. CASE AnswerReuse(r)
    <3>1. Rows' = Rows
          BY <2>5, RowsSame DEF AnswerReuse, table
    <3>2. family[on[r]] \in Families
          BY <2>5 DEF Claimed, AnswerReuse, TypeOK, Rows
    <3> QED BY <2>5, <3>1, <3>2, EndType DEF TypeOK, AnswerReuse, table
  <2>6. CASE BeginReset(r)
    <3>1. Rows' = Rows
          BY <2>6, RowsSame DEF BeginReset, table
    <3>2. Begin(r, "reset", None, Rows \ revoked, {})
          BY <2>6 DEF BeginReset
    <3>3. Rows \ revoked \in SUBSET Rows /\ {} \in SUBSET Rows /\ None \in Ids \cup {None}
          OBVIOUS
    <3> QED BY <2>6, <3>1, <3>2, <3>3, BeginType DEF TypeOK, BeginReset, table
  <2>7. CASE FinishReset(r)
    <3>1. Rows' = Rows
          BY <2>7, RowsSame DEF FinishReset
    <3>2. locked[r] \subseteq Rows
          BY DEF TypeOK
    <3>3. {family[s] : s \in locked[r]} \subseteq Families
          BY <3>2 DEF TypeOK, Rows
    <3> QED BY <2>7, <3>1, <3>2, <3>3, EndType DEF TypeOK, FinishReset
  <2>8. CASE Abort(r)
    <3>1. Rows' = Rows
          BY <2>8, RowsSame DEF Abort, table
    <3> QED BY <2>8, <3>1, EndType DEF TypeOK, Abort, table
  <2> QED BY <1>4, <2>1, <2>2, <2>3, <2>4, <2>5, <2>6, <2>7, <2>8 DEF Step
<1>5. CASE UNCHANGED vars
  <2>1. Rows' = Rows
        BY <1>5, RowsSame DEF vars, table
  <2> QED BY <1>5, <2>1 DEF TypeOK, vars, table, txn
<1> QED BY <1>1, <1>2, <1>3, <1>4, <1>5 DEF Next

(* A transaction locks only rows that are free, and gives up its locks only *)
(* when it ends.                                                            *)
LEMMA ExclusiveStep == TypeOK /\ Exclusive /\ [Next]_vars => Exclusive'
PROOF
<1> SUFFICES ASSUME TypeOK, Exclusive, [Next]_vars PROVE Exclusive'
    OBVIOUS
<1>1. CASE locked' = locked
  BY <1>1 DEF Exclusive
<1>2. ASSUME NEW r \in Requests, NEW s \in Ids, Free(s),
             locked' = [locked EXCEPT ![r] = @ \cup {s}] \/ locked' = [locked EXCEPT ![r] = {s}]
      PROVE  Exclusive'
  BY <1>2 DEF Exclusive, Free, TypeOK
<1>3. ASSUME NEW r \in Requests, locked' = [locked EXCEPT ![r] = {}]
      PROVE  Exclusive'
  BY <1>3 DEF Exclusive, TypeOK
<1>4. ASSUME NEW r \in Requests, Step(r) PROVE Exclusive'
  <2>1. CASE Claim(r)
    BY <2>1, <1>2 DEF Claim, Begin, Rows
  <2>2. CASE ReachRow(r)
    BY <2>2, <1>2 DEF ReachRow, TypeOK, Rows
  <2>3. CASE ~Claim(r) /\ ~ReachRow(r)
    BY <2>3, <1>4, <1>3 DEF Step, FinishRefresh, ClaimMatchesNothing, AnswerReuse,
       BeginReset, FinishReset, Abort, Begin, End
  <2> QED BY <2>1, <2>2, <2>3
<1> QED BY <1>1, <1>4 DEF Next, Login, Logout, Expire, vars, txn

(* Another transaction rotates only the row it has locked, so a claimed row *)
(* stays unrotated until its own transaction ends.                          *)
LEMMA ClaimedStep == TypeOK /\ Exclusive /\ Claimed /\ [Next]_vars => Claimed'
PROOF
<1> SUFFICES ASSUME TypeOK, Exclusive, Claimed, [Next]_vars,
                    NEW r \in Requests
             PROVE  /\ op[r]' \in {"refresh", "revoke"} => on[r]' \in Rows'
                    /\ op[r]' = "refresh" =>
                         on[r]' \notin (rotated \cup revoked)' /\ locked[r]' = {on[r]'}
                         /\ todo[r]' = {}
    BY DEF Claimed
<1>1. CASE Login
  <2>1. Rows \subseteq Rows'
    BY <1>1, RowsGrow DEF Login
  <2> QED BY <1>1, <2>1 DEF Login, txn, Claimed
<1>2. CASE Logout \/ Expire \/ UNCHANGED vars
  <2>1. Rows' = Rows
    BY <1>2, RowsSame DEF Logout, Expire, vars, table
  <2> QED BY <1>2, <2>1 DEF Logout, Free, Expire, vars, table, txn, Claimed
<1>3. ASSUME NEW q \in Requests, FinishRefresh(q)
      PROVE  /\ op[r]' \in {"refresh", "revoke"} => on[r]' \in Rows'
             /\ op[r]' = "refresh" =>
                         on[r]' \notin (rotated \cup revoked)' /\ locked[r]' = {on[r]'}
                         /\ todo[r]' = {}
  <2>1. on[q] \in Rows /\ locked[q] = {on[q]} /\ family[on[q]] \in Families
    BY <1>3 DEF FinishRefresh, Claimed, TypeOK, Rows
  <2>2. Rows \subseteq Rows'
    BY <1>3, <2>1, RowsGrow DEF FinishRefresh
  <2>3. CASE r = q
    BY <1>3, <2>3 DEF FinishRefresh, End, TypeOK
  <2>4. CASE r # q
    <3>1. op[r]' = op[r] /\ on[r]' = on[r] /\ locked[r]' = locked[r] /\ todo[r]' = todo[r]
      BY <1>3, <2>4 DEF FinishRefresh, End, TypeOK
    <3>2. op[r] = "refresh" => on[r] # on[q]
      BY <2>1, <2>4 DEF Claimed, Exclusive
    <3> QED BY <1>3, <2>2, <3>1, <3>2 DEF FinishRefresh, Claimed
  <2> QED BY <2>3, <2>4
<1>4. ASSUME NEW q \in Requests, Step(q), ~FinishRefresh(q)
      PROVE  /\ op[r]' \in {"refresh", "revoke"} => on[r]' \in Rows'
             /\ op[r]' = "refresh" =>
                         on[r]' \notin (rotated \cup revoked)' /\ locked[r]' = {on[r]'}
                         /\ todo[r]' = {}
  <2>1. Rows' = Rows /\ rotated' = rotated
    BY <1>4, RowsSame DEF Step, Claim, ClaimMatchesNothing, ReachRow, AnswerReuse,
       BeginReset, FinishReset, Abort, table
  <2>rev. revoked' = revoked \/ (FinishReset(q) /\ revoked' = revoked \cup locked[q])
    BY <1>4 DEF Step, Claim, ClaimMatchesNothing, ReachRow, AnswerReuse,
       BeginReset, FinishReset, Abort, table
  <2>2. CASE r # q
    <3>1. op[r]' = op[r] /\ on[r]' = on[r] /\ locked[r]' = locked[r] /\ todo[r]' = todo[r]
      BY <1>4, <2>2 DEF Step, Claim, ClaimMatchesNothing, ReachRow, AnswerReuse,
         BeginReset, FinishReset, Abort, Begin, End, TypeOK
    <3>2. op[r] = "refresh" => on[r] \notin locked[q]
      BY <2>2 DEF Claimed, Exclusive
    <3> QED BY <2>1, <2>rev, <3>1, <3>2 DEF Claimed
  <2>3. CASE r = q /\ Claim(r)
    BY <2>1, <2>3 DEF table, Claim, Begin, Live, TypeOK
  <2>4. CASE r = q /\ ClaimMatchesNothing(r)
    BY <2>1, <2>4 DEF ClaimMatchesNothing, Begin, TypeOK
  <2>5. CASE r = q /\ ReachRow(r)
    BY <2>1, <2>5 DEF table, ReachRow, Claimed, TypeOK
  <2>6. CASE r = q /\ (AnswerReuse(r) \/ BeginReset(r) \/ FinishReset(r) \/ Abort(r))
    BY <2>6 DEF AnswerReuse, BeginReset, FinishReset, Abort, Begin, End, TypeOK
  <2> QED BY <1>4, <2>2, <2>3, <2>4, <2>5, <2>6 DEF Step
<1> QED BY <1>1, <1>2, <1>3, <1>4 DEF Next

(* The one step that adds a row to a family rotates that family's only      *)
(* unrotated row.                                                           *)
LEMMA OneHeirStep == TypeOK /\ Claimed /\ OneHeir /\ [Next]_vars => OneHeir'
PROOF
<1> SUFFICES ASSUME TypeOK, Claimed, OneHeir, [Next]_vars PROVE OneHeir'
    OBVIOUS
<1>1. CASE Login
  <2>1. PICK s \in Ids \ Rows, f \in Families :
            FamilyOf(f) = {} /\ family' = [family EXCEPT ![s] = f]
    BY <1>1 DEF Login
  <2>2. /\ Rows' = Rows \cup {s} /\ family'[s] = f
        /\ \A t \in Rows : family'[t] = family[t]
    BY <2>1, RowsGrow
  <2>3. \A t \in Rows : family[t] # f
    BY <2>1 DEF FamilyOf
  <2>4. rotated' = rotated
    BY <1>1 DEF Login
  <2> QED BY <2>2, <2>3, <2>4 DEF OneHeir
<1>2. ASSUME NEW r \in Requests, FinishRefresh(r) PROVE OneHeir'
  <2>1. PICK s \in Ids \ Rows : family' = [family EXCEPT ![s] = family[on[r]]]
    BY <1>2 DEF FinishRefresh
  <2>2. on[r] \in Rows \ rotated /\ family[on[r]] \in Families
    BY <1>2 DEF FinishRefresh, Claimed, TypeOK, Rows
  <2>3. /\ Rows' = Rows \cup {s} /\ family'[s] = family[on[r]]
        /\ \A t \in Rows : family'[t] = family[t]
    BY <2>1, <2>2, RowsGrow
  <2>4. rotated' = rotated \cup {on[r]}
    BY <1>2 DEF FinishRefresh
  <2>5. \A t \in Rows \ rotated' : family[t] # family[on[r]]
    BY <2>2, <2>4 DEF OneHeir
  <2> QED BY <2>3, <2>4, <2>5 DEF OneHeir
<1>3. CASE UNCHANGED <<family, rotated>>
  BY <1>3, RowsSame DEF OneHeir
<1>4. [Next]_vars => \/ Login \/ (\E r \in Requests : FinishRefresh(r))
                    \/ UNCHANGED <<family, rotated>>
  BY DEF Next, Step, Logout, Expire, Claim, ClaimMatchesNothing, ReachRow, AnswerReuse,
     BeginReset, FinishReset, Abort, vars, table
<1> QED BY <1>1, <1>2, <1>3, <1>4

(* The invariant holds at the start and after every step.                   *)
LEMMA InvInductive == Spec => []IInv
PROOF
<1>1. Init => IInv
  BY NoneIsNothing DEF Init, IInv, TypeOK, Exclusive, Claimed, OneHeir, Rows
<1>2. IInv /\ [Next]_vars => IInv'
  BY TypeStep, ExclusiveStep, ClaimedStep, OneHeirStep DEF IInv
<1> QED BY <1>1, <1>2, PTL DEF Spec

(* The table and the transactions are well typed: rows are only rotated,    *)
(* revoked, chosen or locked once they exist.                               *)
THEOREM TypeCorrect == Spec => []TypeOK
PROOF
<1>1. IInv => TypeOK
  BY DEF IInv
<1> QED BY <1>1, InvInductive, PTL

(* However many refreshes of a row are served at once, at most one issues a *)
(* successor: no family has two unrotated rows.                             *)
THEOREM RotationIsLinear == Spec => []OneHeir
PROOF
<1>1. IInv => OneHeir
  BY DEF IInv
<1> QED BY <1>1, InvInductive, PTL

(* A family grows only from a row in force: a claimed row is locked, so no  *)
(* logout or reset revokes it before its rotation commits.                  *)
THEOREM HeirsComeFromLiveRows == Spec => NoHeirOfRevoked
PROOF
<1>1. IInv /\ [Next]_vars =>
        [\A r \in Requests : FinishRefresh(r) => on[r] \notin revoked]_vars
  BY DEF IInv, Claimed, FinishRefresh
<1> QED BY <1>1, InvInductive, PTL DEF Spec, NoHeirOfRevoked
=============================================================================
