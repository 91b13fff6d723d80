---------------------------- MODULE Transactions ----------------------------
(***************************************************************************)
(* The request transactions of the API (src/app/db/session.py): a request  *)
(* gets a session, loads rows into it, and what it writes is seen by the   *)
(* others when it commits.  Rows are read as committed and written by      *)
(* primary key; nothing is locked but what is already written.             *)
(***************************************************************************)
EXTENDS Integers, FiniteSets

CONSTANTS
    Requests,   \* requests and jobs served at the same time
    MaxServed   \* bound: requests and jobs served in a behaviour

VARIABLES
    txn,    \* request -> what it does and has loaded
    alone,  \* request -> no other transaction has committed since it began
    served

txnVars == <<txn, alone, served>>

Idle == [op |-> "idle"]

TransactionsInit ==
    /\ txn = [r \in Requests |-> Idle]
    /\ alone = [r \in Requests |-> TRUE]
    /\ served = 0

Doing(r, op) == txn[r].op = op

Begin(r, t) ==
    /\ txn[r] = Idle /\ served < MaxServed
    /\ served' = served + 1
    /\ txn' = [txn EXCEPT ![r] = t]
    /\ UNCHANGED alone

Go(r, t) ==
    /\ txn' = [txn EXCEPT ![r] = t]
    /\ UNCHANGED <<alone, served>>

Commit(r) ==
    /\ txn' = [txn EXCEPT ![r] = Idle]
    /\ alone' = [q \in Requests |-> q = r \/ txn[q] = Idle]
    /\ UNCHANGED served

(* A request that loads and writes no more than a row, in one step.         *)
Serve(r) ==
    /\ txn[r] = Idle /\ served < MaxServed
    /\ served' = served + 1
    /\ alone' = [q \in Requests |-> txn[q] = Idle]
    /\ UNCHANGED txn

(* A row is written, inserted if it is not there.                           *)
Put(rows, k, row) == [i \in DOMAIN rows \cup {k} |-> IF i = k THEN row ELSE rows[i]]

(* Rows are written, those of a function.                                   *)
PutAll(rows, new) ==
    [i \in DOMAIN rows \cup DOMAIN new |-> IF i \in DOMAIN new THEN new[i] ELSE rows[i]]

(* Refused with a 4xx, failed or crashed: rolled back.                      *)
Rollback(r) ==
    /\ txn[r] # Idle
    /\ txn' = [txn EXCEPT ![r] = Idle]
    /\ alone' = [alone EXCEPT ![r] = TRUE]
    /\ UNCHANGED served

Others(r, op) == \E q \in Requests \ {r} : Doing(q, op)
=============================================================================
