--------------------------- MODULE WorkspaceProofs --------------------------
(***************************************************************************)
(* Proofs about the parts of a workspace that are request transactions of  *)
(* Transactions: links mailed to an address, shared documents and files,   *)
(* the roadmap and the dashboard's briefing, onboarding, the journal and   *)
(* the academy - for any number of requests at once and any number served. *)
(***************************************************************************)
EXTENDS Dashboard, Documents, Accounts, Onboarding, Journal, Learning, Feed,
        FiniteSetTheorems, SequenceTheorems, WellFoundedInduction, TLAPS

(* Every request has its place in the transaction table.                    *)
Table == txn = [r \in Requests |-> txn[r]] /\ served \in Nat

(* The operators of Transactions change the table at one request only.      *)
LEMMA TableStep ==
  ASSUME Table, NEW r \in Requests, NEW t,
         Begin(r, t) \/ Go(r, t) \/ Commit(r) \/ Serve(r) \/ Rollback(r)
  PROVE  /\ Table' /\ served' >= served
         /\ \A q \in Requests \ {r} : txn'[q] = txn[q]
  BY DEF Table, Begin, Go, Commit, Serve, Rollback

-----------------------------------------------------------------------------
(* Links mailed to an address (Accounts).                                   *)

Asking(r) == txn[r].op \in {"link", "voiding", "linked"}
Voiding(r) == txn[r].op \in {"voiding", "linked"}
Holding(r) == txn[r].op \in {"claimed", "linked"}

(* Types of what the account proofs look at, transactions included.         *)
AccountShape ==
    /\ Table
    /\ account = NoAccount \/ account \in Account
    /\ issued \in Nat /\ mailed \subseteq 1..issued
    /\ authTokens = [t \in DOMAIN authTokens |-> authTokens[t]]
    /\ DOMAIN authTokens \subseteq mailed
    /\ account = NoAccount => DOMAIN authTokens = {}
    /\ \A t \in DOMAIN authTokens : authTokens[t] \in AuthToken
    /\ uses \in Seq(Nat)
    /\ \A r \in Requests :
         /\ txn[r].op = "login" =>
              account # NoAccount /\ txn[r].loaded \in Account /\ txn[r].ok \in BOOLEAN
         /\ txn[r].op = "click" => \E t \in mailed : txn[r].tokens = {t}

(* A claimed link is live, a request that makes a new one holds only links  *)
(* of its purpose that are live, and no link is held twice.                 *)
HeldAreLive ==
    /\ \A r \in Requests : txn[r].op = "claimed" =>
         \E t \in DOMAIN authTokens : txn[r].tokens = {t} /\ authTokens[t].state = "live"
    /\ \A r \in Requests : txn[r].op = "linked" => txn[r].tokens \subseteq Live(txn[r].purpose)
    /\ \A q, r \in Requests : q # r /\ Holding(q) /\ Holding(r) =>
         txn[q].tokens \cap txn[r].tokens = {}

(* The link a request is about to store is mailed, and no other is stored   *)
(* under its number.                                                        *)
NewIsNew ==
    /\ \A r \in Requests : txn[r].op = "linked" => txn[r].new \in mailed \ DOMAIN authTokens
    /\ \A q, r \in Requests : q # r /\ txn[q].op = "linked" /\ txn[r].op = "linked" =>
         txn[q].new # txn[r].new

(* What is live of the links that were there when a request began is among  *)
(* those that its UPDATE has found, and stays among them.                   *)
FoundWhatWasThere ==
    \A r \in Requests : Asking(r) =>
      /\ txn[r].purpose \in Purposes /\ txn[r].older \subseteq DOMAIN authTokens
      /\ Voiding(r) => \A u \in txn[r].older : u \in Live(txn[r].purpose) => u \in txn[r].tokens

(* What let a request in is consumed, once.                                 *)
UsedUp ==
    /\ \A i, j \in 1..Len(uses) : uses[i] = uses[j] => i = j
    /\ \A i \in 1..Len(uses) :
         uses[i] \in DOMAIN authTokens /\ authTokens[uses[i]].state = "consumed"

(* A stored link makes void what it found.                                  *)
Superseded ==
    /\ DOMAIN older = DOMAIN authTokens
    /\ \A t \in DOMAIN authTokens : \A u \in older[t] :
         /\ u \in DOMAIN authTokens
         /\ authTokens[u].purpose = authTokens[t].purpose => authTokens[u].state # "live"

AccountInv ==
    AccountShape /\ HeldAreLive /\ NewIsNew /\ FoundWhatWasThere /\ UsedUp /\ Superseded

(* What a request that is not held by r holds is in HeldTokens.             *)
LEMMA HeldTokensOf ==
  ASSUME NEW r \in Requests, Holding(r)
  PROVE  txn[r].tokens \subseteq HeldTokens
  BY DEF HeldTokens, Holding

(* A step of one request that neither holds nor asks for a link afterwards, *)
(* and writes no link, keeps the invariant.                                 *)
LEMMA AccountKept ==
  ASSUME AccountInv, Table', NEW r \in Requests,
         \A q \in Requests \ {r} : txn'[q] = txn[q],
         txn'[r].op \notin {"link", "voiding", "linked", "claimed"},
         txn'[r].op = "login" =>
           account # NoAccount /\ txn'[r].loaded \in Account /\ txn'[r].ok \in BOOLEAN,
         txn'[r].op = "click" => \E t \in mailed : txn'[r].tokens = {t},
         UNCHANGED <<authTokens, issued, mailed, uses, older>>,
         account' = NoAccount <=> account = NoAccount,
         account' = NoAccount \/ account' \in Account
  PROVE  AccountInv'
<1> USE DEF AccountInv
<1>1. AccountShape'
  BY DEF AccountShape
<1>2. HeldAreLive' /\ Superseded'
  BY DEF HeldAreLive, Holding, Live, Superseded
<1>3. NewIsNew' /\ UsedUp'
  BY DEF NewIsNew, UsedUp
<1>4. FoundWhatWasThere'
  BY DEF FoundWhatWasThere, Asking, Voiding, Live
<1> QED
  BY <1>1, <1>2, <1>3, <1>4

(* The row of an account, which a login or a lockout writes, is still one.  *)
LEMMA AccountRows ==
  ASSUME account \in Account, NEW was \in Account, NEW ok \in BOOLEAN
  PROVE  /\ NoAccount \notin Account
         /\ [account EXCEPT !.status = "active"] \in Account
         /\ [account EXCEPT !.locked = "past"] \in Account
         /\ (IF ok THEN LoggedIn(was) ELSE LoginFailed(was)) \in Account
         /\ \A is \in Account :
              [account EXCEPT !.fails = IF is.fails = was.fails THEN @ ELSE is.fails,
                              !.locked = IF is.locked = was.locked THEN @ ELSE is.locked] \in Account
<1>1. NoAccount \notin Account
  BY DEF Account, NoAccount
<1> DEFINE fewer == 0..LOGIN_MAX_FAILS - 1
<1>0. 0 \in fewer /\ \A n \in fewer : n + 1 >= LOGIN_MAX_FAILS \/ n + 1 \in fewer
  BY LockoutAssumption
<1>6. Account = [status : {"pending_verification", "active"}, fails : fewer,
                 locked : {"no", "until", "past"}]
  BY DEF Account
<1> HIDE DEF fewer
<1>2. LoggedIn(was) \in Account
  BY <1>0, <1>6 DEF LoggedIn
<1>3. LoginFailed(was) \in Account
  <2>1. CASE was.fails + 1 >= LOGIN_MAX_FAILS
    BY <1>0, <1>6, <2>1 DEF LoginFailed
  <2>2. CASE ~(was.fails + 1 >= LOGIN_MAX_FAILS)
    <3>1. was.fails + 1 \in fewer
      BY <1>0, <1>6, <2>2
    <3> QED
      BY <1>6, <2>2, <3>1 DEF LoginFailed
  <2> QED
    BY <2>1, <2>2
<1>4. /\ [account EXCEPT !.status = "active"] \in Account
      /\ [account EXCEPT !.locked = "past"] \in Account
  BY DEF Account
<1>5. ASSUME NEW is \in Account
      PROVE [account EXCEPT !.fails = IF is.fails = was.fails THEN @ ELSE is.fails,
                            !.locked = IF is.locked = was.locked THEN @ ELSE is.locked] \in Account
  BY <1>5 DEF Account
<1> QED
  BY <1>1, <1>2, <1>3, <1>4, <1>5

(* Steps that begin without a link, log in or are rolled back.              *)
LEMMA PlainAccountStep ==
  ASSUME AccountInv, NEW r \in Requests,
         \/ signup(r) \/ Click(r) \/ login(r) \/ CommitLogin(r)
         \/ Rollback(r) /\ UNCHANGED accountVars
  PROVE  AccountInv'
<1> USE DEF AccountInv
<1>1. CASE signup(r)
  BY <1>1, TableStep, AccountKept DEF signup, Begin, accountVars, AccountShape, Table
<1>2. CASE Click(r)
  <2> PICK t \in mailed : Begin(r, [op |-> "click", tokens |-> {t}])
    BY <1>2 DEF Click
  <2>1. txn'[r] = [op |-> "click", tokens |-> {t}]
    BY DEF Begin, AccountShape, Table
  <2>2. Table' /\ \A q \in Requests \ {r} : txn'[q] = txn[q]
    BY TableStep DEF AccountShape
  <2> QED
    <3>1. txn'[r].op = "click" /\ \E k \in mailed : txn'[r].tokens = {k}
      BY <2>1
    <3>2. UNCHANGED <<authTokens, issued, mailed, uses, older, account>>
      BY <1>2 DEF Click, accountVars
    <3>3. account = NoAccount \/ account \in Account
      BY DEF AccountShape
    <3> QED
      BY <2>2, <3>1, <3>2, <3>3, AccountKept
<1>3. CASE login(r)
  <2> PICK ok \in BOOLEAN : Begin(r, [op |-> "login", ok |-> ok, loaded |-> account])
    BY <1>3 DEF login
  <2>1. txn'[r] = [op |-> "login", ok |-> ok, loaded |-> account]
    BY DEF Begin, AccountShape, Table
  <2>2. Table' /\ \A q \in Requests \ {r} : txn'[q] = txn[q]
    BY TableStep DEF AccountShape
  <2>3. txn'[r].op = "login" /\ txn'[r].loaded = account /\ txn'[r].ok \in BOOLEAN
    BY <2>1
  <2>4. account # NoAccount /\ UNCHANGED <<authTokens, issued, mailed, uses, older, account>>
    BY <1>3 DEF login, accountVars
  <2>5. account \in Account
    BY <2>4 DEF AccountShape
  <2> QED
    BY <2>2, <2>3, <2>4, <2>5, AccountKept
<1>4. CASE CommitLogin(r)
  <2> DEFINE was == txn[r].loaded
             is == IF txn[r].ok THEN LoggedIn(was) ELSE LoginFailed(was)
             new == [account EXCEPT !.fails = IF is.fails = was.fails THEN @ ELSE is.fails,
                                    !.locked = IF is.locked = was.locked THEN @ ELSE is.locked]
  <2>1. /\ txn[r].op = "login" /\ account' = new /\ Commit(r)
        /\ UNCHANGED <<authTokens, issued, mailed, uses, older>>
    BY <1>4 DEF CommitLogin, Doing
  <2>2. was \in Account /\ txn[r].ok \in BOOLEAN
    BY <2>1 DEF AccountShape
  <2>3. account \in Account /\ account # NoAccount
    BY <2>1 DEF AccountShape
  <2>4. is \in Account
    BY <2>2, <2>3, AccountRows
  <2>5. new \in Account /\ NoAccount \notin Account
    <3> HIDE DEF is, was
    <3> QED
      BY <2>2, <2>3, <2>4, AccountRows
  <2>6. txn'[r] = Idle /\ Table' /\ \A q \in Requests \ {r} : txn'[q] = txn[q]
    BY <2>1, TableStep DEF AccountShape, Commit, Table
  <2> HIDE DEF new
  <2>7. txn'[r].op = "idle" /\ account' \in Account /\ account' # NoAccount
    BY <2>1, <2>5, <2>6 DEF Idle
  <2> QED
    BY <2>1, <2>3, <2>6, <2>7, AccountKept
<1>5. CASE Rollback(r) /\ UNCHANGED accountVars
  <2>1. UNCHANGED <<account, authTokens, issued, mailed, uses, older>>
    BY <1>5 DEF accountVars
  <2>2. txn'[r].op = "idle"
    BY <1>5 DEF Rollback, Idle, AccountShape, Table
  <2>3. Table' /\ \A q \in Requests \ {r} : txn'[q] = txn[q]
    BY <1>5, TableStep DEF AccountShape
  <2>4. account = NoAccount \/ account \in Account
    BY DEF AccountShape
  <2> QED
    BY <2>1, <2>2, <2>3, <2>4, AccountKept
<1> QED
  BY <1>1, <1>2, <1>3, <1>4, <1>5

(* A request asks for a link: Redis lets it through, or its UPDATE starts.  *)
LEMMA AskStep ==
  ASSUME AccountInv, Table', NEW r \in Requests,
         \A q \in Requests \ {r} : txn'[q] = txn[q],
         NEW t, txn'[r] = t, t.op \in {"link", "voiding"}, t.purpose \in Purposes,
         t.older \subseteq DOMAIN authTokens,
         t.op = "voiding" => t.tokens = Live(t.purpose),
         UNCHANGED <<account, authTokens, issued, mailed, uses, older>>
  PROVE  AccountInv'
<1> USE DEF AccountInv
<1>1. AccountShape'
  BY DEF AccountShape
<1>2. HeldAreLive' /\ Superseded'
  BY DEF HeldAreLive, Holding, Live, Superseded
<1>3. NewIsNew' /\ UsedUp'
  BY DEF NewIsNew, UsedUp
<1>4. FoundWhatWasThere'
  BY DEF FoundWhatWasThere, Asking, Voiding, Live
<1> QED
  BY <1>1, <1>2, <1>3, <1>4

(* Redis lets a request through, in whatever spelling.                      *)
LEMMA LetThroughStep ==
  ASSUME AccountInv, NEW r \in Requests, NEW p \in Purposes, NEW found \in BOOLEAN,
         LetThrough(r, p, found)
  PROVE  AccountInv'
<1> DEFINE t == [op |-> IF found THEN "link" ELSE "nobody", purpose |-> p,
                 older |-> DOMAIN authTokens]
<1>1. Begin(r, t) /\ UNCHANGED <<account, authTokens, issued, mailed, uses, older>>
  BY DEF LetThrough
<1>2. txn'[r] = t
  BY <1>1 DEF Begin, AccountInv, AccountShape, Table
<1>3. Table' /\ \A q \in Requests \ {r} : txn'[q] = txn[q]
  BY <1>1, TableStep DEF AccountInv, AccountShape
<1>4. /\ t.op = (IF found THEN "link" ELSE "nobody")
      /\ t.purpose = p /\ t.older = DOMAIN authTokens
  OBVIOUS
<1> HIDE DEF t
<1>5. CASE found
  BY <1>1, <1>2, <1>3, <1>4, <1>5, AskStep
<1>6. CASE ~found
  BY <1>1, <1>2, <1>3, <1>4, <1>6, AccountKept DEF AccountInv, AccountShape
<1> QED
  BY <1>5, <1>6

(* The UPDATE that makes the older links void starts.                       *)
LEMMA VoidStep ==
  ASSUME AccountInv, NEW r \in Requests, invalidate_unconsumed_tokens(r)
  PROVE  AccountInv'
<1> PICK u : u = txn[r]
  OBVIOUS
<1> DEFINE t == [op |-> "voiding", purpose |-> u.purpose, tokens |-> Live(u.purpose),
                 older |-> u.older]
<1>1. /\ u.op = "link" /\ Go(r, t)
      /\ UNCHANGED <<account, authTokens, issued, mailed, uses, older>>
  BY DEF invalidate_unconsumed_tokens, Doing, accountVars
<1>2. txn'[r] = t /\ Table' /\ \A q \in Requests \ {r} : txn'[q] = txn[q]
  BY <1>1, TableStep DEF Go, AccountInv, AccountShape, Table
<1>3. u.purpose \in Purposes /\ u.older \subseteq DOMAIN authTokens
  BY <1>1 DEF AccountInv, FoundWhatWasThere, Asking
<1>4. t.op = "voiding" /\ t.purpose = u.purpose /\ t.tokens = Live(u.purpose) /\ t.older = u.older
  OBVIOUS
<1> HIDE DEF t
<1> QED
  BY <1>1, <1>2, <1>3, <1>4, AskStep

(* A link is made and mailed, and live ones of its purpose are held: those  *)
(* of the ones that were there when it was asked for at least.              *)
LEMMA LinkMade ==
  ASSUME AccountInv, NEW r \in Requests, NEW p \in Purposes,
         NEW void, void \subseteq Live(p), void \cap HeldTokens = {},
         NEW before, before \subseteq DOMAIN authTokens, before \cap Live(p) \subseteq void,
         issue_auth_token(r, p, void, before),
         UNCHANGED <<account, authTokens, uses, older>>,
         ~Holding(r)
  PROVE  AccountInv'
<1> USE DEF AccountInv
<1> DEFINE t == [op |-> "linked", purpose |-> p, tokens |-> void, older |-> before, new |-> issued']
<1>1. issued' = issued + 1 /\ mailed' = mailed \cup {issued'} /\ Go(r, t)
  BY DEF issue_auth_token
<1>2. txn'[r] = t /\ Table' /\ \A q \in Requests \ {r} : txn'[q] = txn[q]
  BY <1>1, TableStep DEF Go, AccountShape, Table
<1>3. t.op = "linked" /\ t.purpose = p /\ t.tokens = void /\ t.older = before /\ t.new = issued'
  OBVIOUS
<1> HIDE DEF t
<1>4. /\ issued \in Nat /\ issued' = issued + 1 /\ issued' \in Nat
      /\ \A k \in mailed : k \in Nat /\ k < issued' /\ k \in mailed'
      /\ mailed' \subseteq 1..issued' /\ issued' \in mailed'
  BY <1>1 DEF AccountShape
<1>5. AccountShape'
  BY <1>2, <1>3, <1>4 DEF AccountShape
<1>6. \A q \in Requests \ {r} : Holding(q) => txn[q].tokens \cap void = {}
  BY HeldTokensOf
<1>7. HeldAreLive'
  BY <1>2, <1>3, <1>6 DEF HeldAreLive, Holding, Live
<1>8. NewIsNew'
  <2>1. \A u \in DOMAIN authTokens : u \in mailed
    BY DEF AccountShape
  <2> QED
    BY <1>2, <1>3, <1>4, <2>1 DEF NewIsNew
<1>9. FoundWhatWasThere'
  BY <1>2, <1>3 DEF FoundWhatWasThere, Asking, Voiding, Live
<1>10. UsedUp' /\ Superseded'
  BY DEF UsedUp, Superseded
<1> QED
  BY <1>5, <1>7, <1>8, <1>9, <1>10

(* The user is inserted with the first link, or an old one gets a new link. *)
LEMMA LinkStep ==
  ASSUME AccountInv, NEW r \in Requests, InsertUser(r) \/ _send_verification(r)
  PROVE  AccountInv'
<1>1. CASE InsertUser(r)
  <2>1. /\ txn[r].op = "signup" /\ issue_auth_token(r, "email_verification", {}, {})
        /\ UNCHANGED <<account, authTokens, uses, older>>
    BY <1>1 DEF InsertUser, Doing
  <2> QED
    BY <2>1, LinkMade DEF Holding, Purposes
<1>2. CASE _send_verification(r)
  <2> DEFINE p == txn[r].purpose
             void == txn[r].tokens \cap Live(p)
             before == txn[r].older
  <2>1. /\ txn[r].op = "voiding" /\ void \cap HeldTokens = {} /\ void \subseteq Live(p)
        /\ issue_auth_token(r, p, void, before)
        /\ UNCHANGED <<account, authTokens, uses, older>>
    BY <1>2 DEF _send_verification, Doing
  <2>2. p \in Purposes /\ before \subseteq DOMAIN authTokens /\ before \cap Live(p) \subseteq void
    BY <2>1 DEF AccountInv, FoundWhatWasThere, Asking, Voiding
  <2>3. ~Holding(r)
    BY <2>1 DEF Holding
  <2> HIDE DEF p, void, before
  <2> QED
    BY <2>1, <2>2, <2>3, LinkMade
<1> QED
  BY <1>1, <1>2

(* The new link is there and the older ones of its purpose are void.        *)
LEMMA CommitLinkStep ==
  ASSUME AccountInv, NEW r \in Requests, CommitLink(r)
  PROVE  AccountInv'
<1> USE DEF AccountInv
<1> PICK t : t = txn[r]
  OBVIOUS
<1> DEFINE p == t.purpose
           k == t.new
           voided == [i \in DOMAIN authTokens |->
                        IF i \in t.tokens THEN [authTokens[i] EXCEPT !.state = "consumed"]
                                          ELSE authTokens[i]]
           link == [purpose |-> p, state |-> "live"]
           first == [status |-> "pending_verification", fails |-> 0, locked |-> "no"]
<1>1. /\ t.op = "linked" /\ Commit(r)
      /\ account' = IF account # NoAccount THEN account ELSE first
      /\ authTokens' = Put(voided, k, link) /\ older' = Put(older, k, t.older)
      /\ UNCHANGED <<issued, mailed, uses>>
  BY DEF CommitLink, Doing
<1>2. txn'[r].op = "idle" /\ Table' /\ \A q \in Requests \ {r} : txn'[q] = txn[q]
  BY <1>1, TableStep DEF Commit, AccountShape, Table, Idle
<1>3. /\ t.tokens \subseteq Live(p) /\ k \in mailed \ DOMAIN authTokens /\ p \in Purposes
      /\ t.older \subseteq DOMAIN authTokens
      /\ \A u \in t.older : u \in Live(p) => u \in t.tokens
  BY <1>1 DEF HeldAreLive, NewIsNew, FoundWhatWasThere, Asking, Voiding
<1>4. /\ DOMAIN authTokens' = {k} \cup DOMAIN authTokens /\ authTokens'[k] = link
      /\ \A i \in DOMAIN authTokens : authTokens'[i] = voided[i]
      /\ authTokens' = [i \in DOMAIN authTokens' |-> authTokens'[i]]
  <2>1. DOMAIN voided = DOMAIN authTokens /\ k \notin DOMAIN voided
    BY <1>3
  <2> HIDE DEF voided, link, k
  <2> QED
    BY <1>1, <2>1 DEF Put
<1>5. \A i \in DOMAIN authTokens :
        /\ authTokens'[i].purpose = authTokens[i].purpose
        /\ authTokens'[i].state = IF i \in t.tokens THEN "consumed" ELSE authTokens[i].state
        /\ authTokens'[i] \in AuthToken
  BY <1>4 DEF AccountShape, AuthToken
<1>6. link.purpose = p /\ link.state = "live" /\ link \in AuthToken
  BY <1>3 DEF AuthToken
<1>7. account' # NoAccount /\ account' \in Account
  BY <1>1, LockoutAssumption DEF AccountShape, Account, NoAccount
<1>8. /\ DOMAIN older' = DOMAIN authTokens' /\ older'[k] = t.older
      /\ \A i \in DOMAIN authTokens : older'[i] = older[i]
  <2>1. DOMAIN older = DOMAIN authTokens
    BY DEF Superseded
  <2> HIDE DEF k, voided, link
  <2> QED
    BY <1>1, <1>3, <1>4, <2>1 DEF Put
<1> HIDE DEF voided, link
<1>9. AccountShape'
  <2>1. /\ DOMAIN authTokens' \subseteq mailed'
        /\ \A i \in DOMAIN authTokens' : authTokens'[i] \in AuthToken
    BY <1>1, <1>3, <1>4, <1>5, <1>6 DEF AccountShape
  <2>2. ASSUME NEW q \in Requests
        PROVE  /\ txn'[q].op = "login" => txn'[q].loaded \in Account /\ txn'[q].ok \in BOOLEAN
               /\ txn'[q].op = "click" => \E i \in mailed' : txn'[q].tokens = {i}
    BY <1>1, <1>2 DEF AccountShape
  <2>3. issued' \in Nat /\ mailed' \subseteq 1..issued' /\ uses' \in Seq(Nat)
    BY <1>1 DEF AccountShape
  <2> QED
    BY <1>2, <1>4, <1>7, <2>1, <2>2, <2>3 DEF AccountShape
<1>10. ASSUME NEW o PROVE /\ Live(o) \ t.tokens \subseteq Live(o)'
                         /\ Live(o)' \subseteq {k} \cup (Live(o) \ t.tokens)
  BY <1>3, <1>4, <1>5 DEF Live
<1>11. HeldAreLive'
  <2>1. ASSUME NEW q \in Requests, txn'[q].op = "claimed"
        PROVE \E i \in DOMAIN authTokens' : txn'[q].tokens = {i} /\ authTokens'[i].state = "live"
    <3>1. q # r /\ txn'[q] = txn[q]
      BY <1>2, <2>1
    <3>2. PICK i \in DOMAIN authTokens : txn[q].tokens = {i} /\ authTokens[i].state = "live"
      BY <2>1, <3>1 DEF HeldAreLive
    <3>3. i \notin t.tokens
      BY <1>1, <2>1, <3>1, <3>2 DEF HeldAreLive, Holding
    <3> QED
      BY <1>4, <1>5, <3>1, <3>2, <3>3
  <2>2. ASSUME NEW q \in Requests, txn'[q].op = "linked"
        PROVE (txn[q].tokens \subseteq Live(txn[q].purpose))'
    <3>1. q # r /\ txn'[q] = txn[q]
      BY <1>2, <2>2
    <3> PICK o : o = txn[q].purpose
      OBVIOUS
    <3>2. txn[q].tokens \subseteq Live(o) /\ txn[q].tokens \cap t.tokens = {}
      BY <1>1, <2>2, <3>1 DEF HeldAreLive, Holding
    <3>3. Live(o) \ t.tokens \subseteq Live(o)'
      BY <1>10
    <3>4. txn'[q].tokens \subseteq Live(o)'
      BY <3>1, <3>2, <3>3
    <3> QED
      BY <3>1, <3>4 DEF Live
  <2>3. \A q, s \in Requests : q # s /\ Holding(q)' /\ Holding(s)' =>
          txn'[q].tokens \cap txn'[s].tokens = {}
    BY <1>2 DEF HeldAreLive, Holding
  <2> QED
    BY <2>1, <2>2, <2>3 DEF HeldAreLive
<1>12. NewIsNew'
  BY <1>1, <1>2, <1>4 DEF NewIsNew
<1>13. FoundWhatWasThere'
  <2> SUFFICES ASSUME NEW q \in Requests, Asking(q)'
               PROVE /\ txn'[q].purpose \in Purposes /\ txn'[q].older \subseteq DOMAIN authTokens'
                     /\ Voiding(q)' => \A u \in txn'[q].older :
                          u \in Live(txn[q].purpose)' => u \in txn'[q].tokens
    BY DEF FoundWhatWasThere
  <2>1. q # r /\ txn'[q] = txn[q]
    BY <1>2 DEF Asking
  <2> PICK o : o = txn[q].purpose
    OBVIOUS
  <2>2. /\ o \in Purposes /\ txn[q].older \subseteq DOMAIN authTokens
        /\ Voiding(q) => \A u \in txn[q].older : u \in Live(o) => u \in txn[q].tokens
    BY <2>1 DEF FoundWhatWasThere, Asking
  <2>3. \A u \in txn[q].older : u \in Live(o)' => u \in Live(o)
    BY <1>3, <1>10, <2>2
  <2>4. Voiding(q)' => Voiding(q)
    BY <2>1 DEF Voiding
  <2>5. Voiding(q)' => \A u \in txn'[q].older : u \in Live(o)' => u \in txn'[q].tokens
    BY <2>1, <2>2, <2>3, <2>4
  <2>6. Live(txn[q].purpose)' = Live(o)'
    BY <2>1 DEF Live
  <2> QED
    BY <1>4, <2>1, <2>2, <2>5, <2>6
<1>14. UsedUp'
  BY <1>1, <1>4, <1>5 DEF UsedUp
<1>15. Superseded'
  <2>1. ASSUME NEW i \in DOMAIN authTokens', NEW u \in older'[i]
        PROVE  /\ u \in DOMAIN authTokens'
               /\ authTokens'[u].purpose = authTokens'[i].purpose => authTokens'[u].state # "live"
    <3>1. CASE i = k
      <4>1. u \in t.older /\ u \in DOMAIN authTokens
        BY <1>3, <1>8, <2>1, <3>1
      <4>2. authTokens'[u].purpose = p => authTokens'[u].state # "live"
        BY <1>3, <1>5, <4>1 DEF Live
      <4> QED
        BY <1>4, <1>6, <3>1, <4>1, <4>2
    <3>2. CASE i # k
      <4>1. /\ i \in DOMAIN authTokens /\ u \in older[i] /\ u \in DOMAIN authTokens
            /\ authTokens[u].purpose = authTokens[i].purpose => authTokens[u].state # "live"
        BY <1>4, <1>8, <2>1, <3>2 DEF Superseded
      <4> QED
        BY <1>4, <1>5, <4>1
    <3> QED
      BY <3>1, <3>2
  <2> QED
    BY <1>8, <2>1 DEF Superseded
<1> QED
  BY <1>9, <1>11, <1>12, <1>13, <1>14, <1>15

(* A click claims its link if that is live and nobody's.                    *)
LEMMA ClaimStep ==
  ASSUME AccountInv, NEW r \in Requests, consume_auth_token(r)
  PROVE  AccountInv'
<1> USE DEF AccountInv
<1>1. PICK t \in mailed : txn[r].tokens = {t}
  BY DEF consume_auth_token, Doing, AccountShape
<1>2. /\ txn[r].op = "click" /\ t \notin HeldTokens /\ t \in DOMAIN authTokens
      /\ authTokens[t].state = "live"
      /\ Go(r, [op |-> "claimed", tokens |-> txn[r].tokens])
      /\ UNCHANGED <<account, authTokens, issued, mailed, uses, older>>
  BY <1>1 DEF consume_auth_token, Doing, Claimable, accountVars
<1>3. /\ txn'[r].op = "claimed" /\ txn'[r].tokens = {t}
      /\ Table' /\ \A q \in Requests \ {r} : txn'[q] = txn[q]
  BY <1>1, <1>2, TableStep DEF Go, AccountShape, Table
<1>4. AccountShape'
  BY <1>2, <1>3 DEF AccountShape
<1>5. \A q \in Requests \ {r} : Holding(q) => t \notin txn[q].tokens
  BY <1>2, HeldTokensOf
<1>6. HeldAreLive'
  BY <1>2, <1>3, <1>5 DEF HeldAreLive, Holding, Live
<1>7. NewIsNew' /\ FoundWhatWasThere'
  BY <1>2, <1>3 DEF NewIsNew, FoundWhatWasThere, Asking, Voiding, Live
<1>8. UsedUp' /\ Superseded'
  BY <1>2 DEF UsedUp, Superseded
<1> QED
  BY <1>4, <1>6, <1>7, <1>8

(* A live link that nobody holds any more lets its request in or expires.   *)
LEMMA LinkSpent ==
  ASSUME AccountInv, Table',
         NEW t \in DOMAIN authTokens, authTokens[t].state = "live",
         NEW s \in {"consumed", "expired"},
         authTokens' = [authTokens EXCEPT ![t].state = s],
         uses' = uses \/ (s = "consumed" /\ uses' = Append(uses, t)),
         \A q \in Requests : txn'[q].op = "idle" \/ txn'[q] = txn[q],
         \A q \in Requests : txn'[q].op \in {"claimed", "linked"} => t \notin txn[q].tokens,
         UNCHANGED <<issued, mailed, older>>,
         account \in Account => account' \in Account, account = NoAccount => account' = account
  PROVE  AccountInv'
<1> USE DEF AccountInv
<1>1. /\ DOMAIN authTokens' = DOMAIN authTokens
      /\ authTokens' = [i \in DOMAIN authTokens' |-> authTokens'[i]]
      /\ \A i \in DOMAIN authTokens :
           /\ authTokens'[i] \in AuthToken
           /\ authTokens'[i].purpose = authTokens[i].purpose
           /\ authTokens'[i].state = IF i = t THEN s ELSE authTokens[i].state
  BY DEF AccountShape, AuthToken
<1>2. account \in Account /\ account' \in Account /\ account # NoAccount /\ account' # NoAccount
  <2>1. account # NoAccount /\ account \in Account
    BY DEF AccountShape
  <2> QED
    BY <2>1 DEF Account, NoAccount
<1>3. t \in Nat /\ uses \in Seq(Nat) /\ uses' \in Seq(Nat)
  <2>1. t \in mailed /\ mailed \subseteq 1..issued /\ issued \in Nat /\ uses \in Seq(Nat)
    BY DEF AccountShape
  <2>2. t \in Nat
    BY <2>1
  <2> QED
    BY <2>1, <2>2
<1>4. AccountShape'
  <2>1. ASSUME NEW q \in Requests
        PROVE /\ txn'[q].op = "login" => txn'[q].loaded \in Account /\ txn'[q].ok \in BOOLEAN
              /\ txn'[q].op = "click" => \E i \in mailed' : txn'[q].tokens = {i}
    BY DEF AccountShape
  <2> QED
    BY <1>1, <1>2, <1>3, <2>1 DEF AccountShape
<1>5. ASSUME NEW o PROVE Live(o)' = Live(o) \ {t}
  BY <1>1 DEF Live
<1>6. HeldAreLive'
  <2>1. ASSUME NEW q \in Requests, txn'[q].op = "claimed"
        PROVE  \E i \in DOMAIN authTokens' : txn'[q].tokens = {i} /\ authTokens'[i].state = "live"
    BY <1>1, <2>1 DEF HeldAreLive
  <2>2. ASSUME NEW q \in Requests, txn'[q].op = "linked"
        PROVE  (txn[q].tokens \subseteq Live(txn[q].purpose))'
    <3> PICK o : o = txn[q].purpose
      OBVIOUS
    <3>1. txn'[q] = txn[q] /\ txn[q].tokens \subseteq Live(o) /\ t \notin txn[q].tokens
      BY <2>2 DEF HeldAreLive
    <3>2. Live(o)' = Live(o) \ {t}
      BY <1>5
    <3> QED
      BY <3>1, <3>2 DEF Live
  <2>3. \A q, r \in Requests : q # r /\ Holding(q)' /\ Holding(r)' =>
          txn'[q].tokens \cap txn'[r].tokens = {}
    BY DEF HeldAreLive, Holding
  <2> QED
    BY <2>1, <2>2, <2>3 DEF HeldAreLive
<1>7. NewIsNew'
  BY <1>1 DEF NewIsNew
<1>8. FoundWhatWasThere'
  BY <1>1 DEF FoundWhatWasThere, Asking, Voiding, Live
<1>9. UsedUp'
  <2>1. CASE uses' = uses
    BY <1>1, <2>1 DEF UsedUp
  <2>2. CASE s = "consumed" /\ uses' = Append(uses, t)
    <3>1. /\ Len(uses') = Len(uses) + 1 /\ Len(uses) \in Nat /\ uses'[Len(uses) + 1] = t
          /\ \A i \in 1..Len(uses) : uses'[i] = uses[i]
      BY <1>3, <2>2
    <3>2. \A i \in 1..Len(uses') : i \in 1..Len(uses) \/ i = Len(uses) + 1
      BY <3>1
    <3>3. \A i \in 1..Len(uses) : uses[i] # t
      BY DEF UsedUp
    <3>4. \A i, j \in 1..Len(uses') : uses'[i] = uses'[j] => i = j
      BY <3>1, <3>2, <3>3 DEF UsedUp
    <3>5. \A i \in 1..Len(uses') :
            uses'[i] \in DOMAIN authTokens' /\ authTokens'[uses'[i]].state = "consumed"
      BY <1>1, <2>2, <3>1, <3>2, <3>3 DEF UsedUp
    <3> QED
      BY <3>4, <3>5 DEF UsedUp
  <2> QED
    BY <2>1, <2>2
<1>10. Superseded'
  BY <1>1 DEF Superseded
<1> QED
  BY <1>4, <1>6, <1>7, <1>8, <1>9, <1>10

(* The commit of a verification or a reset consumes its link.               *)
LEMMA UseStep ==
  ASSUME AccountInv, NEW r \in Requests, verify(r) \/ reset(r)
  PROVE  AccountInv'
<1> USE DEF AccountInv
<1>1. txn[r].op = "claimed" /\ Commit(r)
  BY DEF verify, reset, CommitUse, Doing
<1> PICK t \in DOMAIN authTokens : txn[r].tokens = {t} /\ authTokens[t].state = "live"
  BY <1>1 DEF HeldAreLive
<1>2. (CHOOSE i \in txn[r].tokens : TRUE) = t
  OBVIOUS
<1>3. /\ authTokens' = [authTokens EXCEPT ![t].state = "consumed"]
      /\ uses' = Append(uses, t)
      /\ UNCHANGED <<issued, mailed, older>>
      /\ account' = account \/ account' = [account EXCEPT !.status = "active"]
  BY <1>2 DEF verify, reset, CommitUse
<1>4. txn'[r].op = "idle" /\ Table' /\ \A q \in Requests \ {r} : txn'[q] = txn[q]
  BY <1>1, TableStep DEF Commit, AccountShape, Table, Idle
<1>5. \A q \in Requests : txn'[q].op \in {"claimed", "linked"} => t \notin txn[q].tokens
  BY <1>1, <1>4 DEF HeldAreLive, Holding
<1>6. account \in Account /\ account' \in Account /\ account # NoAccount
  BY <1>3, AccountRows DEF AccountShape
<1> QED
  BY <1>3, <1>4, <1>5, <1>6, LinkSpent

(* Time passes: a cooldown, a link or a lockout is over.                    *)
LEMMA TimeStep ==
  ASSUME AccountInv, CooldownOver \/ LinkExpired \/ LockoutOver
  PROVE  AccountInv'
<1> USE DEF AccountInv
<1>1. CASE CooldownOver
  <2>1. UNCHANGED <<account, authTokens, issued, mailed, uses, older, txn, served>>
    BY <1>1 DEF CooldownOver, txnVars
  <2>2. AccountShape' /\ UsedUp' /\ Superseded'
    BY <2>1 DEF AccountShape, Table, UsedUp, Superseded
  <2>3. HeldAreLive' /\ NewIsNew'
    BY <2>1 DEF HeldAreLive, Holding, Live, NewIsNew
  <2>4. FoundWhatWasThere'
    BY <2>1 DEF FoundWhatWasThere, Asking, Voiding, Live
  <2> QED
    BY <2>2, <2>3, <2>4
<1>2. CASE LinkExpired
  <2>1. PICK t \in DOMAIN authTokens :
          /\ authTokens[t].state = "live" /\ t \notin HeldTokens
          /\ authTokens' = [authTokens EXCEPT ![t].state = "expired"]
    BY <1>2 DEF LinkExpired
  <2>2. UNCHANGED <<account, issued, mailed, uses, older, txn, served>>
    BY <1>2 DEF LinkExpired, txnVars
  <2>3. \A q \in Requests : txn'[q].op \in {"claimed", "linked"} => t \notin txn[q].tokens
    BY <2>1, <2>2 DEF HeldTokens
  <2>4. Table'
    BY <2>2 DEF AccountShape, Table
  <2> QED
    BY <2>1, <2>2, <2>3, <2>4, LinkSpent
<1>3. CASE LockoutOver
  <2>1. /\ account # NoAccount /\ account' = [account EXCEPT !.locked = "past"]
        /\ UNCHANGED <<authTokens, issued, mailed, uses, older, txn, served>>
    BY <1>3 DEF LockoutOver, txnVars
  <2>2. account \in Account /\ account' \in Account /\ account' # NoAccount
    <3>1. account \in Account
      BY <2>1 DEF AccountShape
    <3> QED
      BY <2>1, <3>1, AccountRows
  <2>3. AccountShape'
    BY <2>1, <2>2 DEF AccountShape, Table
  <2>4. HeldAreLive' /\ NewIsNew'
    BY <2>1 DEF HeldAreLive, Holding, Live, NewIsNew
  <2>5. FoundWhatWasThere'
    BY <2>1 DEF FoundWhatWasThere, Asking, Voiding, Live
  <2>6. UsedUp' /\ Superseded'
    BY <2>1 DEF UsedUp, Superseded
  <2> QED
    BY <2>3, <2>4, <2>5, <2>6
<1> QED
  BY <1>1, <1>2, <1>3

(* The invariant of the links mailed to an address.                         *)
LEMMA AccountInvariant == AccountSpec => []AccountInv
<1> USE DEF AccountInv
<1>1. TransactionsInit /\ AccountInit => AccountInv
  BY DEF TransactionsInit, AccountInit, Idle, AccountShape, Table, HeldAreLive, Holding, Live,
         NewIsNew, FoundWhatWasThere, Asking, Voiding, UsedUp, Superseded
<1>2. AccountInv /\ [AccountNext]_<<accountVars, txnVars>> => AccountInv'
  <2> SUFFICES ASSUME AccountInv, [AccountNext]_<<accountVars, txnVars>> PROVE AccountInv'
    OBVIOUS
  <2>1. ASSUME NEW r \in Requests, AccountStep(r) PROVE AccountInv'
    <3>1. CASE signup(r) \/ Click(r) \/ login(r) \/ CommitLogin(r)
      BY <3>1, PlainAccountStep
    <3>2. CASE resend(r) \/ forgot(r)
      <4>1. /\ "email_verification" \in Purposes /\ "password_reset" \in Purposes
            /\ (account.status = "pending_verification") \in BOOLEAN
            /\ (account # NoAccount) \in BOOLEAN
        BY DEF Purposes
      <4> QED
        BY <3>2, <4>1, LetThroughStep DEF resend, forgot
    <3>3. CASE InsertUser(r) \/ _send_verification(r)
      BY <3>3, LinkStep
    <3>4. CASE invalidate_unconsumed_tokens(r)
      BY <3>4, VoidStep
    <3>5. CASE CommitLink(r)
      BY <3>5, CommitLinkStep
    <3>6. CASE consume_auth_token(r)
      BY <3>6, ClaimStep
    <3>7. CASE verify(r) \/ reset(r)
      BY <3>7, UseStep
    <3> QED
      BY <2>1, <3>1, <3>2, <3>3, <3>4, <3>5, <3>6, <3>7 DEF AccountStep
  <2>2. ASSUME NEW r \in Requests, Rollback(r) /\ UNCHANGED accountVars PROVE AccountInv'
    BY <2>2, PlainAccountStep
  <2>3. CASE UNCHANGED <<accountVars, txnVars>>
    <3>1. UNCHANGED <<account, authTokens, issued, mailed, uses, older, txn, served>>
      BY <2>3 DEF accountVars, txnVars
    <3>2. AccountShape' /\ UsedUp' /\ Superseded'
      BY <3>1 DEF AccountShape, Table, UsedUp, Superseded
    <3>3. HeldAreLive' /\ NewIsNew'
      BY <3>1 DEF HeldAreLive, Holding, Live, NewIsNew
    <3>4. FoundWhatWasThere'
      BY <3>1 DEF FoundWhatWasThere, Asking, Voiding, Live
    <3> QED
      BY <3>2, <3>3, <3>4
  <2> QED
    BY <2>1, <2>2, <2>3, TimeStep DEF AccountNext
<1> QED
  BY <1>1, <1>2, PTL DEF AccountSpec

(* However many requests ask for links and click them side by side, a link  *)
(* lets one request in and is then good for none.                           *)
THEOREM LinksLetInOnce == AccountSpec => []LinksWorkOnce
<1>1. AccountInv => LinksWorkOnce
  <2> SUFFICES ASSUME AccountInv PROVE LinksWorkOnce
    OBVIOUS
  <2>1. uses \in Seq(Nat) /\ UsedUp
    BY DEF AccountInv, AccountShape
  <2>2. DOMAIN uses = 1..Len(uses)
    BY <2>1
  <2>3. IsInjective(uses)
    BY <2>1, <2>2 DEF UsedUp, IsInjective
  <2>4. \A t \in ToSet(uses) : authTokens[t].state = "consumed"
    BY <2>1, <2>2 DEF UsedUp, ToSet
  <2> QED
    BY <2>3, <2>4 DEF LinksWorkOnce, Live
<1> QED
  BY <1>1, AccountInvariant, PTL

(* A new link leaves none of its purpose in force that was stored when it   *)
(* was asked for: not one that was claimed or expiring meanwhile, nor one   *)
(* that another request held and gave back.                                 *)
THEOREM OldLinksAreVoid == AccountSpec => []OldLinksVoid
<1>1. AccountInv => OldLinksVoid
  BY DEF AccountInv, Superseded, OldLinksVoid
<1> QED
  BY <1>1, AccountInvariant, PTL

(* Whatever was asked for and clicked, every link stored was mailed, and an *)
(* account counts fewer failed logins than lock it.                         *)
THEOREM AccountTypes == AccountSpec => []AccountTypeOK
<1>1. AccountInv => AccountTypeOK
  BY DEF AccountInv, AccountShape, AccountTypeOK
<1>. QED
  BY <1>1, AccountInvariant, PTL

-----------------------------------------------------------------------------
(* The day's briefing (Dashboard).                                          *)

(* A briefing has its one job and is written when that is done.             *)
Briefed ==
    /\ DOMAIN briefingJobs = DOMAIN briefings
    /\ \A d \in DOMAIN briefings :
         /\ briefings[d] = IF d \in DOMAIN briefed THEN "ready" ELSE "generating"
         /\ briefingJobs[d] = 1
    /\ DOMAIN briefed \subseteq DOMAIN briefings
    /\ \A d \in DOMAIN briefed : briefed[d] = 1

(* What requests in progress are going to write: one of them drafts a day,  *)
(* with a job, and that day has no briefing; the worker only writes where   *)
(* one was asked for.                                                       *)
Drafts ==
    /\ \A r \in Requests : txn[r].op = "briefing" =>
         /\ txn[r].insert \in BOOLEAN /\ txn[r].jobs = IF txn[r].insert THEN 1 ELSE 0
         /\ txn[r].insert => txn[r].briefing \notin DOMAIN briefings
    /\ \A q, r \in Requests :
         q # r /\ txn[q].op = "briefing" /\ txn[q].insert /\ txn[r].op = "briefing" /\ txn[r].insert =>
           txn[q].briefing # txn[r].briefing
    /\ \A r \in Requests : txn[r].op = "brief" => txn[r].day \in DOMAIN briefings /\ txn[r].writes = TRUE

(* What else the transactions carry that turns into another.                *)
Passing ==
    \A r \in Requests :
      /\ txn[r].op = "ask" => txn[r].next \in {"today", "custom"}
      /\ txn[r].op = "claim" => \E k : txn[r] = [op |-> "claim", template |-> k]

BriefingInv == Table /\ Briefed /\ Drafts /\ Passing

(* The invariant says what the run checks, and more.                        *)
LEMMA BriefingFollows == BriefingInv => BriefingHasJob
<1> SUFFICES ASSUME BriefingInv, NEW d \in DOMAIN briefings \cup DOMAIN briefingJobs
             PROVE  /\ d \in DOMAIN briefings /\ CountOf(briefingJobs, d) = 1
                    /\ briefings[d] = "ready" <=> CountOf(briefed, d) = 1
  BY DEF BriefingHasJob
<1>1. d \in DOMAIN briefings /\ CountOf(briefingJobs, d) = 1
  BY DEF BriefingInv, Briefed, CountOf
<1>2. briefings[d] = "ready" <=> d \in DOMAIN briefed
  BY <1>1 DEF BriefingInv, Briefed
<1> QED
  BY <1>1, <1>2 DEF BriefingInv, Briefed, CountOf

(* A step of one request that is not about briefings.                       *)
LEMMA BriefingKept ==
  ASSUME BriefingInv, Table', NEW r \in Requests,
         \A q \in Requests \ {r} : txn'[q] = txn[q],
         txn'[r].op \notin {"briefing", "brief"},
         txn'[r].op = "ask" => txn'[r].next \in {"today", "custom"},
         txn'[r].op = "claim" => \E k : txn'[r] = [op |-> "claim", template |-> k],
         UNCHANGED <<briefings, briefingJobs, briefed>>
  PROVE  BriefingInv'
<1>1. Briefed'
  BY DEF BriefingInv, Briefed
<1>2. Drafts'
  BY DEF BriefingInv, Drafts
<1>3. Passing'
  BY DEF BriefingInv, Passing
<1> QED
  BY <1>1, <1>2, <1>3 DEF BriefingInv

(* Requests about the mission or the roadmap, the summary before it comes   *)
(* to the briefing, and rollbacks.                                          *)
LEMMA OtherBriefingSteps ==
  ASSUME BriefingInv, NEW r \in Requests,
         \/ dashboard_summary(r) \/ _mission_section(r)
         \/ (get_today(r) \/ get_or_generate_today(r) \/ CommitMission(r)) /\ UNCHANGED dashboardVars
         \/ (get_roadmap(r) \/ generate_roadmap(r) \/ CommitGenerate(r)) /\ UNCHANGED dashboardVars
         \/ Rollback(r) /\ UNCHANGED dashboardVars
  PROVE  BriefingInv'
<1> USE DEF BriefingInv
<1>1. UNCHANGED <<briefings, briefingJobs, briefed>>
  BY DEF dashboard_summary, _mission_section, dashboardVars
<1>2. ASSUME NEW t, Begin(r, t) \/ Go(r, t),
             t.op \notin {"briefing", "brief"},
             t.op = "ask" => t.next \in {"today", "custom"},
             t.op = "claim" => \E k : t = [op |-> "claim", template |-> k]
      PROVE  BriefingInv'
  <2>1. txn'[r] = t /\ Table' /\ \A q \in Requests \ {r} : txn'[q] = txn[q]
    BY <1>2, TableStep DEF Begin, Go, Table
  <2> QED
    BY <1>1, <1>2, <2>1, BriefingKept
<1>3. CASE Commit(r) \/ Rollback(r)
  <2>1. txn'[r].op = "idle" /\ Table' /\ \A q \in Requests \ {r} : txn'[q] = txn[q]
    BY <1>3, TableStep DEF Commit, Rollback, Table, Idle
  <2> QED
    BY <1>1, <2>1, BriefingKept
<1>4. CASE dashboard_summary(r)
  <2> DEFINE t == [op |-> "summary"]
  <2>1. Begin(r, t) /\ t.op = "summary"
    BY <1>4 DEF dashboard_summary
  <2> HIDE DEF t
  <2> QED
    BY <2>1, <1>2
<1>5. CASE _mission_section(r)
  <2> PICK new : Go(r, [op |-> "dashboard", day |-> today, new |-> new])
    BY <1>5 DEF _mission_section
  <2> DEFINE t == [op |-> "dashboard", day |-> today, new |-> new]
  <2>1. Go(r, t) /\ t.op = "dashboard"
    OBVIOUS
  <2> HIDE DEF t
  <2> QED
    BY <2>1, <1>2
<1>6. CASE get_today(r)
  <2>1. Begin(r, [op |-> "ask", next |-> "today", day |-> today])
    BY <1>6 DEF get_today, Ask
  <2> DEFINE t == [op |-> "ask", next |-> "today", day |-> today]
  <2>2. Begin(r, t) /\ t.op = "ask" /\ t.next = "today"
    BY <2>1
  <2> HIDE DEF t
  <2> QED
    BY <2>2, <1>2
<1>7. CASE get_or_generate_today(r)
  <2> PICK new : Go(r, [op |-> txn[r].next, day |-> txn[r].day, new |-> new])
    BY <1>7 DEF get_or_generate_today
  <2> DEFINE t == [op |-> txn[r].next, day |-> txn[r].day, new |-> new]
  <2>1. Go(r, t) /\ t.op \in {"today", "custom"}
    BY <1>7 DEF get_or_generate_today, Doing, Passing
  <2> HIDE DEF t
  <2> QED
    BY <2>1, <1>2
<1>8. CASE get_roadmap(r)
  <2> DEFINE t == [op |-> "claim", template |-> "none"]
  <2>1. Begin(r, t) /\ t.op = "claim" /\ \E k : t = [op |-> "claim", template |-> k]
    BY <1>8 DEF get_roadmap
  <2> HIDE DEF t
  <2> QED
    BY <2>1, <1>2
<1>9. CASE generate_roadmap(r)
  <2>1. txn[r].op = "claim"
    BY <1>9 DEF generate_roadmap, Doing
  <2> PICK k : txn[r] = [op |-> "claim", template |-> k]
    BY <2>1 DEF Passing
  <2>2. \/ Go(r, [op |-> "claimed", template |-> k])
        \/ Go(r, [op |-> "idle"])
        \/ Go(r, [op |-> "apply", template |-> k, applied |-> roadmap])
    <3>1. [txn[r] EXCEPT !.op = "claimed"] = [op |-> "claimed", template |-> k] /\ txn[r].template = k
      OBVIOUS
    <3> QED
      BY <1>9, <3>1 DEF generate_roadmap, Idle
  <2>3. PICK t : Go(r, t) /\ t.op \in {"claimed", "idle", "apply"}
    <3>1. /\ [op |-> "claimed", template |-> k].op = "claimed" /\ [op |-> "idle"].op = "idle"
          /\ [op |-> "apply", template |-> k, applied |-> roadmap].op = "apply"
      OBVIOUS
    <3> QED
      BY <2>2, <3>1
  <2> QED
    BY <2>3, <1>2
<1> QED
  BY <1>3, <1>4, <1>5, <1>6, <1>7, <1>8, <1>9 DEF CommitMission, CommitGenerate

(* The briefing's section drafts where there is none and nobody drafts.     *)
LEMMA DraftStep ==
  ASSUME BriefingInv, NEW r \in Requests, get_or_generate_briefing(r)
  PROVE  BriefingInv'
<1> USE DEF BriefingInv
<1> DEFINE none == assessed /\ today \notin DOMAIN briefings
           t == [op |-> "briefing", day |-> txn[r].day, new |-> txn[r].new, briefing |-> today,
                 insert |-> none, jobs |-> IF none THEN 1 ELSE 0]
<1>1. /\ none => \A q \in Requests : ~Drafting(q, today)
      /\ Go(r, t)
      /\ UNCHANGED <<briefings, briefingJobs, briefed>>
  BY DEF get_or_generate_briefing, dashboardVars
<1>2. txn'[r] = t /\ Table' /\ \A q \in Requests \ {r} : txn'[q] = txn[q]
  BY <1>1, TableStep DEF Go, Table
<1>3. /\ t.op = "briefing" /\ t.briefing = today /\ t.insert = none /\ none \in BOOLEAN
      /\ t.jobs = IF t.insert THEN 1 ELSE 0
      /\ none => today \notin DOMAIN briefings
  BY DEF get_or_generate_briefing
<1> HIDE DEF t, none
<1>4. Briefed'
  BY <1>1 DEF Briefed
<1>5. Passing'
  BY <1>2, <1>3 DEF Passing
<1>6. Drafts'
  BY <1>1, <1>2, <1>3 DEF Drafts, Drafting, Doing
<1> QED
  BY <1>2, <1>4, <1>5, <1>6

(* The page's commit stores the draft and its job together.                 *)
LEMMA SummaryStep ==
  ASSUME BriefingInv, NEW r \in Requests, get_summary(r)
  PROVE  BriefingInv'
<1> USE DEF BriefingInv
<1> PICK t : t = txn[r]
  OBVIOUS
<1> DEFINE d == t.briefing
<1>1. /\ t.op = "briefing" /\ Commit(r) /\ briefed' = briefed
      /\ briefings' = IF t.insert THEN Put(briefings, d, "generating") ELSE briefings
      /\ briefingJobs' = IF t.jobs = 0 THEN briefingJobs
                         ELSE Put(briefingJobs, d, CountOf(briefingJobs, d) + 1)
  BY DEF get_summary, Doing
<1>2. /\ t.insert \in BOOLEAN /\ t.jobs = IF t.insert THEN 1 ELSE 0
      /\ t.insert => d \notin DOMAIN briefings
  BY <1>1 DEF Drafts
<1>3. txn'[r].op = "idle" /\ Table' /\ \A q \in Requests \ {r} : txn'[q] = txn[q]
  BY <1>1, TableStep DEF Commit, Table, Idle
<1>4. Passing'
  BY <1>3 DEF Passing
<1>5. CASE ~t.insert
  <2>1. briefings' = briefings /\ briefingJobs' = briefingJobs
    BY <1>1, <1>2, <1>5
  <2> QED
    BY <1>1, <1>3, <2>1, BriefingKept
<1>6. CASE t.insert
  <2>1. CountOf(briefingJobs, d) + 1 = 1
    BY <1>2, <1>6 DEF Briefed, CountOf
  <2>2. briefings' = Put(briefings, d, "generating") /\ briefingJobs' = Put(briefingJobs, d, 1)
    BY <1>1, <1>2, <1>6, <2>1
  <2>3. Briefed'
    BY <1>1, <1>2, <1>6, <2>2 DEF Briefed, Put
  <2>4. \A q \in Requests \ {r} : txn[q].op = "briefing" /\ txn[q].insert => txn[q].briefing # d
    BY <1>1, <1>6 DEF Drafts
  <2>5. DOMAIN briefings' = DOMAIN briefings \cup {d}
    BY <2>2 DEF Put
  <2>6. Drafts'
    BY <1>1, <1>3, <2>4, <2>5 DEF Drafts
  <2> QED
    BY <1>3, <1>4, <2>3, <2>6
<1> QED
  BY <1>2, <1>5, <1>6

(* The worker finds a text to write wherever a job is left to do.           *)
LEMMA WorkerStep ==
  ASSUME BriefingInv, NEW r \in Requests, handle_dashboard_briefing(r) \/ CommitBriefing(r)
  PROVE  BriefingInv'
<1> USE DEF BriefingInv
<1>1. CASE handle_dashboard_briefing(r)
  <2> PICK d \in DOMAIN briefingJobs :
        /\ CountOf(briefed, d) < briefingJobs[d]
        /\ Begin(r, [op |-> "brief", day |-> d, writes |-> _briefing_blocks(d) = "generating"])
    BY <1>1 DEF handle_dashboard_briefing
  <2>1. d \in DOMAIN briefings /\ d \notin DOMAIN briefed
    BY DEF Briefed, CountOf
  <2>2. (_briefing_blocks(d) = "generating") = TRUE
    BY <2>1 DEF Briefed, _briefing_blocks
  <2>3. txn'[r].op = "brief" /\ txn'[r].day = d /\ txn'[r].writes = TRUE
    BY <2>2 DEF Begin, Table
  <2>4. Table' /\ \A q \in Requests \ {r} : txn'[q] = txn[q]
    BY TableStep
  <2>5. UNCHANGED <<briefings, briefingJobs, briefed>>
    BY <1>1 DEF handle_dashboard_briefing, dashboardVars
  <2>6. Briefed'
    BY <2>5 DEF Briefed
  <2>7. Passing'
    BY <2>3, <2>4 DEF Passing
  <2>8. Drafts'
    BY <2>1, <2>3, <2>4, <2>5 DEF Drafts
  <2> QED
    BY <2>4, <2>6, <2>7, <2>8
<1>2. CASE CommitBriefing(r)
  <2> PICK d : d = txn[r].day
    OBVIOUS
  <2>1. /\ txn[r].op = "brief" /\ Commit(r) /\ briefingJobs' = briefingJobs
        /\ briefed' = Put(briefed, d, 1)
        /\ briefings' = IF txn[r].writes THEN Put(briefings, d, "ready") ELSE briefings
    BY <1>2 DEF CommitBriefing, Doing
  <2>2. d \in DOMAIN briefings /\ txn[r].writes = TRUE
    BY <2>1 DEF Drafts
  <2>3. txn'[r].op = "idle" /\ Table' /\ \A q \in Requests \ {r} : txn'[q] = txn[q]
    BY <2>1, TableStep DEF Commit, Table, Idle
  <2>4. briefings' = Put(briefings, d, "ready") /\ DOMAIN briefings' = DOMAIN briefings
    BY <2>1, <2>2 DEF Put
  <2>5. Briefed'
    BY <2>1, <2>2, <2>4 DEF Briefed, Put
  <2>6. Passing'
    BY <2>3 DEF Passing
  <2>7. Drafts'
    BY <2>3, <2>4 DEF Drafts
  <2> QED
    BY <2>3, <2>5, <2>6, <2>7
<1> QED
  BY <1>1, <1>2

(* The invariant holds of every behaviour.                                  *)
LEMMA BriefingInvariant == DashboardSpec => []BriefingInv
<1>1. Init /\ DashboardInit => BriefingInv
  BY DEF Init, TransactionsInit, DashboardInit, Idle, BriefingInv, Table, Briefed, Drafts, Passing
<1>2. BriefingInv /\ [DashboardNext]_<<vars, dashboardVars>> => BriefingInv'
  <2> SUFFICES ASSUME BriefingInv, [DashboardNext]_<<vars, dashboardVars>> PROVE BriefingInv'
    OBVIOUS
  <2>1. ASSUME NEW r \in Requests, DashboardStep(r) PROVE BriefingInv'
    BY <2>1, OtherBriefingSteps, DraftStep, SummaryStep, WorkerStep DEF DashboardStep
  <2>2. ASSUME NEW r \in Requests,
               \/ (get_today(r) \/ get_or_generate_today(r) \/ CommitMission(r)) /\ UNCHANGED dashboardVars
               \/ (get_roadmap(r) \/ generate_roadmap(r) \/ CommitGenerate(r))
                  /\ UNCHANGED <<missionVars, today, dashboardVars>>
               \/ Rollback(r) /\ UNCHANGED <<roadmapVars, missionVars, today, dashboardVars>>
        PROVE  BriefingInv'
    BY <2>2, OtherBriefingSteps
  <2>3. CASE \/ Midnight /\ UNCHANGED dashboardVars
             \/ AssessmentCompleted
             \/ UNCHANGED <<vars, dashboardVars>>
    <3>1. UNCHANGED <<txn, served, briefings, briefingJobs, briefed>>
      BY <2>3 DEF Midnight, AssessmentCompleted, vars, txnVars, dashboardVars
    <3> QED
      BY <3>1 DEF BriefingInv, Table, Briefed, Drafts, Passing
  <2> QED
    BY <2>1, <2>2, <2>3 DEF DashboardNext
<1> QED
  BY <1>1, <1>2, PTL DEF DashboardSpec

(* However summaries race for the day's first, over midnight or with the    *)
(* worker, a day's briefing has one job, done exactly when it is ready.     *)
THEOREM OneJobPerBriefing == DashboardSpec => []BriefingHasJob
  BY BriefingInvariant, BriefingFollows, PTL

(* An assessment once completed stays so, and a briefing is on its way or   *)
(* written.                                                                 *)
THEOREM DashboardTypes == DashboardSpec => []DashboardTypeOK
<1>1. Init /\ DashboardInit => assessed \in BOOLEAN
  BY DEF DashboardInit
<1>2. assessed \in BOOLEAN /\ [DashboardNext]_<<vars, dashboardVars>> => (assessed \in BOOLEAN)'
  <2>. SUFFICES ASSUME [DashboardNext]_<<vars, dashboardVars>> PROVE assessed' \in {assessed, TRUE}
    OBVIOUS
  <2>1. ASSUME NEW r \in Requests, DashboardStep(r) PROVE assessed' = assessed
    BY <2>1 DEF DashboardStep, dashboard_summary, _mission_section, get_or_generate_briefing, get_summary,
                handle_dashboard_briefing, CommitBriefing, dashboardVars
  <2>. QED
    BY <2>1 DEF DashboardNext, AssessmentCompleted, dashboardVars
<1>3. BriefingInv /\ assessed \in BOOLEAN => DashboardTypeOK
  BY DEF BriefingInv, Briefed, DashboardTypeOK
<1>. QED
  BY <1>1, <1>2, <1>3, BriefingInvariant, PTL DEF DashboardSpec

-----------------------------------------------------------------------------
(* Shared documents and files (Documents).                                  *)

Uploading(t) == t.op \in {"upload", "uploaded"}
Deleting(t) == t.op \in {"delete_file", "deleted_file"}

(* What a request carries: rows of their types, ids that no row has yet     *)
(* where it makes one, and an object that is stored where it has stored it. *)
Fits(t) ==
    /\ t.op = "create_document" => t.id \in 1..served
    /\ t.op = "create_share" =>
         t.id \in 1..served /\ t.id \notin DOMAIN shares /\ t.row \in DocumentShare
    /\ t.op = "open" => t.row \in DocumentShare
    /\ Uploading(t) =>
         /\ t = [op |-> t.op, id |-> t.id, row |-> t.row]
         /\ t.id \in 1..served /\ t.id \notin DOMAIN files /\ t.row \in DocumentFile
    /\ t.op = "uploaded" => t.id \in storage
    /\ t.op = "delete_file" => t = [op |-> "delete_file", id |-> t.id]
    /\ Deleting(t) => t.id \in 0..served

Rows ==
    /\ Table /\ DOMAIN alone = Requests
    /\ DOMAIN documents \subseteq 0..served
    /\ DOMAIN shares \subseteq 0..served
    /\ \A s \in DOMAIN shares :
         shares[s] \in DocumentShare /\ shares[s].document \in DOMAIN documents
    /\ DOMAIN files \subseteq 0..served /\ \A f \in DOMAIN files : files[f] \in DocumentFile

(* Two requests make rows of their own, and nobody deletes what is being    *)
(* uploaded.                                                                *)
Apart ==
    /\ \A q, r \in Requests : q # r /\ txn[q].op = "create_share" /\ txn[r].op = "create_share" =>
         txn[q].id # txn[r].id
    /\ \A q, r \in Requests : q # r /\ Uploading(txn[q]) /\ Uploading(txn[r]) => txn[q].id # txn[r].id
    /\ \A q, r \in Requests : Uploading(txn[q]) /\ Deleting(txn[r]) => txn[q].id # txn[r].id

(* A link that is being opened with nobody in between is not revoked.       *)
AloneOpens ==
    \A r \in Requests : txn[r].op = "open" /\ alone[r] /\ txn[r].id \in DOMAIN shares =>
      ~shares[txn[r].id].revoked

DocumentInv == Rows /\ (\A r \in Requests : Fits(txn[r])) /\ Apart /\ AloneOpens

(* A request begins; what it makes is named by its number.                  *)
LEMMA DocumentBegins ==
  ASSUME DocumentInv, NEW r \in Requests, NEW t, Begin(r, t), UNCHANGED documentVars, Fits(t)',
         t.op = "create_share" \/ Uploading(t) => t.id = served',
         Deleting(t) => t.id \in DOMAIN files,
         t.op = "open" /\ t.id \in DOMAIN shares => ~shares[t.id].revoked
  PROVE  DocumentInv'
<1> USE DEF DocumentInv
<1>1. /\ txn'[r] = t /\ Table' /\ \A q \in Requests \ {r} : txn'[q] = txn[q]
      /\ alone' = alone /\ served' = served + 1 /\ served \in Nat
      /\ UNCHANGED <<documents, shares, files, storage>>
  BY TableStep DEF Begin, Rows, Table, documentVars
<1>2. Rows'
  BY <1>1 DEF Rows
<1>3. \A q \in Requests : Fits(txn[q])'
  BY <1>1 DEF Fits
<1>4. Apart'
  <2>1. ASSUME NEW q \in Requests,
               txn[q].op = "create_share" \/ Uploading(txn[q]) \/ Deleting(txn[q])
        PROVE  txn[q].id # served'
    <3>1. txn[q].id \in 1..served \/ txn[q].id \in 0..served
      <4>1. Fits(txn[q])
        OBVIOUS
      <4> QED
        BY <2>1, <4>1 DEF Fits
    <3> QED
      BY <1>1, <3>1
  <2>2. ~(Uploading(t) /\ Deleting(t))
    BY DEF Uploading, Deleting
  <2>3. \A q \in Requests : Uploading(txn[q]) => txn[q].id \notin DOMAIN files
    BY DEF Fits
  <2>4. \A q, p \in Requests : q # p /\ txn'[q].op = "create_share" /\ txn'[p].op = "create_share" =>
           txn'[q].id # txn'[p].id
    BY <1>1, <2>1 DEF Apart
  <2>5. \A q, p \in Requests : q # p /\ Uploading(txn'[q]) /\ Uploading(txn'[p]) =>
           txn'[q].id # txn'[p].id
    BY <1>1, <2>1 DEF Apart
  <2>6. \A q, p \in Requests : Uploading(txn'[q]) /\ Deleting(txn'[p]) => txn'[q].id # txn'[p].id
    BY <1>1, <2>1, <2>2, <2>3 DEF Apart
  <2> QED
    BY <2>4, <2>5, <2>6 DEF Apart, Uploading, Deleting
<1>5. AloneOpens'
  BY <1>1 DEF AloneOpens
<1> QED
  BY <1>2, <1>3, <1>4, <1>5

(* Every request about documents, links and files begins so.                *)
LEMMA DocumentBeginSteps ==
  ASSUME DocumentInv, NEW r \in Requests,
         \/ create_document_endpoint(r) \/ update_document_endpoint(r) \/ delete_document_endpoint(r)
         \/ create_share_endpoint(r) \/ revoke_share_endpoint(r) \/ open_shared_endpoint(r)
         \/ upload_document_file(r) \/ delete_document_file(r)
  PROVE  DocumentInv'
<1>1. served \in Nat /\ UNCHANGED documentVars
  BY DEF DocumentInv, Rows, Table, create_document_endpoint, update_document_endpoint,
         delete_document_endpoint, create_share_endpoint, revoke_share_endpoint,
         open_shared_endpoint, upload_document_file, delete_document_file
<1>2. ASSUME NEW t, Begin(r, t)
      PROVE  served' = served + 1 /\ served + 1 \in 1..served'
  BY <1>1, <1>2 DEF Begin
<1>3. /\ \A s \in DOMAIN shares : s \in 0..served /\ shares[s] \in DocumentShare
      /\ \A f \in DOMAIN files : f \in 0..served
  BY DEF DocumentInv, Rows
<1>4. CASE create_document_endpoint(r)
  <2> PICK row : Begin(r, [op |-> "create_document", id |-> served + 1, row |-> row])
    BY <1>4 DEF create_document_endpoint
  <2> PICK t : t = [op |-> "create_document", id |-> served + 1, row |-> row]
    OBVIOUS
  <2>1. Begin(r, t) /\ t.op = "create_document" /\ t.id = served + 1 /\ t.row = row
    OBVIOUS
  <2>2. Fits(t)'
    BY <1>2, <2>1 DEF Fits, Uploading, Deleting
  <2> QED
    BY <1>1, <2>1, <2>2, DocumentBegins DEF Uploading, Deleting
<1>5. CASE update_document_endpoint(r)
  <2> PICK d, was, row : Begin(r, [op |-> "update_document", id |-> d, was |-> was, row |-> row])
    BY <1>5 DEF update_document_endpoint
  <2> PICK t : t = [op |-> "update_document", id |-> d, was |-> was, row |-> row]
    OBVIOUS
  <2>1. Begin(r, t) /\ t.op = "update_document"
    OBVIOUS
  <2>2. Fits(t)'
    BY <2>1 DEF Fits, Uploading, Deleting
  <2> QED
    BY <1>1, <2>1, <2>2, DocumentBegins DEF Uploading, Deleting
<1>6. CASE delete_document_endpoint(r) \/ revoke_share_endpoint(r)
  <2> PICK i : Begin(r, [op |-> "delete_document", id |-> i]) \/ Begin(r, [op |-> "revoke", id |-> i])
    BY <1>6 DEF delete_document_endpoint, revoke_share_endpoint
  <2>1. PICK t : Begin(r, t) /\ t.op \in {"delete_document", "revoke"}
    <3>1. /\ [op |-> "delete_document", id |-> i].op = "delete_document"
          /\ [op |-> "revoke", id |-> i].op = "revoke"
      OBVIOUS
    <3> QED
      BY <3>1
  <2>2. Fits(t)'
    BY <2>1 DEF Fits, Uploading, Deleting
  <2> QED
    BY <1>1, <2>1, <2>2, DocumentBegins DEF Uploading, Deleting
<1>7. CASE create_share_endpoint(r)
  <2> PICK d \in DOMAIN documents, days \in ExpiryDays :
        Begin(r, [op |-> "create_share", id |-> served + 1, row |-> create_share(d, days)])
    BY <1>7 DEF create_share_endpoint
  <2> PICK t : t = [op |-> "create_share", id |-> served + 1, row |-> create_share(d, days)]
    OBVIOUS
  <2>1. Begin(r, t) /\ t.op = "create_share" /\ t.id = served + 1 /\ t.row = create_share(d, days)
    OBVIOUS
  <2>2. create_share(d, days) \in DocumentShare
    BY <1>1 DEF create_share, DocumentShare, DocumentInv, Rows
  <2>3. served + 1 \notin DOMAIN shares
    BY <1>1, <1>3
  <2>4. Fits(t)'
    BY <1>1, <1>2, <2>1, <2>2, <2>3 DEF Fits, Uploading, Deleting, documentVars, DocumentShare
  <2> QED
    BY <1>1, <1>2, <2>1, <2>4, DocumentBegins DEF Uploading, Deleting
<1>8. CASE open_shared_endpoint(r)
  <2> PICK s \in DOMAIN shares :
        open_shared(s) /\ Begin(r, [op |-> "open", id |-> s, row |-> [shares[s] EXCEPT !.viewed = served + 1]])
    BY <1>8 DEF open_shared_endpoint
  <2> PICK t : t = [op |-> "open", id |-> s, row |-> [shares[s] EXCEPT !.viewed = served + 1]]
    OBVIOUS
  <2>1. Begin(r, t) /\ t.op = "open" /\ t.id = s
    OBVIOUS
  <2>2. t.row \in DocumentShare /\ ~shares[s].revoked
    BY <1>1, <1>3 DEF DocumentShare, open_shared, _status
  <2>3. Fits(t)'
    BY <2>1, <2>2 DEF Fits, Uploading, Deleting, DocumentShare
  <2> QED
    BY <1>1, <2>1, <2>2, <2>3, DocumentBegins DEF Uploading, Deleting
<1>9. CASE upload_document_file(r)
  <2> PICK c \in DocumentFile : Begin(r, [op |-> "upload", id |-> served + 1, row |-> c])
    BY <1>9 DEF upload_document_file, EXT_BY_CONTENT_TYPE
  <2> PICK t : t = [op |-> "upload", id |-> served + 1, row |-> c]
    OBVIOUS
  <2>1. /\ Begin(r, t) /\ t.op = "upload" /\ t.id = served + 1 /\ t.row = c
        /\ t = [op |-> t.op, id |-> t.id, row |-> t.row]
    OBVIOUS
  <2>2. served + 1 \notin DOMAIN files
    BY <1>1, <1>3
  <2>3. Fits(t)'
    BY <1>1, <1>2, <2>1, <2>2 DEF Fits, Uploading, Deleting, documentVars, DocumentFile
  <2> QED
    BY <1>1, <1>2, <2>1, <2>3, DocumentBegins DEF Uploading, Deleting
<1>10. CASE delete_document_file(r)
  <2> PICK f \in DOMAIN files : Begin(r, [op |-> "delete_file", id |-> f])
    BY <1>10 DEF delete_document_file, get_file
  <2> PICK t : t = [op |-> "delete_file", id |-> f]
    OBVIOUS
  <2>1. /\ Begin(r, t) /\ t.op = "delete_file" /\ t.id = f
        /\ t = [op |-> "delete_file", id |-> t.id]
    OBVIOUS
  <2>2. f \in 0..served'
    BY <1>1, <1>2, <1>3, <2>1
  <2>3. Fits(t)'
    BY <2>1, <2>2 DEF Fits, Uploading, Deleting
  <2> QED
    BY <1>1, <2>1, <2>3, DocumentBegins DEF Uploading, Deleting
<1> QED
  BY <1>4, <1>5, <1>6, <1>7, <1>8, <1>9, <1>10

(* An upload's object is stored, or a file's removed, before the commit.    *)
LEMMA DocumentObjectSteps ==
  ASSUME DocumentInv, NEW r \in Requests, upload_file(r) \/ delete_file(r)
  PROVE  DocumentInv'
<1> USE DEF DocumentInv
<1>1. CASE upload_file(r)
  <2> PICK t : t = txn[r]
    OBVIOUS
  <2>1. /\ t.op = "upload" /\ storage' = storage \cup {t.id}
        /\ UNCHANGED <<documents, shares, files>>
        /\ Go(r, [t EXCEPT !.op = "uploaded"])
    BY <1>1 DEF upload_file, Doing
  <2>2. t = [op |-> "upload", id |-> t.id, row |-> t.row]
    BY <2>1 DEF Fits, Uploading
  <2>3. PICK u : u = [op |-> "uploaded", id |-> t.id, row |-> t.row]
    OBVIOUS
  <2>4. u = [t EXCEPT !.op = "uploaded"]
    BY <2>2, <2>3
  <2>5. /\ txn'[r] = u /\ Table' /\ \A q \in Requests \ {r} : txn'[q] = txn[q]
        /\ UNCHANGED <<alone, served>>
    BY <2>1, <2>4, TableStep DEF Go, Rows, Table
  <2>6. u.op = "uploaded" /\ u.id = t.id /\ u = [op |-> u.op, id |-> u.id, row |-> u.row] /\ u.row = t.row
    BY <2>3
  <2>7. Uploading(t) /\ Uploading(u) /\ ~Deleting(u) /\ ~Deleting(t)
    BY <2>1, <2>6 DEF Uploading, Deleting
  <2>8. Rows' /\ AloneOpens'
    <3>1. Rows'
      BY <2>1, <2>5 DEF Rows
    <3>2. AloneOpens'
      BY <2>1, <2>5, <2>6 DEF AloneOpens
    <3> QED
      BY <3>1, <3>2
  <2>9. \A q \in Requests : Fits(txn[q])'
    <3>1. Fits(u)'
      BY <2>1, <2>5, <2>6, <2>7 DEF Fits, Uploading, Deleting
    <3>2. ASSUME NEW q \in Requests \ {r} PROVE Fits(txn[q])'
      BY <2>1, <2>5 DEF Fits
    <3> QED
      BY <2>5, <3>1, <3>2
  <2>10. Apart'
    BY <2>5, <2>6, <2>7 DEF Apart, Uploading, Deleting
  <2> QED
    BY <2>8, <2>9, <2>10
<1>2. CASE delete_file(r)
  <2> PICK t : t = txn[r]
    OBVIOUS
  <2>1. /\ t.op = "delete_file" /\ storage' = storage \ {t.id}
        /\ UNCHANGED <<documents, shares, files>>
        /\ Go(r, [t EXCEPT !.op = "deleted_file"])
    BY <1>2 DEF delete_file, Doing
  <2>2. t = [op |-> "delete_file", id |-> t.id]
    BY <2>1 DEF Fits
  <2>3. PICK u : u = [op |-> "deleted_file", id |-> t.id]
    OBVIOUS
  <2>4. u = [t EXCEPT !.op = "deleted_file"]
    BY <2>2, <2>3
  <2>5. /\ txn'[r] = u /\ Table' /\ \A q \in Requests \ {r} : txn'[q] = txn[q]
        /\ UNCHANGED <<alone, served>>
    BY <2>1, <2>4, TableStep DEF Go, Rows, Table
  <2>6. u.op = "deleted_file" /\ u.id = t.id
    BY <2>3
  <2>7. Deleting(t) /\ Deleting(u) /\ ~Uploading(u) /\ ~Uploading(t)
    BY <2>1, <2>6 DEF Uploading, Deleting
  <2>8. Rows' /\ AloneOpens'
    <3>1. Rows'
      BY <2>1, <2>5 DEF Rows
    <3>2. AloneOpens'
      BY <2>1, <2>5, <2>6 DEF AloneOpens
    <3> QED
      BY <3>1, <3>2
  <2>9. \A q \in Requests : Fits(txn[q])'
    <3>1. Fits(u)'
      BY <2>1, <2>5, <2>6, <2>7 DEF Fits, Uploading, Deleting
    <3>2. ASSUME NEW q \in Requests \ {r} PROVE Fits(txn[q])'
      <4>1. Uploading(txn[q]) => txn[q].id # t.id
        BY <2>7 DEF Apart
      <4> QED
        BY <2>1, <2>5, <4>1 DEF Fits, Uploading
    <3> QED
      BY <2>5, <3>1, <3>2
  <2>10. Apart'
    BY <2>5, <2>6, <2>7 DEF Apart, Uploading, Deleting
  <2> QED
    BY <2>8, <2>9, <2>10
<1> QED
  BY <1>1, <1>2

(* A commit writes a row that no other request makes.                       *)
LEMMA DocumentCommits ==
  ASSUME DocumentInv, NEW r \in Requests, Commit(r), Rows', storage' = storage,
         \A q \in Requests \ {r} :
           /\ txn[q].op = "create_share" => txn[q].id \notin DOMAIN shares'
           /\ Uploading(txn[q]) => txn[q].id \notin DOMAIN files'
  PROVE  DocumentInv'
<1> USE DEF DocumentInv
<1>1. /\ txn'[r] = Idle /\ served' = served /\ \A q \in Requests \ {r} : txn'[q] = txn[q]
      /\ \A q \in Requests : alone'[q] => txn'[q] = Idle
  BY DEF Commit, Rows, Table
<1>2. Idle.op = "idle"
  BY DEF Idle
<1>3. \A q \in Requests : Fits(txn[q])'
  <2>1. Fits(Idle)'
    BY <1>2 DEF Fits, Uploading, Deleting
  <2>2. ASSUME NEW q \in Requests \ {r} PROVE Fits(txn[q])'
    BY <1>1 DEF Fits
  <2> QED
    BY <1>1, <2>1, <2>2
<1>4. Apart'
  BY <1>1, <1>2 DEF Apart, Uploading, Deleting
<1>5. AloneOpens'
  BY <1>1, <1>2 DEF AloneOpens
<1> QED
  BY <1>3, <1>4, <1>5

(* So every commit of a row of a document, a link or a file keeps all that. *)
LEMMA DocumentCommitSteps ==
  ASSUME DocumentInv, NEW r \in Requests,
         \/ CommitCreateDocument(r) \/ CommitUpdateDocument(r) \/ CommitDeleteDocument(r)
         \/ CommitShare(r) \/ revoke_share(r) \/ CommitOpen(r)
         \/ CommitUpload(r) \/ CommitDeleteFile(r)
  PROVE  DocumentInv'
<1> USE DEF DocumentInv
<1> PICK t : t = txn[r]
  OBVIOUS
<1>1. Commit(r) /\ storage' = storage
  BY DEF CommitCreateDocument, CommitUpdateDocument, CommitDeleteDocument,
         CommitShare, revoke_share, CommitOpen, CommitUpload, CommitDeleteFile
<1>2. Table' /\ served' = served /\ served \in Nat /\ (DOMAIN alone = Requests)'
  BY <1>1, TableStep DEF Rows, Table, Commit
<1>3. \A q \in Requests : /\ txn[q].op = "create_share" => txn[q].id \notin DOMAIN shares
                          /\ Uploading(txn[q]) => txn[q].id \notin DOMAIN files
  BY DEF Fits
<1>4. CASE CommitCreateDocument(r)
  <2>1. /\ t.op = "create_document" /\ documents' = Put(documents, t.id, t.row)
        /\ UNCHANGED <<shares, files>>
    BY <1>4 DEF CommitCreateDocument, Doing
  <2>2. DOMAIN documents' = DOMAIN documents \cup {t.id} /\ t.id \in 1..served
    BY <2>1 DEF Put, Fits
  <2>3. Rows'
    BY <1>2, <2>1, <2>2 DEF Rows
  <2> QED
    BY <1>1, <1>3, <2>1, <2>3, DocumentCommits
<1>5. CASE CommitUpdateDocument(r)
  <2>1. DOMAIN documents' = DOMAIN documents /\ UNCHANGED <<shares, files>>
    BY <1>5 DEF CommitUpdateDocument
  <2>2. Rows'
    BY <1>2, <2>1 DEF Rows
  <2> QED
    BY <1>1, <1>3, <2>1, <2>2, DocumentCommits
<1>6. CASE CommitDeleteDocument(r)
  <2>1. /\ documents' = Drop(documents, {t.id}) /\ shares' = Drop(shares, SharesOf(t.id))
        /\ files' = files
    BY <1>6 DEF CommitDeleteDocument, delete_document
  <2>2. /\ DOMAIN documents' = DOMAIN documents \ {t.id}
        /\ DOMAIN shares' \subseteq DOMAIN shares
        /\ \A s \in DOMAIN shares' : shares'[s] = shares[s] /\ shares[s].document # t.id
    BY <2>1 DEF Drop, SharesOf
  <2>3. Rows'
    BY <1>2, <2>1, <2>2 DEF Rows
  <2> QED
    BY <1>1, <1>3, <2>1, <2>2, <2>3, DocumentCommits
<1>7. CASE CommitShare(r)
  <2>1. /\ t.op = "create_share" /\ t.row.document \in DOMAIN documents
        /\ shares' = Put(shares, t.id, t.row) /\ UNCHANGED <<documents, files>>
    BY <1>7 DEF CommitShare, Doing, share_document
  <2>2. t.id \in 1..served /\ t.row \in DocumentShare
    BY <2>1 DEF Fits
  <2>3. /\ DOMAIN shares' = DOMAIN shares \cup {t.id}
        /\ \A s \in DOMAIN shares' : shares'[s] = IF s = t.id THEN t.row ELSE shares[s]
    BY <2>1 DEF Put
  <2>4. Rows'
    BY <1>2, <2>1, <2>2, <2>3 DEF Rows
  <2>5. \A q \in Requests \ {r} : txn[q].op = "create_share" => txn[q].id # t.id
    BY <2>1 DEF Apart
  <2> QED
    BY <1>1, <1>3, <2>1, <2>3, <2>4, <2>5, DocumentCommits
<1>8. CASE revoke_share(r) \/ CommitOpen(r)
  <2>1. /\ DOMAIN shares' = DOMAIN shares /\ UNCHANGED <<documents, files>>
        /\ \A s \in DOMAIN shares :
             shares'[s].document = shares[s].document /\ shares'[s] \in DocumentShare
    <3>1. CASE revoke_share(r)
      BY <3>1 DEF revoke_share, Rows, DocumentShare
    <3>2. CASE CommitOpen(r)
      <4>1. t.op = "open" /\ shares' = [shares EXCEPT ![t.id].viewed = t.row.viewed]
        BY <3>2 DEF CommitOpen, Doing, Viewed
      <4>2. t.row \in DocumentShare
        BY <4>1 DEF Fits
      <4> QED
        BY <3>2, <4>1, <4>2 DEF CommitOpen, Rows, DocumentShare
    <3> QED
      BY <1>8, <3>1, <3>2
  <2>2. Rows'
    BY <1>2, <2>1 DEF Rows
  <2> QED
    BY <1>1, <1>3, <2>1, <2>2, DocumentCommits
<1>9. CASE CommitUpload(r)
  <2>1. /\ t.op = "uploaded" /\ files' = Put(files, t.id, t.row) /\ UNCHANGED <<documents, shares>>
    BY <1>9 DEF CommitUpload, Doing
  <2>2. t.id \in 1..served /\ t.row \in DocumentFile
    BY <2>1 DEF Fits, Uploading
  <2>3. /\ DOMAIN files' = DOMAIN files \cup {t.id}
        /\ \A f \in DOMAIN files' : files'[f] = IF f = t.id THEN t.row ELSE files[f]
    BY <2>1 DEF Put
  <2>4. Rows'
    BY <1>2, <2>1, <2>2, <2>3 DEF Rows
  <2>5. \A q \in Requests \ {r} : Uploading(txn[q]) => txn[q].id # t.id
    BY <2>1 DEF Apart, Uploading
  <2> QED
    BY <1>1, <1>3, <2>1, <2>3, <2>4, <2>5, DocumentCommits
<1>10. CASE CommitDeleteFile(r)
  <2>1. /\ DOMAIN files' \subseteq DOMAIN files /\ \A f \in DOMAIN files' : files'[f] = files[f]
        /\ UNCHANGED <<documents, shares>>
    BY <1>10 DEF CommitDeleteFile, Drop
  <2>2. Rows'
    BY <1>2, <2>1 DEF Rows
  <2> QED
    BY <1>1, <1>3, <2>1, <2>2, DocumentCommits
<1> QED
  BY <1>4, <1>5, <1>6, <1>7, <1>8, <1>9, <1>10

(* The invariant of documents, links and files.                             *)
LEMMA DocumentInvariant == DocumentSpec => []DocumentInv
<1>1. TransactionsInit /\ DocumentInit => DocumentInv
  BY DEF TransactionsInit, DocumentInit, Idle, DocumentInv, Rows, Table, Fits, Apart, Uploading,
         Deleting, AloneOpens
<1>2. DocumentInv /\ [DocumentNext]_<<documentVars, txnVars>> => DocumentInv'
  <2> SUFFICES ASSUME DocumentInv, [DocumentNext]_<<documentVars, txnVars>> PROVE DocumentInv'
    OBVIOUS
  <2>1. ASSUME NEW r \in Requests, DocumentStep(r) PROVE DocumentInv'
    BY <2>1, DocumentBeginSteps, DocumentObjectSteps, DocumentCommitSteps DEF DocumentStep
  <2>2. ASSUME NEW r \in Requests, Rollback(r), UNCHANGED documentVars PROVE DocumentInv'
    <3>1. /\ txn'[r].op = "idle" /\ \A q \in Requests \ {r} : txn'[q] = txn[q] /\ alone'[q] = alone[q]
          /\ Table' /\ (DOMAIN alone = Requests)' /\ served' = served
          /\ UNCHANGED <<documents, shares, files, storage>>
      BY <2>2, TableStep DEF Rollback, DocumentInv, Rows, Table, documentVars, Idle
    <3>2. Rows'
      BY <3>1 DEF DocumentInv, Rows
    <3>3. ASSUME NEW q \in Requests PROVE Fits(txn[q])'
      <4>1. CASE q = r
        BY <3>1, <4>1 DEF Fits, Uploading, Deleting
      <4>2. CASE q # r
        BY <3>1, <4>2 DEF DocumentInv, Fits
      <4> QED
        BY <4>1, <4>2
    <3>4. Apart'
      BY <3>1 DEF DocumentInv, Apart, Uploading, Deleting
    <3>5. AloneOpens'
      BY <3>1 DEF DocumentInv, AloneOpens
    <3> QED
      BY <3>2, <3>3, <3>4, <3>5 DEF DocumentInv
  <2>3. CASE LinkExpires \/ UNCHANGED <<documentVars, txnVars>>
    <3>1. /\ UNCHANGED <<txn, alone, served, documents, files, storage>>
          /\ DOMAIN shares' = DOMAIN shares
          /\ \A s \in DOMAIN shares :
               /\ shares'[s] \in DocumentShare /\ shares'[s].document = shares[s].document
               /\ shares'[s].revoked = shares[s].revoked
      <4>1. CASE LinkExpires
        BY <4>1 DEF LinkExpires, txnVars, DocumentInv, Rows, DocumentShare
      <4>2. CASE UNCHANGED <<documentVars, txnVars>>
        BY <4>2 DEF documentVars, txnVars, DocumentInv, Rows
      <4> QED
        BY <2>3, <4>1, <4>2
    <3>2. Rows'
      BY <3>1 DEF DocumentInv, Rows, Table
    <3>3. ASSUME NEW q \in Requests PROVE Fits(txn[q])'
      BY <3>1 DEF DocumentInv, Fits
    <3>4. Apart' /\ AloneOpens'
      <4>1. Apart'
        BY <3>1 DEF DocumentInv, Apart
      <4>2. AloneOpens'
        BY <3>1 DEF DocumentInv, AloneOpens
      <4> QED
        BY <4>1, <4>2
    <3> QED
      BY <3>2, <3>3, <3>4 DEF DocumentInv
  <2> QED
    BY <2>1, <2>2, <2>3 DEF DocumentNext
<1> QED
  BY <1>1, <1>2, PTL DEF DocumentSpec

(* A link is to a document that is there, though documents are deleted and  *)
(* links made side by side.                                                 *)
THEOREM LinksHaveDocuments ==
  DocumentSpec => [](\A s \in DOMAIN shares : shares[s].document \in DOMAIN documents)
<1>1. DocumentInv => \A s \in DOMAIN shares : shares[s].document \in DOMAIN documents
  BY DEF DocumentInv, Rows
<1> QED
  BY <1>1, DocumentInvariant, PTL

(* What a step does to a link that is revoked and not deleted.              *)
LEMMA RevokedStep ==
  ASSUME DocumentInv, DocumentNext, NEW s \in DOMAIN shares, s \in DOMAIN shares', shares[s].revoked
  PROVE  /\ shares'[s].revoked
         /\ \A r \in Requests : txn'[r] # txn[r] /\ alone[r] => shares'[s].viewed = shares[s].viewed
<1> USE DEF DocumentInv
<1>1. shares[s] \in DocumentShare
  BY DEF Rows
<1>2. ASSUME NEW r \in Requests, CommitShare(r) PROVE shares'[s] = shares[s]
  <2>1. txn[r].id # s
    BY <1>2 DEF CommitShare, Doing, Fits
  <2> QED
    BY <1>2, <2>1 DEF CommitShare, Put
<1>3. ASSUME NEW r \in Requests, revoke_share(r)
      PROVE  shares'[s].revoked /\ shares'[s].viewed = shares[s].viewed
  BY <1>1, <1>3 DEF revoke_share, DocumentShare
<1>4. ASSUME NEW r \in Requests, CommitDeleteDocument(r) PROVE shares'[s] = shares[s]
  BY <1>4 DEF CommitDeleteDocument, delete_document, Drop
<1>5. ASSUME NEW r \in Requests, CommitOpen(r)
      PROVE  /\ shares'[s].revoked
             /\ \A q \in Requests : txn'[q] # txn[q] /\ alone[q] => shares'[s].viewed = shares[s].viewed
  <2>1. /\ txn[r].op = "open" /\ shares' = [shares EXCEPT ![txn[r].id].viewed = txn[r].row.viewed]
        /\ Commit(r)
    BY <1>5 DEF CommitOpen, Doing, Viewed
  <2>2. shares'[s].revoked /\ (txn[r].id # s => shares'[s] = shares[s])
    BY <1>1, <2>1 DEF DocumentShare
  <2>3. \A q \in Requests : txn'[q] # txn[q] => q = r
    BY <2>1, TableStep DEF Rows
  <2>4. alone[r] => txn[r].id # s
    BY <2>1 DEF AloneOpens
  <2> QED
    BY <2>2, <2>3, <2>4
<1>6. CASE LinkExpires
  BY <1>1, <1>6 DEF LinkExpires, DocumentShare
<1>7. ASSUME NEW r \in Requests, Rollback(r) /\ UNCHANGED documentVars PROVE shares'[s] = shares[s]
  BY <1>7 DEF documentVars
<1>8. ASSUME NEW r \in Requests,
             \/ create_document_endpoint(r) \/ CommitCreateDocument(r)
             \/ update_document_endpoint(r) \/ CommitUpdateDocument(r) \/ delete_document_endpoint(r)
             \/ create_share_endpoint(r) \/ revoke_share_endpoint(r) \/ open_shared_endpoint(r)
             \/ upload_document_file(r) \/ upload_file(r) \/ CommitUpload(r)
             \/ delete_document_file(r) \/ delete_file(r) \/ CommitDeleteFile(r)
      PROVE  shares'[s] = shares[s]
  BY <1>8 DEF create_document_endpoint, CommitCreateDocument, update_document_endpoint,
              CommitUpdateDocument, delete_document_endpoint, create_share_endpoint,
              revoke_share_endpoint, open_shared_endpoint, upload_document_file, upload_file,
              CommitUpload, delete_document_file, delete_file, CommitDeleteFile, documentVars
<1> QED
  BY <1>2, <1>3, <1>4, <1>5, <1>6, <1>7, <1>8 DEF DocumentNext, DocumentStep

(* A revoked link stays revoked through openings that began before it, and  *)
(* an opening that nothing raced is of a link that is not.                  *)
THEOREM RevokedForGood == DocumentSpec => RevocationSticks
<1>1. DocumentInv /\ [DocumentNext]_<<documentVars, txnVars>> =>
        [\A s \in DOMAIN shares : s \in DOMAIN shares' /\ shares[s].revoked =>
           /\ _status(shares'[s]) = "revoked"
           /\ \A r \in Requests : txn'[r] # txn[r] /\ alone[r] => shares'[s].viewed = shares[s].viewed
        ]_documentVars
  BY RevokedStep DEF _status, documentVars
<1> QED
  BY <1>1, DocumentInvariant, PTL DEF DocumentSpec, RevocationSticks

(* A listed file has its object until a request that deletes it removes it. *)
THEOREM ListedFilesHaveObjects == DocumentSpec => FilesKeepObjects
<1>1. ASSUME DocumentInv, DocumentNext, NEW f \in DOMAIN files', f \notin storage'
      PROVE  /\ f \in DOMAIN files
             /\ f \notin storage \/ \E r \in Requests : txn[r] = [op |-> "delete_file", id |-> f]
  <2>1. ASSUME NEW r \in Requests, CommitUpload(r)
        PROVE  f \in DOMAIN files /\ f \notin storage
    <3>1. /\ txn[r].op = "uploaded" /\ storage' = storage
          /\ DOMAIN files' = DOMAIN files \cup {txn[r].id}
      BY <2>1 DEF CommitUpload, Doing, Put
    <3>2. txn[r].id \in storage
      BY <1>1, <3>1 DEF DocumentInv, Fits
    <3> QED
      BY <1>1, <3>1, <3>2
  <2>2. ASSUME NEW r \in Requests, delete_file(r)
        PROVE  f \in DOMAIN files /\ (f \notin storage \/ txn[r] = [op |-> "delete_file", id |-> f])
    <3>1. txn[r].op = "delete_file" /\ files' = files /\ storage' = storage \ {txn[r].id}
      BY <2>2 DEF delete_file, Doing
    <3>2. txn[r] = [op |-> "delete_file", id |-> txn[r].id]
      BY <1>1, <3>1 DEF DocumentInv, Fits
    <3> QED
      BY <1>1, <3>1, <3>2
  <2>3. ASSUME NEW r \in Requests, CommitDeleteFile(r) \/ upload_file(r)
        PROVE  f \in DOMAIN files /\ f \notin storage
    BY <1>1, <2>3 DEF CommitDeleteFile, upload_file, Drop
  <2>4. ASSUME NEW r \in Requests,
               \/ create_document_endpoint(r) \/ CommitCreateDocument(r)
               \/ update_document_endpoint(r) \/ CommitUpdateDocument(r) \/ delete_document_endpoint(r)
               \/ CommitDeleteDocument(r) \/ create_share_endpoint(r) \/ CommitShare(r)
               \/ revoke_share_endpoint(r) \/ revoke_share(r) \/ open_shared_endpoint(r) \/ CommitOpen(r)
               \/ upload_document_file(r) \/ delete_document_file(r)
               \/ Rollback(r) /\ UNCHANGED documentVars
        PROVE  UNCHANGED <<files, storage>>
    BY <2>4 DEF create_document_endpoint, CommitCreateDocument, update_document_endpoint,
                CommitUpdateDocument, delete_document_endpoint, CommitDeleteDocument,
                create_share_endpoint, CommitShare, revoke_share_endpoint, revoke_share,
                open_shared_endpoint, CommitOpen, upload_document_file, delete_document_file,
                documentVars
  <2>5. LinkExpires => UNCHANGED <<files, storage>>
    BY DEF LinkExpires
  <2> QED
    BY <1>1, <2>1, <2>2, <2>3, <2>4, <2>5 DEF DocumentNext, DocumentStep
<1>2. DocumentInv /\ [DocumentNext]_<<documentVars, txnVars>> =>
        [\A f \in DOMAIN files' : f \notin storage' =>
           /\ f \in DOMAIN files
           /\ f \notin storage \/ \E r \in Requests : txn[r] = [op |-> "delete_file", id |-> f]
        ]_documentVars
  BY <1>1 DEF documentVars
<1> QED
  BY <1>2, DocumentInvariant, PTL DEF DocumentSpec, FilesKeepObjects

(* What a request is to write to a document.                                *)
DocumentTyped(t) == t.op \in {"create_document", "update_document"} => t.row \in Document

DocumentRowsInv ==
    /\ Table /\ \A d \in DOMAIN documents : documents[d] \in Document
    /\ \A r \in Requests : DocumentTyped(txn[r])

(* What the templates and a client's heading make are documents.            *)
LEMMA TemplatesMakeDocuments ==
  /\ \A k \in DocumentTemplateKeys : create_document(instantiate(k)) \in Document
  /\ \A h \in Headings : create_document([kind |-> "custom", sections |-> <<h>>]) \in Document
<1>1. \A k \in DocumentTemplateKeys : k \in DocumentKinds /\ DOCUMENT_TEMPLATES[k] \in Seq(STRING)
  BY ContentAssumption
<1>2. \A h \in Headings : <<h>> \in Seq(STRING)
  BY ContentAssumption
<1>3. "custom" \in DocumentKinds
  BY DEF DocumentKinds
<1>. QED
  BY <1>1, <1>2, <1>3 DEF create_document, instantiate, Document

(* An edit of a document is one.                                            *)
LEMMA EditsMakeDocuments ==
  ASSUME NEW doc \in Document, NEW expected, NEW row \in update_document(doc, expected)
  PROVE  row \in Document
<1>1. PICK h \in Headings, s \in {"draft", "final"} :
        row = EditOf(doc, h, s)
  BY DEF update_document
<1>2. <<h>> \in Seq(STRING) /\ doc.version + 1 \in Nat \ {0}
  BY ContentAssumption DEF Document
<1>. QED
  BY <1>1, <1>2 DEF Document, EditOf

(* A document whose columns are those of one document or of another.        *)
LEMMA ColumnsMakeDocuments ==
  ASSUME NEW old \in Document, NEW row \in Document, NEW was, NEW new,
         new = [c \in DOMAIN old |-> IF row[c] # was[c] THEN row[c] ELSE old[c]]
  PROVE  new \in Document
<1>1. DOMAIN old = {"kind", "sections", "status", "version"}
  BY DEF Document
<1>2. /\ new.kind \in DocumentKinds /\ new.sections \in Seq(STRING) /\ new.status \in {"draft", "final"}
      /\ new.version \in Nat \ {0}
  BY <1>1 DEF Document
<1>3. new = [kind |-> new.kind, sections |-> new.sections, status |-> new.status, version |-> new.version]
  BY <1>1
<1>. QED
  BY <1>2, <1>3 DEF Document

(* Another step of a request leaves the documents.                          *)
LEMMA DocumentsSpared ==
  ASSUME DocumentRowsInv, NEW r \in Requests, NEW t,
         Begin(r, t) \/ Go(r, t) \/ (Commit(r) /\ t = Idle) \/ (Rollback(r) /\ t = Idle),
         DocumentTyped(t), \A d \in DOMAIN documents' : documents'[d] \in Document
  PROVE  DocumentRowsInv'
<1>1. Table' /\ txn'[r] = t /\ \A q \in Requests \ {r} : txn'[q] = txn[q]
  BY TableStep DEF Begin, Go, Commit, Rollback, DocumentRowsInv, Table
<1>. QED
  BY <1>1 DEF DocumentRowsInv, DocumentTyped

(* Every step of a request.                                                 *)
LEMMA DocumentRowsStep ==
  ASSUME DocumentRowsInv, NEW r \in Requests, DocumentStep(r) \/ (Rollback(r) /\ UNCHANGED documentVars)
  PROVE  DocumentRowsInv'
<1>. PICK u : u = txn[r]
  OBVIOUS
<1>1. DocumentTyped(u) /\ \A d \in DOMAIN documents : documents[d] \in Document
  BY DEF DocumentRowsInv
<1>2. DocumentTyped(Idle)
  BY DEF DocumentTyped, Idle
<1>3. CASE create_document_endpoint(r)
  <2>1. PICK row \in Document : Begin(r, [op |-> "create_document", id |-> served + 1, row |-> row])
    BY <1>3, TemplatesMakeDocuments DEF create_document_endpoint
  <2>. PICK t : t = [op |-> "create_document", id |-> served + 1, row |-> row]
    OBVIOUS
  <2>2. Begin(r, t) /\ t.row = row
    BY <2>1
  <2>. QED
    BY <1>1, <1>3, <2>2, DocumentsSpared DEF DocumentTyped, create_document_endpoint, documentVars
<1>4. CASE update_document_endpoint(r)
  <2>1. PICK d \in DOMAIN documents, row \in Document :
          Begin(r, [op |-> "update_document", id |-> d, was |-> documents[d], row |-> row])
    <3>1. PICK d \in DOMAIN documents, expected \in 1..MaxServed : \E row \in update_document(documents[d], expected) :
            Begin(r, [op |-> "update_document", id |-> d, was |-> documents[d], row |-> row])
      BY <1>4 DEF update_document_endpoint, get_document
    <3>. QED
      BY <1>1, <3>1, EditsMakeDocuments
  <2>. PICK t : t = [op |-> "update_document", id |-> d, was |-> documents[d], row |-> row]
    OBVIOUS
  <2>2. Begin(r, t) /\ t.row = row
    BY <2>1
  <2>. QED
    BY <1>1, <1>4, <2>2, DocumentsSpared DEF DocumentTyped, update_document_endpoint, documentVars
<1>5. CASE CommitCreateDocument(r)
  <2>1. u.op = "create_document" /\ documents' = Put(documents, u.id, u.row) /\ Commit(r)
    BY <1>5 DEF CommitCreateDocument, Doing
  <2>2. \A d \in DOMAIN documents' : documents'[d] \in Document
    BY <1>1, <2>1 DEF DocumentTyped, Put
  <2>. QED
    BY <1>2, <2>1, <2>2, DocumentsSpared
<1>6. CASE CommitUpdateDocument(r)
  <2>1. /\ u.op = "update_document" /\ Commit(r)
        /\ documents' = [documents EXCEPT ![u.id] =
                           [c \in DOMAIN @ |-> IF u.row[c] # u.was[c] THEN u.row[c] ELSE @[c]]]
    BY <1>6 DEF CommitUpdateDocument, Doing
  <2>2. ASSUME NEW d \in DOMAIN documents PROVE documents'[d] \in Document
    <3>. PICK old, new : old = documents[d] /\ new = documents'[d]
      OBVIOUS
    <3>1. old \in Document /\ u.row \in Document
      BY <1>1, <2>1 DEF DocumentTyped
    <3>2. new = old \/ new = [c \in DOMAIN old |-> IF u.row[c] # u.was[c] THEN u.row[c] ELSE old[c]]
      BY <2>1
    <3>. QED
      BY <3>1, <3>2, ColumnsMakeDocuments
  <2>3. DOMAIN documents' = DOMAIN documents
    BY <2>1
  <2>. QED
    BY <1>2, <2>1, <2>2, <2>3, DocumentsSpared
<1>7. CASE CommitDeleteDocument(r)
  <2>1. documents' = Drop(documents, {u.id}) /\ Commit(r)
    BY <1>7 DEF CommitDeleteDocument, delete_document
  <2>2. \A d \in DOMAIN documents' : documents'[d] \in Document
    BY <1>1, <2>1 DEF Drop
  <2>. QED
    BY <1>2, <2>1, <2>2, DocumentsSpared
<1>8. CASE CommitShare(r) \/ revoke_share(r) \/ CommitOpen(r) \/ CommitUpload(r) \/ CommitDeleteFile(r)
  <2>1. Commit(r) /\ UNCHANGED documents
    BY <1>8 DEF CommitShare, revoke_share, CommitOpen, CommitUpload, CommitDeleteFile
  <2>. QED
    BY <1>1, <1>2, <2>1, DocumentsSpared
<1>9. CASE upload_file(r) \/ delete_file(r)
  <2>1. PICK op \in {"uploaded", "deleted_file"} :
          Go(r, [u EXCEPT !.op = op]) /\ u.op \in {"upload", "delete_file"} /\ UNCHANGED documents
    BY <1>9 DEF upload_file, delete_file, Doing
  <2>. PICK t : t = [u EXCEPT !.op = op]
    OBVIOUS
  <2>2. Go(r, t) /\ t.op \in {op, u.op}
    BY <2>1
  <2>. QED
    BY <1>1, <2>1, <2>2, DocumentsSpared DEF DocumentTyped
<1>10. CASE delete_document_endpoint(r) \/ revoke_share_endpoint(r)
  <2>1. PICK op \in {"delete_document", "revoke"} : \E i :
          Begin(r, [op |-> op, id |-> i]) /\ UNCHANGED documents
    BY <1>10 DEF delete_document_endpoint, revoke_share_endpoint, documentVars
  <2>. PICK i : Begin(r, [op |-> op, id |-> i])
    BY <2>1
  <2>. PICK t : t = [op |-> op, id |-> i]
    OBVIOUS
  <2>2. Begin(r, t) /\ t.op = op
    BY <2>1
  <2>. QED
    BY <1>1, <2>1, <2>2, DocumentsSpared DEF DocumentTyped
<1>11. CASE create_share_endpoint(r) \/ open_shared_endpoint(r) \/ upload_document_file(r)
  <2>1. PICK op \in {"create_share", "open", "upload"} : \E i, row :
          Begin(r, [op |-> op, id |-> i, row |-> row]) /\ UNCHANGED documents
    BY <1>11 DEF create_share_endpoint, open_shared_endpoint, upload_document_file, documentVars
  <2>. PICK i, row : Begin(r, [op |-> op, id |-> i, row |-> row])
    BY <2>1
  <2>. PICK t : t = [op |-> op, id |-> i, row |-> row]
    OBVIOUS
  <2>2. Begin(r, t) /\ t.op = op
    BY <2>1
  <2>. QED
    BY <1>1, <2>1, <2>2, DocumentsSpared DEF DocumentTyped
<1>12. CASE delete_document_file(r)
  <2>1. PICK i : Begin(r, [op |-> "delete_file", id |-> i]) /\ UNCHANGED documents
    BY <1>12 DEF delete_document_file, documentVars
  <2>. PICK t : t = [op |-> "delete_file", id |-> i]
    OBVIOUS
  <2>2. Begin(r, t) /\ t.op = "delete_file"
    BY <2>1
  <2>. QED
    BY <1>1, <2>1, <2>2, DocumentsSpared DEF DocumentTyped
<1>13. CASE Rollback(r) /\ UNCHANGED documentVars
  BY <1>1, <1>2, <1>13, DocumentsSpared DEF documentVars
<1>. QED
  BY <1>3, <1>4, <1>5, <1>6, <1>7, <1>8, <1>9, <1>10, <1>11, <1>12, <1>13 DEF DocumentStep

(* However edits, deletions and links race, every row has its type: what an *)
(* edit writes over a document leaves a document, and a link is to one that *)
(* is there.                                                                *)
THEOREM DocumentTypes == DocumentSpec => []DocumentTypeOK
<1>1. TransactionsInit /\ DocumentInit => DocumentRowsInv
  <2>. SUFFICES ASSUME TransactionsInit, DocumentInit PROVE DocumentRowsInv
    OBVIOUS
  <2>1. DOMAIN documents = {}
    BY DEF DocumentInit
  <2>2. Table /\ \A r \in Requests : txn[r].op = "idle"
    BY DEF TransactionsInit, Table, Idle
  <2>. QED
    BY <2>1, <2>2 DEF DocumentRowsInv, DocumentTyped
<1>2. DocumentRowsInv /\ [DocumentNext]_<<documentVars, txnVars>> => DocumentRowsInv'
  <2>. SUFFICES ASSUME DocumentRowsInv, [DocumentNext]_<<documentVars, txnVars>> PROVE DocumentRowsInv'
    OBVIOUS
  <2>1. CASE \E r \in Requests : DocumentStep(r) \/ (Rollback(r) /\ UNCHANGED documentVars)
    BY <2>1, DocumentRowsStep
  <2>2. CASE LinkExpires \/ UNCHANGED <<documentVars, txnVars>>
    BY <2>2 DEF LinkExpires, documentVars, txnVars, DocumentRowsInv, Table, DocumentTyped
  <2>. QED
    BY <2>1, <2>2 DEF DocumentNext
<1>3. DocumentInv /\ DocumentRowsInv => DocumentTypeOK
  BY DEF DocumentRowsInv, DocumentInv, Rows, DocumentTypeOK
<1>. QED
  BY <1>1, <1>2, <1>3, DocumentInvariant, PTL DEF DocumentSpec

-----------------------------------------------------------------------------
(* The roadmap and the daily mission (Missions).                            *)

(* One request claims the roadmap, and only before there is one.            *)
OneClaim ==
    /\ roadmap = NoRoadmap \/ roadmap \in Roadmap
    /\ generated = IF roadmap = NoRoadmap THEN 0 ELSE 1
    /\ \A r \in Requests : txn[r].op = "claimed" => roadmap = NoRoadmap
    /\ \A q, r \in Requests : txn[q].op = "claimed" /\ txn[r].op = "claimed" => q = r
    /\ \A r \in Requests : txn[r].op = "apply" => roadmap # NoRoadmap

(* What a request carries to its next step.                                 *)
Carries(t) ==
    /\ t.op \notin {"dashboard", "briefing"}
    /\ t.op = "ask" => t.next \in {"today", "custom"}
    /\ t.op = "claim" => \E k \in {"none"} \cup Gallery : t = [op |-> "claim", template |-> k]
    /\ t.op = "claimed" => t.template \in {"none"} \cup Gallery
    /\ t.op = "apply" => t.template \in Gallery /\ t.applied \in Roadmap

(* One request makes the day's mission, and only where there is none.       *)
FirstOfDay ==
    /\ \A r \in Requests : Inserting(r) => txn[r].day \notin DOMAIN missions
    /\ \A q, r \in Requests : Inserting(q) /\ Inserting(r) => q = r

(* The mission that t is going to complete is done, as the tasks are now.   *)
AllDone(t) ==
    LET n == _history_counts(missionTasks[t.task].day, With(t)) IN n[1] = n[2] /\ n[1] > 0

MissionInv ==
    /\ Table /\ DOMAIN alone = Requests
    /\ OneClaim /\ FirstOfDay
    /\ \A r \in Requests : Carries(txn[r])
    /\ \A r \in Requests : txn[r].op = "patched" /\ alone[r] /\ txn[r].completes => AllDone(txn[r])

(* A request goes on, or is rolled back, and no table is written.           *)
LEMMA MissionMoves ==
  ASSUME MissionInv, NEW r \in Requests, NEW t, txn'[r] = t, Table', (DOMAIN alone = Requests)',
         \A q \in Requests \ {r} : txn'[q] = txn[q] /\ alone'[q] = alone[q],
         Carries(t),
         t.op = "claimed" => roadmap = NoRoadmap /\ \A q \in Requests \ {r} : txn[q].op # "claimed",
         t.op = "apply" => roadmap # NoRoadmap,
         t.op \in {"today", "custom"} /\ t.new # << >> =>
           t.day \notin DOMAIN missions /\ \A q \in Requests \ {r} : ~Inserting(q),
         t.op = "patched" /\ alone'[r] /\ t.completes => AllDone(t),
         UNCHANGED <<roadmap, generated, missions, missionTasks>>
  PROVE  MissionInv'
<1>1. OneClaim'
  BY DEF MissionInv, OneClaim
<1>2. FirstOfDay'
  BY DEF MissionInv, FirstOfDay, Inserting, Carries
<1>3. \A q \in Requests : Carries(txn[q])'
  BY DEF MissionInv, Carries
<1>4. ASSUME NEW q \in Requests, txn'[q].op = "patched", alone'[q], txn'[q].completes
      PROVE  AllDone(txn[q])'
  <2> PICK u : u = txn'[q]
    OBVIOUS
  <2>1. AllDone(u)
    BY <1>4 DEF MissionInv
  <2>2. With(u)' = With(u) /\ missionTasks' = missionTasks
    BY DEF With
  <2>3. AllDone(u)'
    BY <2>1, <2>2 DEF AllDone
  <2>4. AllDone(u)' => AllDone(txn[q])'
    BY DEF AllDone, With
  <2> QED
    BY <2>3, <2>4
<1> QED
  BY <1>1, <1>2, <1>3, <1>4 DEF MissionInv

(* A request commits, and nobody else is alone any more.                    *)
LEMMA MissionCommits ==
  ASSUME MissionInv, NEW r \in Requests, Commit(r) \/ Serve(r),
         \/ UNCHANGED <<roadmap, generated>>
         \/ /\ roadmap' \in Roadmap /\ generated' = 1
            /\ \A q \in Requests \ {r} : txn[q].op # "claimed"
            /\ Commit(r),
         \A q \in Requests \ {r} : Inserting(q) => txn[q].day \notin DOMAIN missions'
  PROVE  MissionInv'
<1>1. /\ Table' /\ (DOMAIN alone = Requests)' /\ (txn'[r] = Idle)
      /\ \A q \in Requests \ {r} : txn'[q] = txn[q]
      /\ \A q \in Requests : alone'[q] => txn'[q] = Idle
  BY TableStep DEF Commit, Serve, MissionInv, Table
<1>2. Idle.op = "idle"
  BY DEF Idle
<1>3. OneClaim'
  BY <1>1, <1>2, NoRoadmapAssumption DEF MissionInv, OneClaim
<1>4. FirstOfDay'
  BY <1>1, <1>2 DEF MissionInv, FirstOfDay, Inserting
<1>5. \A q \in Requests : Carries(txn[q])'
  BY <1>1, <1>2 DEF MissionInv, Carries
<1>6. \A q \in Requests : ~(txn'[q].op = "patched" /\ alone'[q])
  BY <1>1, <1>2
<1> QED
  BY <1>1, <1>3, <1>4, <1>5, <1>6 DEF MissionInv

(* A request that begins or goes on with t.                                 *)
LEMMA MissionGoes ==
  ASSUME MissionInv, NEW r \in Requests, NEW t, Begin(r, t) \/ Go(r, t) \/ (Rollback(r) /\ t = Idle),
         Carries(t),
         t.op = "claimed" => roadmap = NoRoadmap /\ \A q \in Requests \ {r} : txn[q].op # "claimed",
         t.op = "apply" => roadmap # NoRoadmap,
         t.op \in {"today", "custom"} /\ t.new # << >> =>
           t.day \notin DOMAIN missions /\ \A q \in Requests \ {r} : ~Inserting(q),
         t.op = "patched" /\ t.completes => AllDone(t),
         UNCHANGED <<roadmap, generated, missions, missionTasks>>
  PROVE  MissionInv'
<1>1. /\ txn'[r] = t /\ Table' /\ (DOMAIN alone = Requests)'
      /\ \A q \in Requests \ {r} : txn'[q] = txn[q] /\ alone'[q] = alone[q]
  BY TableStep DEF Begin, Go, Rollback, MissionInv, Table
<1> QED
  BY <1>1, MissionMoves

(* The roadmap is asked for, claimed and made, and templates are applied.   *)
LEMMA RoadmapClaims ==
  ASSUME MissionInv, NEW r \in Requests,
         get_roadmap(r) \/ apply_template_ep(r) \/ generate_roadmap(r),
         UNCHANGED <<missions, missionTasks>>
  PROVE  MissionInv'
<1>1. UNCHANGED <<roadmap, generated>>
  BY DEF get_roadmap, apply_template_ep, generate_roadmap, roadmapVars
<1>2. CASE get_roadmap(r)
  <2> PICK t : t = [op |-> "claim", template |-> "none"]
    OBVIOUS
  <2>1. Begin(r, t) /\ t.op = "claim" /\ Carries(t)
    BY <1>2 DEF get_roadmap, Carries
  <2> QED
    BY <1>1, <2>1, MissionGoes
<1>3. CASE apply_template_ep(r)
  <2> PICK k \in Gallery :
        IF roadmap = NoRoadmap THEN Begin(r, [op |-> "claim", template |-> k])
        ELSE Begin(r, [op |-> "apply", template |-> k, applied |-> roadmap])
    BY <1>3 DEF apply_template_ep
  <2>1. CASE roadmap = NoRoadmap
    <3> PICK t : t = [op |-> "claim", template |-> k]
      OBVIOUS
    <3>1. Begin(r, t) /\ t.op = "claim" /\ Carries(t)
      BY <2>1 DEF Carries
    <3> QED
      BY <1>1, <3>1, MissionGoes
  <2>2. CASE roadmap # NoRoadmap
    <3> PICK t : t = [op |-> "apply", template |-> k, applied |-> roadmap]
      OBVIOUS
    <3>1. Begin(r, t) /\ t.op = "apply" /\ Carries(t)
      BY <2>2 DEF Carries, MissionInv, OneClaim
    <3> QED
      BY <1>1, <2>2, <3>1, MissionGoes
  <2> QED
    BY <2>1, <2>2
<1>4. CASE generate_roadmap(r)
  <2> PICK k \in {"none"} \cup Gallery : txn[r] = [op |-> "claim", template |-> k]
    BY <1>4 DEF generate_roadmap, Doing, MissionInv, Carries
  <2>1. txn[r].template = k /\ [txn[r] EXCEPT !.op = "claimed"] = [op |-> "claimed", template |-> k]
    OBVIOUS
  <2>2. CASE roadmap = NoRoadmap
    <3> PICK t : t = [op |-> "claimed", template |-> k]
      OBVIOUS
    <3>1. Go(r, t) /\ \A q \in Requests \ {r} : txn[q].op # "claimed"
      BY <1>4, <2>1, <2>2 DEF generate_roadmap, ClaimTaken, Others, Doing
    <3>2. t.op = "claimed" /\ Carries(t)
      BY DEF Carries
    <3> QED
      BY <1>1, <2>2, <3>1, <3>2, MissionGoes
  <2>3. CASE roadmap # NoRoadmap /\ k = "none"
    <3>1. Go(r, Idle)
      BY <1>4, <2>1, <2>3 DEF generate_roadmap, ClaimTaken
    <3>2. Idle.op = "idle" /\ Carries(Idle)
      BY DEF Idle, Carries
    <3> QED
      BY <1>1, <3>1, <3>2, MissionGoes
  <2>4. CASE roadmap # NoRoadmap /\ k # "none"
    <3> PICK t : t = [op |-> "apply", template |-> k, applied |-> roadmap]
      OBVIOUS
    <3>1. Go(r, t)
      BY <1>4, <2>1, <2>4 DEF generate_roadmap, ClaimTaken
    <3>2. t.op = "apply" /\ Carries(t)
      BY <2>4 DEF Carries, MissionInv, OneClaim
    <3> QED
      BY <1>1, <2>4, <3>1, <3>2, MissionGoes
  <2> QED
    BY <2>2, <2>3, <2>4
<1> QED
  BY <1>2, <1>3, <1>4

(* It is made once, by its claimant, and a template only adds to it.        *)
LEMMA RoadmapMade ==
  ASSUME MissionInv, NEW r \in Requests, CommitGenerate(r) \/ apply_template(r),
         UNCHANGED <<missions, missionTasks>>
  PROVE  MissionInv'
<1>1. \A q \in Requests \ {r} : Inserting(q) => txn[q].day \notin DOMAIN missions'
  BY DEF MissionInv, FirstOfDay
<1>2. CASE CommitGenerate(r)
  <2>1. txn[r].op = "claimed" /\ Commit(r) /\ generated' = generated + 1
    BY <1>2 DEF CommitGenerate, Doing
  <2>2. roadmap = NoRoadmap /\ generated' = 1 /\ \A q \in Requests \ {r} : txn[q].op # "claimed"
    BY <2>1 DEF MissionInv, OneClaim
  <2>3. roadmap' \in Roadmap
    <3>1. roadmap' = << >> \/ (roadmap' = <<txn[r].template>> /\ txn[r].template # "none")
      BY <1>2 DEF CommitGenerate
    <3>2. CASE roadmap' = << >>
      BY <3>2 DEF Roadmap
    <3>3. CASE roadmap' = <<txn[r].template>> /\ txn[r].template # "none"
      <4> DEFINE k == txn[r].template
      <4>1. k \in DOMAIN GALLERY_TEMPLATES
        BY <2>1, <3>3, GalleryAssumption DEF MissionInv, Carries
      <4> HIDE DEF k
      <4>2. <<k>> \in Seq(DOMAIN GALLERY_TEMPLATES)
        BY <4>1
      <4> QED
        BY <3>3, <4>2 DEF Roadmap, k
    <3> QED
      BY <3>1, <3>2, <3>3
  <2> QED
    BY <1>1, <2>1, <2>2, <2>3, MissionCommits
<1>3. CASE apply_template(r)
  <2>1. txn[r].op = "apply" /\ Commit(r)
    BY <1>3 DEF apply_template, Doing
  <2>2. /\ txn[r].template \in Gallery /\ txn[r].applied \in Roadmap
        /\ roadmap \in Roadmap /\ roadmap # NoRoadmap /\ generated = 1
        /\ \A q \in Requests : txn[q].op # "claimed"
    BY <2>1 DEF MissionInv, Carries, OneClaim
  <2>3. roadmap' \in Roadmap /\ generated' = 1
    <3>1. CASE UNCHANGED roadmapVars
      BY <2>2, <3>1 DEF roadmapVars
    <3>2. CASE roadmap' = Append(txn[r].applied, txn[r].template) /\ UNCHANGED <<generated, announced>>
      BY <2>2, <3>2, GalleryAssumption DEF Roadmap
    <3> QED
      BY <1>3, <3>1, <3>2 DEF apply_template
  <2> QED
    BY <1>1, <2>1, <2>2, <2>3, MissionCommits
<1> QED
  BY <1>2, <1>3

(* The roadmap's editors.                                                   *)
LEMMA RoadmapEdits ==
  ASSUME MissionInv, NEW r \in Requests,
         \/ create_task_ep(r) \/ update_task_ep(r) \/ delete_task_ep(r) \/ CommitTask(r)
         \/ update_milestone_ep(r) \/ CommitMilestone(r)
         \/ create_milestone_ep(r) \/ delete_milestone_ep(r)
         \/ create_phase(r) \/ update_phase(r) \/ delete_phase(r),
         UNCHANGED <<missions, missionTasks>>
  PROVE  MissionInv'
<1>1. UNCHANGED <<roadmap, generated>>
  BY DEF create_task_ep, update_task_ep, delete_task_ep, CommitTask, update_milestone_ep,
         CommitMilestone, create_milestone_ep, delete_milestone_ep, create_phase, update_phase,
         delete_phase, roadmapVars
<1>2. CASE create_task_ep(r) \/ update_task_ep(r) \/ delete_task_ep(r) \/ update_milestone_ep(r)
  <2>1. \E what \in {"new_task", "task", "milestone"} : \E i, m, was, status, ts, mstatus :
          Begin(r, Edit(what, i, m, was, status, ts, mstatus))
    BY <1>2 DEF create_task_ep, update_task_ep, delete_task_ep, update_milestone_ep
  <2>2. PICK t : Begin(r, t) /\ t.op \in {"new_task", "task", "milestone"}
    BY <2>1 DEF Edit
  <2>3. Carries(t)
    BY <2>2 DEF Carries
  <2> QED
    BY <1>1, <2>2, <2>3, MissionGoes
<1>3. CASE Commit(r) \/ Serve(r)
  BY <1>1, <1>3, MissionCommits DEF MissionInv, FirstOfDay
<1> QED
  BY <1>2, <1>3
     DEF CommitTask, CommitMilestone, create_milestone_ep, delete_milestone_ep, create_phase,
         update_phase, delete_phase

(* Whoever asks for the day's mission makes it where there is none.         *)
LEMMA MissionAsked ==
  ASSUME MissionInv, NEW r \in Requests,
         get_today(r) \/ create_task(r) \/ get_or_generate_today(r) \/ CommitMission(r)
  PROVE  MissionInv'
<1>1. CASE get_today(r) \/ create_task(r)
  <2>1. UNCHANGED <<roadmap, generated, missions, missionTasks>>
    BY <1>1 DEF get_today, create_task, roadmapVars, missionVars
  <2>2. \E what \in {"today", "custom"} :
          \/ Begin(r, [op |-> what, day |-> today, new |-> << >>])
          \/ Begin(r, [op |-> "ask", next |-> what, day |-> today])
    BY <1>1 DEF get_today, create_task, Ask
  <2>3. PICK t : /\ Begin(r, t)
                 /\ \/ t.op \in {"today", "custom"} /\ t.new = << >>
                    \/ t.op = "ask" /\ t.next \in {"today", "custom"}
    <3> PICK what \in {"today", "custom"} :
          \/ Begin(r, [op |-> what, day |-> today, new |-> << >>])
          \/ Begin(r, [op |-> "ask", next |-> what, day |-> today])
      BY <2>2
    <3> DEFINE mine == [op |-> what, day |-> today, new |-> << >>]
               ask == [op |-> "ask", next |-> what, day |-> today]
    <3>1. mine.op = what /\ mine.new = << >> /\ ask.op = "ask" /\ ask.next = what
      OBVIOUS
    <3>2. Begin(r, mine) \/ Begin(r, ask)
      OBVIOUS
    <3> HIDE DEF mine, ask
    <3> QED
      BY <3>1, <3>2
  <2>4. Carries(t)
    BY <2>3 DEF Carries
  <2> QED
    BY <2>1, <2>3, <2>4, MissionGoes
<1>2. CASE get_or_generate_today(r)
  <2>1. UNCHANGED <<roadmap, generated, missions, missionTasks>>
    BY <1>2 DEF get_or_generate_today, roadmapVars, missionVars
  <2>2. PICK new : Go(r, [op |-> txn[r].next, day |-> txn[r].day, new |-> new])
    BY <1>2 DEF get_or_generate_today
  <2> PICK t : t = [op |-> txn[r].next, day |-> txn[r].day, new |-> new]
    OBVIOUS
  <2>3. Go(r, t) /\ t.op \in {"today", "custom"} /\ t.day = txn[r].day
    BY <1>2, <2>2 DEF get_or_generate_today, Doing, MissionInv, Carries
  <2>4. Carries(t)
    BY <2>3 DEF Carries
  <2>5. t.day \notin DOMAIN missions /\ \A q \in Requests : ~Inserting(q)
    BY <1>2, <2>3 DEF get_or_generate_today
  <2> QED
    BY <2>1, <2>3, <2>4, <2>5, MissionGoes
<1>3. CASE CommitMission(r)
  <2>1. /\ txn[r].op \in {"today", "custom"} /\ Commit(r) /\ UNCHANGED <<roadmap, generated>>
        /\ missions' = IF txn[r].new = << >> THEN missions
                       ELSE Put(missions, txn[r].day, [by |-> txn[r].new[1].by, status |-> "pending"])
    BY <1>3 DEF CommitMission, roadmapVars
  <2>2. \A q \in Requests \ {r} : Inserting(q) => txn[q].day \notin DOMAIN missions'
    <3>1. CASE txn[r].new = << >>
      BY <2>1, <3>1 DEF MissionInv, FirstOfDay
    <3>2. CASE txn[r].new # << >>
      BY <2>1, <3>2 DEF MissionInv, FirstOfDay, Inserting
    <3> QED
      BY <3>1, <3>2
  <2> QED
    BY <2>1, <2>2, MissionCommits
<1> QED
  BY <1>1, <1>2, <1>3

(* A task's new status is flushed, and the mission looked at.               *)
LEMMA MissionPatched ==
  ASSUME MissionInv, NEW r \in Requests, patch_task(r) \/ complete_task(r)
  PROVE  MissionInv'
<1>1. UNCHANGED <<roadmap, generated, missions, missionTasks>>
  BY DEF patch_task, complete_task, roadmapVars, missionVars
<1>2. CASE patch_task(r)
  <2>1. PICK t : Begin(r, t) /\ t.op = "patch"
    BY <1>2 DEF patch_task
  <2>2. Carries(t)
    BY <2>1 DEF Carries
  <2> QED
    BY <1>1, <2>1, <2>2, MissionGoes
<1>3. CASE complete_task(r)
  <2> PICK t, u, completes :
        /\ t = txn[r]
        /\ u = [op |-> "patched", task |-> t.task, was |-> t.was, status |-> t.status, completes |-> completes]
        /\ Go(r, u)
        /\ completes => _maybe_complete_mission(missionTasks[t.task].day, With(t))
    BY <1>3 DEF complete_task
  <2>1. u.op = "patched" /\ u.completes = completes /\ With(u) = With(t) /\ u.task = t.task
    BY DEF With
  <2>2. Carries(u)
    BY <2>1 DEF Carries
  <2>3. completes => AllDone(u)
    BY <2>1 DEF AllDone, _maybe_complete_mission
  <2> QED
    BY <1>1, <2>1, <2>2, <2>3, MissionGoes
<1> QED
  BY <1>2, <1>3

(* The steps that leave the days' missions as they are.                     *)
LEMMA MissionKept ==
  ASSUME MissionInv, NEW r \in Requests,
         \/ CommitPatch(r) \/ reorder_task(r) \/ handle_mission_reason(r) \/ CommitReason(r)
         \/ get_settings(r) \/ patch_settings(r)
         \/ Rollback(r) /\ UNCHANGED <<roadmapVars, missionVars, today>>
  PROVE  MissionInv'
<1>1. UNCHANGED <<roadmap, generated>> /\ DOMAIN missions' = DOMAIN missions
  BY DEF CommitPatch, reorder_task, handle_mission_reason, CommitReason, get_settings,
         patch_settings, roadmapVars, missionVars
<1>2. CASE Commit(r) \/ Serve(r)
  BY <1>1, <1>2, MissionCommits DEF MissionInv, FirstOfDay
<1>3. CASE handle_mission_reason(r)
  <2>1. PICK t : Begin(r, t) /\ t.op = "reason"
    BY <1>3 DEF handle_mission_reason
  <2>2. Carries(t)
    BY <2>1 DEF Carries
  <2>3. UNCHANGED <<missions, missionTasks>>
    BY <1>3 DEF handle_mission_reason, missionVars
  <2> QED
    BY <1>1, <2>1, <2>2, <2>3, MissionGoes
<1>4. CASE Rollback(r) /\ UNCHANGED <<roadmapVars, missionVars, today>>
  <2>1. Carries(Idle) /\ Idle.op = "idle"
    BY DEF Idle, Carries
  <2>2. UNCHANGED <<missions, missionTasks>>
    BY <1>4 DEF missionVars
  <2> QED
    BY <1>1, <1>4, <2>1, <2>2, MissionGoes
<1> QED
  BY <1>2, <1>3, <1>4 DEF CommitPatch, reorder_task, CommitReason, get_settings, patch_settings

(* The invariant of the roadmap's claim and of the daily mission.           *)
LEMMA MissionInvariant == Spec => []MissionInv
<1>1. Init => MissionInv
  BY DEF Init, TransactionsInit, RoadmapInit, MissionInit, Idle, MissionInv, Table, OneClaim,
         FirstOfDay, Inserting, Carries
<1>2. MissionInv /\ [Next]_vars => MissionInv'
  <2> SUFFICES ASSUME MissionInv, [Next]_vars PROVE MissionInv'
    OBVIOUS
  <2>1. ASSUME NEW r \in Requests, MissionStep(r) PROVE MissionInv'
    BY <2>1, MissionAsked, MissionPatched, MissionKept DEF MissionStep
  <2>2. ASSUME NEW r \in Requests, RoadmapStep(r), UNCHANGED <<missionVars, today>> PROVE MissionInv'
    <3>1. UNCHANGED <<missions, missionTasks>>
      BY <2>2 DEF missionVars
    <3> QED
      BY <2>2, <3>1, RoadmapClaims, RoadmapMade, RoadmapEdits DEF RoadmapStep
  <2>3. CASE Midnight \/ UNCHANGED vars
    <3>1. UNCHANGED <<txn, alone, served, roadmap, generated, missions, missionTasks>>
      BY <2>3 DEF Midnight, vars, roadmapVars, missionVars, txnVars
    <3> QED
      BY <3>1 DEF MissionInv, Table, OneClaim, FirstOfDay, Inserting, AllDone, With, _history_counts
  <2> QED
    BY <2>1, <2>2, <2>3, MissionKept DEF Next
<1> QED
  BY <1>1, <1>2, PTL DEF Spec

(* However many requests ask for the roadmap at once, one is made and it is *)
(* announced once.                                                          *)
THEOREM MadeOnce == Spec => []GeneratedOnce
<1>1. MissionInv => GeneratedOnce
  BY DEF MissionInv, OneClaim, GeneratedOnce
<1> QED
  BY <1>1, MissionInvariant, PTL

(* A day's mission completes, while nobody else commits, only with every    *)
(* task that was not rejected done, and at least one.                       *)
THEOREM MissionsAreEarned == Spec => CompletionEarned
<1>1. ASSUME MissionInv, Next, NEW d \in DOMAIN missions, NEW r \in Requests,
             missions'[d].status # missions[d].status, txn'[r] # txn[r], alone[r]
      PROVE  LET n == mission_history(missions', missionTasks').missions[d].counts
             IN  n[1] = n[2] /\ n[1] > 0
  <2>1. ASSUME NEW q \in Requests, CommitMission(q) PROVE missions'[d] = missions[d]
    <3>1. /\ txn[q].op \in {"today", "custom"}
          /\ missions' = IF txn[q].new = << >> THEN missions
                         ELSE Put(missions, txn[q].day, [by |-> txn[q].new[1].by, status |-> "pending"])
      BY <2>1 DEF CommitMission
    <3>2. txn[q].new # << >> => txn[q].day # d
      BY <1>1, <3>1 DEF MissionInv, FirstOfDay, Inserting
    <3> QED
      BY <3>1, <3>2 DEF Put
  <2>2. ASSUME NEW q \in Requests,
               \/ get_today(q) \/ create_task(q) \/ get_or_generate_today(q) \/ patch_task(q)
               \/ complete_task(q) \/ reorder_task(q) \/ handle_mission_reason(q) \/ CommitReason(q)
               \/ get_settings(q) \/ patch_settings(q)
               \/ UNCHANGED <<missionVars, today>>
               \/ Rollback(q) /\ UNCHANGED <<roadmapVars, missionVars, today>>
        PROVE  missions' = missions
    BY <2>2 DEF get_today, create_task, get_or_generate_today, patch_task, complete_task,
                reorder_task, handle_mission_reason, CommitReason, get_settings, patch_settings,
                missionVars
  <2>3. Midnight => missions' = missions
    BY DEF Midnight, missionVars
  <2>4. PICK q \in Requests : CommitPatch(q)
    BY <1>1, <2>1, <2>2, <2>3 DEF Next, MissionStep
  <2>5. q = r
    BY <1>1, <2>4, TableStep DEF CommitPatch, MissionInv
  <2> PICK t : t = txn[r]
    OBVIOUS
  <2>6. /\ t.op = "patched" /\ missionTasks' = With(t)
        /\ missions' = IF t.completes
                       THEN [missions EXCEPT ![missionTasks[t.task].day].status = "complete"]
                       ELSE missions
    BY <2>4, <2>5 DEF CommitPatch, Doing
  <2>7. t.completes /\ d = missionTasks[t.task].day
    BY <1>1, <2>6
  <2>8. AllDone(t)
    BY <1>1, <2>6, <2>7 DEF MissionInv
  <2>9. mission_history(missions', missionTasks').missions[d].counts = _history_counts(d, missionTasks')
    <3>1. d \in DOMAIN missions'
      BY <2>6
    <3> QED
      BY <3>1 DEF mission_history
  <2> QED
    BY <2>6, <2>7, <2>8, <2>9 DEF AllDone
<1>2. MissionInv /\ [Next]_vars =>
        [\A d \in DOMAIN missions, r \in Requests :
           missions'[d].status # missions[d].status /\ txn'[r] # txn[r] /\ alone[r] =>
             LET n == mission_history(missions', missionTasks').missions[d].counts
             IN  n[1] = n[2] /\ n[1] > 0]_vars
  BY <1>1
<1> QED
  BY <1>2, MissionInvariant, PTL DEF Spec, CompletionEarned

-----------------------------------------------------------------------------
(* The progress of a milestone (Roadmaps).                                  *)

(* A template has at most two phases, of two milestones, of two tasks.      *)
Small(tmpl) ==
    /\ DOMAIN tmpl \subseteq 1..2
    /\ \A p \in DOMAIN tmpl :
         /\ DOMAIN tmpl[p] \subseteq 1..2
         /\ \A m \in DOMAIN tmpl[p] : tmpl[p][m][2] \in 1..2

MilestoneShape(x) ==
    x = [phase |-> x.phase, due |-> x.due, status |-> x.status, progress |-> x.progress, order |-> x.order]

(* The tasks as an edit is going to leave them.                             *)
Edited(t) ==
    IF t.op = "new_task" THEN Put(tasks, <<0>>, [milestone |-> t.milestone, status |-> t.status])
    ELSE IF t.op = "milestone" THEN tasks
    ELSE IF t.status = "deleted" THEN Restrict(tasks, DOMAIN tasks \ {t.id})
    ELSE [tasks EXCEPT ![t.id].status = t.status]

(* An edit has counted the tasks as it is going to leave them.              *)
Counted(t) ==
    /\ t.op = "task" => t.id \in DOMAIN tasks /\ t.was = tasks[t.id].status
    /\ t.op = "milestone" => t.id = t.milestone /\ t.was = milestones[t.id].status
    /\ t.op \in {"new_task", "task", "milestone"} =>
         /\ t.old = milestones[t.milestone].progress
         /\ t.new = recompute_milestone_progress(t.milestone,
                      IF t.op = "milestone" THEN t.status ELSE milestones[t.milestone].status, Edited(t))

(* Rows that are no template's are numbered.                                *)
TaskIds ==
    /\ built \in Nat /\ IsFiniteSet(DOMAIN tasks)
    /\ \A k : <<k>> \in DOMAIN tasks => k \in 1..built

MilestoneRecords == \A m \in DOMAIN milestones : MilestoneShape(milestones[m])

ProgressInv == TaskIds /\ MilestoneRecords /\ \A r \in Requests : alone[r] => Counted(txn[r])

(* The tasks that a milestone is shown with are those that count for it.    *)
LEMMA ShownCount ==
  ASSUME NEW ts, NEW m, NEW status
  PROVE  recompute_milestone_progress(m, status, Restrict(ts, TasksOf(ts, m)))
           = recompute_milestone_progress(m, status, ts)
<1>. DEFINE shown == Restrict(ts, TasksOf(ts, m))
<1>1. /\ DOMAIN shown = TasksOf(ts, m) /\ TasksOf(ts, m) \subseteq DOMAIN ts
      /\ \A t \in DOMAIN shown : shown[t] = ts[t] /\ ts[t].milestone = m
  BY DEF Restrict, TasksOf
<1>. HIDE DEF shown
<1>2. TasksOf(shown, m) = TasksOf(ts, m)
  <2>1. TasksOf(shown, m) = DOMAIN shown
    BY <1>1 DEF TasksOf
  <2>. QED
    BY <1>1, <2>1
<1>3. {t \in TasksOf(shown, m) : shown[t].status = "done"} = {t \in TasksOf(ts, m) : ts[t].status = "done"}
  BY <1>1, <1>2
<1>. QED
  BY <1>2, <1>3 DEF recompute_milestone_progress, shown

(* A task counts the same under any id that is new.                         *)
LEMMA NewTaskCounts ==
  ASSUME NEW ts, IsFiniteSet(DOMAIN ts), NEW a, NEW b, a \notin DOMAIN ts, b \notin DOMAIN ts,
         NEW m, NEW x, NEW y, x.milestone = m, y.milestone = m, x.status = y.status,
         NEW us, NEW vs, us = Put(ts, a, x), vs = Put(ts, b, y), NEW status
  PROVE  recompute_milestone_progress(m, status, us) = recompute_milestone_progress(m, status, vs)
<1>. DEFINE Counting == TasksOf(ts, m)
            Finished == {t \in Counting : ts[t].status = "done"}
<1>1. /\ DOMAIN us = DOMAIN ts \cup {a} /\ us[a] = x
      /\ \A t \in DOMAIN ts : us[t] = ts[t]
  BY DEF Put
<1>2. /\ DOMAIN vs = DOMAIN ts \cup {b} /\ vs[b] = y
      /\ \A t \in DOMAIN ts : vs[t] = ts[t]
  BY DEF Put
<1>3. IsFiniteSet(Counting) /\ IsFiniteSet(Finished) /\ a \notin Counting /\ b \notin Counting
  BY FS_Subset DEF TasksOf
<1>4. TasksOf(us, m) = Counting \cup {a} /\ TasksOf(vs, m) = Counting \cup {b}
  BY <1>1, <1>2 DEF TasksOf
<1>5. /\ {t \in TasksOf(us, m) : us[t].status = "done"} = Finished \cup IF x.status = "done" THEN {a} ELSE {}
      /\ {t \in TasksOf(vs, m) : vs[t].status = "done"} = Finished \cup IF x.status = "done" THEN {b} ELSE {}
  BY <1>1, <1>2, <1>4 DEF TasksOf
<1>. HIDE DEF Counting
<1>6. Cardinality(Counting \cup {a}) = Cardinality(Counting \cup {b})
  BY <1>3, FS_AddElement
<1>7. a \notin Finished /\ b \notin Finished
  BY <1>3
<1>. HIDE DEF Finished
<1>8. Cardinality(Finished \cup {a}) = Cardinality(Finished \cup {b})
  BY <1>3, <1>7, FS_AddElement
<1>. QED
  BY <1>4, <1>5, <1>6, <1>8 DEF recompute_milestone_progress

(* The templates are small.                                                 *)
LEMMA TemplatesAreSmall ==
  /\ Small(TemplateOf(Stage))
  /\ \A t \in DOMAIN GALLERY_TEMPLATES : Small(GALLERY_TEMPLATES[t])
<1>1. /\ Small(idea) /\ Small(validation) /\ Small(build) /\ Small(launch) /\ Small(growth) /\ Small(scale)
  BY DEF Small, idea, validation, build, launch, growth, scale
<1>2. /\ Small(validation_sprint) /\ Small(mvp_build) /\ Small(go_to_market) /\ Small(pre_seed_raise)
      /\ Small(company_formation) /\ Small(scale_playbook)
  BY DEF Small, validation_sprint, mvp_build, go_to_market, pre_seed_raise, company_formation, scale_playbook
<1>3. \A s \in DOMAIN STAGE_TEMPLATES : Small(STAGE_TEMPLATES[s])
  BY <1>1 DEF STAGE_TEMPLATES
<1>. QED
  BY <1>1, <1>2, <1>3 DEF TemplateOf, GALLERY_TEMPLATES, STAGE_TEMPLATES

(* The numbers of a template's tasks are among eight, so they are finite.   *)
LEMMA EightAreFinite ==
  ASSUME NEW a, NEW b, NEW c, NEW d, NEW e, NEW f, NEW g, NEW h
  PROVE  IsFiniteSet({a, b, c, d, e, f, g, h})
<1>1. ASSUME NEW S, IsFiniteSet(S), NEW x, NEW y PROVE IsFiniteSet(S \cup {x, y})
  <2>1. IsFiniteSet(S \cup {x})
    BY <1>1, FS_AddElement
  <2>2. IsFiniteSet((S \cup {x}) \cup {y})
    BY <2>1, FS_AddElement
  <2>3. (S \cup {x}) \cup {y} = S \cup {x, y}
    OBVIOUS
  <2>. QED
    BY <2>2, <2>3
<1>2. IsFiniteSet({} \cup {a, b})
  BY <1>1, FS_EmptySet
<1>3. IsFiniteSet(({} \cup {a, b}) \cup {c, d})
  BY <1>1, <1>2
<1>4. IsFiniteSet((({} \cup {a, b}) \cup {c, d}) \cup {e, f})
  BY <1>1, <1>3
<1>5. IsFiniteSet(((({} \cup {a, b}) \cup {c, d}) \cup {e, f}) \cup {g, h})
  BY <1>1, <1>4
<1>6. ((({} \cup {a, b}) \cup {c, d}) \cup {e, f}) \cup {g, h} = {a, b, c, d, e, f, g, h}
  OBVIOUS
<1>. QED
  BY <1>5, <1>6

(* The number of a task is that of its milestone with one more.             *)
LEMMA FourNumbers ==
  ASSUME NEW n \in Nat, NEW p \in Nat, NEW m \in Nat, NEW t \in Nat
  PROVE  <<n, p, m>> \o <<t>> = <<n, p, m, t>>
<1>. PICK a, b, c : a = <<n, p, m>> /\ b = <<t>> /\ c = <<n, p, m, t>>
  OBVIOUS
<1>1. /\ a \in Seq(Nat) /\ b \in Seq(Nat) /\ c \in Seq(Nat) /\ Len(a) = 3 /\ Len(b) = 1 /\ Len(c) = 4
      /\ c[1] = a[1] /\ c[2] = a[2] /\ c[3] = a[3] /\ c[4] = b[1]
  OBVIOUS
<1>2. a \o b \in Seq(Nat) /\ Len(a \o b) = 4
  BY <1>1
<1>3. \A k \in 1..4 : (a \o b)[k] = c[k]
  BY <1>1
<1>4. a \o b = c
  BY <1>1, <1>2, <1>3, SeqEqual
<1>. QED
  BY <1>4

(* A template's rows: milestones of their form, finitely many tasks, and    *)
(* none numbered as single rows are.                                        *)
LEMMA TreeRows ==
  ASSUME NEW n \in Nat, NEW tmpl, Small(tmpl)
  PROVE  /\ IsFiniteSet(DOMAIN TaskRows(n, tmpl))
         /\ \A k : <<k>> \notin DOMAIN TaskRows(n, tmpl)
         /\ \A m \in DOMAIN MilestoneRows(n, tmpl) : MilestoneShape(MilestoneRows(n, tmpl)[m])
<1>1. \A m \in DOMAIN MilestoneRows(n, tmpl) : MilestoneShape(MilestoneRows(n, tmpl)[m])
  BY DEF MilestoneRows, MilestoneShape
<1>2. \A i \in DOMAIN MilestoneRows(n, tmpl) :
        \E p \in 1..2, m \in 1..2 : i = <<n, p, m>> /\ tmpl[p][m][2] \in 1..2
  BY DEF MilestoneRows, Small
<1>3. ASSUME NEW i \in DOMAIN TaskRows(n, tmpl)
      PROVE  \E p \in 1..2, m \in 1..2, t \in 1..2 : i = <<n, p, m, t>>
  <2>1. PICK j \in DOMAIN MilestoneRows(n, tmpl) : \E t \in 1..tmpl[j[2]][j[3]][2] : i = j \o <<t>>
    BY <1>3 DEF TaskRows
  <2>2. PICK p \in 1..2, m \in 1..2 : j = <<n, p, m>> /\ tmpl[p][m][2] \in 1..2
    BY <1>2
  <2>3. PICK t \in 1..tmpl[p][m][2] : i = <<n, p, m>> \o <<t>>
    BY <2>1, <2>2
  <2>4. t \in 1..2
    BY <2>2
  <2>5. <<n, p, m>> \o <<t>> = <<n, p, m, t>>
    BY <2>4, FourNumbers
  <2>. QED
    BY <2>3, <2>4, <2>5
<1>. DEFINE ids == {<<n, 1, 1, 1>>, <<n, 1, 1, 2>>, <<n, 1, 2, 1>>, <<n, 1, 2, 2>>,
                    <<n, 2, 1, 1>>, <<n, 2, 1, 2>>, <<n, 2, 2, 1>>, <<n, 2, 2, 2>>}
<1>4. DOMAIN TaskRows(n, tmpl) \subseteq ids
  BY <1>3
<1>5. IsFiniteSet(DOMAIN TaskRows(n, tmpl))
  <2>1. IsFiniteSet(ids)
    BY EightAreFinite
  <2>. HIDE DEF ids
  <2>. QED
    BY <1>4, <2>1, FS_Subset
<1>6. \A k : <<k>> \notin DOMAIN TaskRows(n, tmpl)
  <2>1. \A k, p, m, t : <<k>> # <<n, p, m, t>>
    <3>1. \A k : DOMAIN <<k>> = 1..1
      OBVIOUS
    <3>2. \A p, m, t : DOMAIN <<n, p, m, t>> = 1..4
      OBVIOUS
    <3>. QED
      BY <3>1, <3>2
  <2>. QED
    BY <1>3, <2>1
<1>. QED
  BY <1>1, <1>5, <1>6

(* A template's tree is added to the rows.                                  *)
LEMMA TreeAdded ==
  ASSUME TaskIds, NEW ms, NEW ts, IsFiniteSet(DOMAIN ts),
         \A k : <<k>> \in DOMAIN ts => k \in 1..built,
         \A m \in DOMAIN ms : MilestoneShape(ms[m]),
         NEW tmpl, Small(tmpl), NEW n \in Nat, built' \in Nat, built' >= built,
         milestones' = PutAll(ms, MilestoneRows(n, tmpl)), tasks' = PutAll(ts, TaskRows(n, tmpl))
  PROVE  TaskIds' /\ MilestoneRecords'
<1>1. /\ IsFiniteSet(DOMAIN TaskRows(n, tmpl))
      /\ \A k : <<k>> \notin DOMAIN TaskRows(n, tmpl)
      /\ \A m \in DOMAIN MilestoneRows(n, tmpl) : MilestoneShape(MilestoneRows(n, tmpl)[m])
  BY TreeRows DEF TaskIds
<1>. PICK mrows, trows : mrows = MilestoneRows(n, tmpl) /\ trows = TaskRows(n, tmpl)
  OBVIOUS
<1>2. DOMAIN tasks' = DOMAIN ts \cup DOMAIN trows
  BY DEF PutAll
<1>3. TaskIds'
  <2>1. IsFiniteSet(DOMAIN ts \cup DOMAIN trows)
    BY <1>1, FS_Union
  <2>2. built \in Nat
    BY DEF TaskIds
  <2>. QED
    BY <1>1, <1>2, <2>1, <2>2 DEF TaskIds
<1>4. MilestoneRecords'
  <2>1. DOMAIN milestones' = DOMAIN ms \cup DOMAIN mrows
    BY DEF PutAll
  <2>2. \A m \in DOMAIN milestones' : milestones'[m] = IF m \in DOMAIN mrows THEN mrows[m] ELSE ms[m]
    BY DEF PutAll
  <2>. QED
    BY <1>1, <2>1, <2>2 DEF MilestoneRecords
<1>. QED
  BY <1>3, <1>4

(* A request begins, goes on or is rolled back.                             *)
LEMMA ProgressMoves ==
  ASSUME MissionInv, ProgressInv, NEW r \in Requests, NEW t,
         Begin(r, t) \/ Go(r, t) \/ (Rollback(r) /\ t = Idle),
         alone[r] => Counted(t), UNCHANGED roadmapVars
  PROVE  ProgressInv'
<1>1. /\ txn'[r] = t /\ \A q \in Requests \ {r} : txn'[q] = txn[q] /\ alone'[q] = alone[q]
      /\ alone'[r] => alone[r] \/ t.op = "idle"
  BY TableStep DEF Begin, Go, Rollback, MissionInv, Table, Idle
<1>2. TaskIds' /\ MilestoneRecords'
  BY DEF ProgressInv, TaskIds, MilestoneRecords, roadmapVars
<1>3. ASSUME NEW u, Counted(u) PROVE Counted(u)'
  BY <1>3 DEF Counted, Edited, roadmapVars
<1>4. ASSUME NEW q \in Requests, alone'[q] PROVE Counted(txn[q])'
  <2>. PICK u : u = txn'[q]
    OBVIOUS
  <2>1. Counted(u)
    BY <1>1, <1>4 DEF ProgressInv, Counted
  <2>2. Counted(u)'
    BY <1>3, <2>1
  <2>. QED
    BY <2>2 DEF Counted, Edited
<1>. QED
  BY <1>2, <1>4 DEF ProgressInv

(* A request commits, and nobody else is alone any more.                    *)
LEMMA ProgressCommits ==
  ASSUME MissionInv, ProgressInv, NEW r \in Requests, Commit(r) \/ Serve(r), TaskIds', MilestoneRecords'
  PROVE  ProgressInv'
<1>1. \A q \in Requests : alone'[q] => txn'[q] = Idle
  BY TableStep DEF Commit, Serve, MissionInv, Table
<1>2. Idle.op = "idle"
  BY DEF Idle
<1>. QED
  BY <1>1, <1>2 DEF ProgressInv, Counted

(* A request that is not an editor's begins or goes on.                     *)
LEMMA ProgressSpared ==
  ASSUME MissionInv, ProgressInv, NEW r \in Requests, UNCHANGED roadmapVars,
         \/ Serve(r) \/ Commit(r) \/ Rollback(r)
         \/ \E t : (Begin(r, t) \/ Go(r, t)) /\ t.op \notin {"new_task", "task", "milestone"}
  PROVE  ProgressInv'
<1>1. CASE Serve(r) \/ Commit(r)
  <2>1. TaskIds' /\ MilestoneRecords'
    BY DEF ProgressInv, TaskIds, MilestoneRecords, roadmapVars
  <2>. QED
    BY <1>1, <2>1, ProgressCommits
<1>2. CASE Rollback(r)
  <2>. PICK t : t = Idle
    OBVIOUS
  <2>1. Counted(t)
    BY DEF Idle, Counted
  <2>. QED
    BY <1>2, <2>1, ProgressMoves
<1>3. ASSUME NEW t, Begin(r, t) \/ Go(r, t), t.op \notin {"new_task", "task", "milestone"}
      PROVE  ProgressInv'
  <2>1. Counted(t)
    BY <1>3 DEF Counted
  <2>. QED
    BY <1>3, <2>1, ProgressMoves
<1>. QED
  BY <1>1, <1>2, <1>3

(* Nor does a mission touch the roadmap.                                    *)
LEMMA MissionsSpareRoadmap ==
  ASSUME MissionInv, NEW r \in Requests, MissionStep(r)
  PROVE  /\ UNCHANGED roadmapVars
         /\ \/ Serve(r) \/ Commit(r)
            \/ \E t : (Begin(r, t) \/ Go(r, t)) /\ t.op \notin {"new_task", "task", "milestone", "apply"}
<1>1. CASE get_today(r) \/ create_task(r)
  <2>1. UNCHANGED roadmapVars /\ \E what \in {"today", "custom"} : Ask(r, what)
    BY <1>1 DEF get_today, create_task
  <2>2. PICK what \in {"today", "custom"} : Ask(r, what)
    BY <2>1
  <2>3. \/ Begin(r, [op |-> what, day |-> today, new |-> << >>])
        \/ Begin(r, [op |-> "ask", next |-> what, day |-> today])
    BY <2>2 DEF Ask
  <2>4. \A new : [op |-> what, day |-> today, new |-> new].op = what
    OBVIOUS
  <2>5. [op |-> "ask", next |-> what, day |-> today].op = "ask"
    OBVIOUS
  <2>. QED
    BY <2>1, <2>3, <2>4, <2>5
<1>2. CASE get_or_generate_today(r)
  <2>1. PICK new : Go(r, [op |-> txn[r].next, day |-> txn[r].day, new |-> new])
    BY <1>2 DEF get_or_generate_today
  <2>2. txn[r].next \in {"today", "custom"}
    BY <1>2 DEF get_or_generate_today, Doing, MissionInv, Carries
  <2>3. [op |-> txn[r].next, day |-> txn[r].day, new |-> new].op = txn[r].next
    OBVIOUS
  <2>. QED
    BY <1>2, <2>1, <2>2, <2>3 DEF get_or_generate_today
<1>3. CASE patch_task(r)
  <2>1. PICK a, b, c : Begin(r, [op |-> "patch", task |-> a, was |-> b, status |-> c])
    BY <1>3 DEF patch_task
  <2>2. [op |-> "patch", task |-> a, was |-> b, status |-> c].op = "patch"
    OBVIOUS
  <2>. QED
    BY <1>3, <2>1, <2>2 DEF patch_task
<1>4. CASE complete_task(r)
  <2>1. PICK a, b, c, d : Go(r, [op |-> "patched", task |-> a, was |-> b, status |-> c, completes |-> d])
    BY <1>4 DEF complete_task
  <2>2. [op |-> "patched", task |-> a, was |-> b, status |-> c, completes |-> d].op = "patched"
    OBVIOUS
  <2>. QED
    BY <1>4, <2>1, <2>2 DEF complete_task
<1>5. CASE handle_mission_reason(r)
  <2>1. PICK a, b : Begin(r, [op |-> "reason", day |-> a, tasks |-> b])
    BY <1>5 DEF handle_mission_reason
  <2>2. [op |-> "reason", day |-> a, tasks |-> b].op = "reason"
    OBVIOUS
  <2>. QED
    BY <1>5, <2>1, <2>2 DEF handle_mission_reason
<1>6. CASE \/ CommitMission(r) \/ CommitPatch(r) \/ reorder_task(r) \/ CommitReason(r)
           \/ get_settings(r) \/ patch_settings(r)
  BY <1>6 DEF CommitMission, CommitPatch, reorder_task, CommitReason, get_settings, patch_settings
<1>. QED
  BY <1>1, <1>2, <1>3, <1>4, <1>5, <1>6 DEF MissionStep

(* The roadmap is asked for, or an edit is begun, which counts the tasks.   *)
LEMMA EditsCount ==
  ASSUME MissionInv, ProgressInv, NEW r \in Requests,
         \/ get_roadmap(r) \/ apply_template_ep(r) \/ generate_roadmap(r)
         \/ create_task_ep(r) \/ update_task_ep(r) \/ delete_task_ep(r) \/ update_milestone_ep(r)
  PROVE  ProgressInv'
<1>1. UNCHANGED roadmapVars
  BY DEF get_roadmap, apply_template_ep, generate_roadmap, create_task_ep, update_task_ep,
         delete_task_ep, update_milestone_ep
<1>2. CASE get_roadmap(r) \/ apply_template_ep(r)
  <2>1. \/ \E k : Begin(r, [op |-> "claim", template |-> k])
        \/ \E k : Begin(r, [op |-> "apply", template |-> k, applied |-> roadmap])
    BY <1>2 DEF get_roadmap, apply_template_ep
  <2>2. \A k : /\ [op |-> "claim", template |-> k].op = "claim"
               /\ [op |-> "apply", template |-> k, applied |-> roadmap].op = "apply"
    OBVIOUS
  <2>. QED
    BY <1>1, <2>1, <2>2, ProgressSpared
<1>3. CASE generate_roadmap(r)
  <2>. PICK u : u = txn[r]
    OBVIOUS
  <2>1. u.op = "claim" /\ \E k \in {"none"} \cup Gallery : u = [op |-> "claim", template |-> k]
    BY <1>3 DEF generate_roadmap, Doing, MissionInv, Carries
  <2>2. \E t : Go(r, t) /\ (t = [u EXCEPT !.op = "claimed"] \/ t = Idle \/ \E a, b : t = [op |-> "apply", template |-> a, applied |-> b])
    BY <1>3 DEF generate_roadmap
  <2>3. PICK t : /\ Go(r, t)
                 /\ \/ t = [u EXCEPT !.op = "claimed"] \/ t = Idle
                    \/ \E a, b : t = [op |-> "apply", template |-> a, applied |-> b]
    BY <2>2
  <2>4. t.op \in {"claimed", "idle", "apply"}
    BY <2>1, <2>3 DEF Idle
  <2>. QED
    BY <1>1, <2>3, <2>4, ProgressSpared
<1>4. CASE create_task_ep(r)
  <2>1. PICK m \in DOMAIN milestones, s \in Statuses :
          Begin(r, Edit("new_task", NoRoadmap, m, "none", s,
                        Put(tasks, <<0>>, [milestone |-> m, status |-> s]), milestones[m].status))
    BY <1>4 DEF create_task_ep
  <2>. PICK t : t = Edit("new_task", NoRoadmap, m, "none", s,
                         Put(tasks, <<0>>, [milestone |-> m, status |-> s]), milestones[m].status)
    OBVIOUS
  <2>2. /\ t.op = "new_task" /\ t.milestone = m /\ t.status = s /\ t.old = milestones[m].progress
        /\ t.new = recompute_milestone_progress(m, milestones[m].status,
                     Put(tasks, <<0>>, [milestone |-> m, status |-> s]))
    BY DEF Edit
  <2>3. Counted(t)
    BY <2>2 DEF Counted, Edited
  <2>. QED
    BY <1>1, <2>1, <2>3, ProgressMoves
<1>5. CASE update_task_ep(r)
  <2>1. PICK i \in DOMAIN tasks, s \in Statuses :
          Begin(r, Edit("task", i, tasks[i].milestone, tasks[i].status, s, [tasks EXCEPT ![i].status = s],
                        milestones[tasks[i].milestone].status))
    BY <1>5 DEF update_task_ep
  <2>. PICK t : t = Edit("task", i, tasks[i].milestone, tasks[i].status, s, [tasks EXCEPT ![i].status = s],
                         milestones[tasks[i].milestone].status)
    OBVIOUS
  <2>. PICK m : m = tasks[i].milestone
    OBVIOUS
  <2>2. /\ t.op = "task" /\ t.id = i /\ t.milestone = m /\ t.was = tasks[i].status /\ t.status = s
        /\ t.old = milestones[m].progress
        /\ t.new = recompute_milestone_progress(m, milestones[m].status, [tasks EXCEPT ![i].status = s])
    BY DEF Edit
  <2>3. s # "deleted"
    BY DEF Statuses
  <2>4. Counted(t)
    BY <2>2, <2>3 DEF Counted, Edited
  <2>. QED
    BY <1>1, <2>1, <2>4, ProgressMoves
<1>6. CASE delete_task_ep(r)
  <2>1. PICK i \in DOMAIN tasks :
          Begin(r, Edit("task", i, tasks[i].milestone, tasks[i].status, "deleted", Restrict(tasks, DOMAIN tasks \ {i}),
                        milestones[tasks[i].milestone].status))
    BY <1>6 DEF delete_task_ep
  <2>. PICK t : t = Edit("task", i, tasks[i].milestone, tasks[i].status, "deleted", Restrict(tasks, DOMAIN tasks \ {i}),
                         milestones[tasks[i].milestone].status)
    OBVIOUS
  <2>. PICK m : m = tasks[i].milestone
    OBVIOUS
  <2>2. /\ t.op = "task" /\ t.id = i /\ t.milestone = m /\ t.was = tasks[i].status /\ t.status = "deleted"
        /\ t.old = milestones[m].progress
        /\ t.new = recompute_milestone_progress(m, milestones[m].status, Restrict(tasks, DOMAIN tasks \ {i}))
    BY DEF Edit
  <2>3. Counted(t)
    BY <2>2 DEF Counted, Edited
  <2>. QED
    BY <1>1, <2>1, <2>3, ProgressMoves
<1>7. CASE update_milestone_ep(r)
  <2>1. PICK m \in DOMAIN milestones, s \in Statuses :
          Begin(r, Edit("milestone", m, m, milestones[m].status, s, tasks, s))
    BY <1>7 DEF update_milestone_ep
  <2>. PICK t : t = Edit("milestone", m, m, milestones[m].status, s, tasks, s)
    OBVIOUS
  <2>2. /\ t.op = "milestone" /\ t.id = m /\ t.milestone = m /\ t.was = milestones[m].status /\ t.status = s
        /\ t.old = milestones[m].progress /\ t.new = recompute_milestone_progress(m, s, tasks)
    BY DEF Edit
  <2>3. Counted(t)
    BY <2>2 DEF Counted, Edited
  <2>. QED
    BY <1>1, <2>1, <2>3, ProgressMoves
<1>. QED
  BY <1>2, <1>3, <1>4, <1>5, <1>6, <1>7

(* A milestone's progress is written.                                       *)
LEMMA MilestoneWritten ==
  ASSUME NEW ms, NEW t, NEW m \in DOMAIN ms, MilestoneShape(ms[m])
  PROVE  /\ MilestoneShape(Progressed(ms, t)[m])
         /\ Progressed(ms, t)[m].status = ms[m].status
         /\ t.milestone = m /\ t.old = ms[m].progress => Progressed(ms, t)[m].progress = t.new
<1>1. CASE t.new = t.old \/ t.milestone # m
  BY <1>1 DEF Progressed
<1>2. CASE t.new # t.old /\ t.milestone = m
  <2>. PICK old : old = ms[m]
    OBVIOUS
  <2>. PICK row : row = [old EXCEPT !.progress = t.new]
    OBVIOUS
  <2>1. Progressed(ms, t)[m] = row
    BY <1>2 DEF Progressed
  <2>2. old = [phase |-> old.phase, due |-> old.due, status |-> old.status, progress |-> old.progress, order |-> old.order]
    BY DEF MilestoneShape
  <2>3. row = [phase |-> old.phase, due |-> old.due, status |-> old.status, progress |-> t.new, order |-> old.order]
    BY <2>2
  <2>4. MilestoneShape(row) /\ row.status = old.status /\ row.progress = t.new
    BY <2>3 DEF MilestoneShape
  <2>. QED
    BY <2>1, <2>4
<1>. QED
  BY <1>1, <1>2

(* Templates are applied: one tree is added, or two where there is none.    *)
LEMMA TemplatesApplied ==
  ASSUME MissionInv, ProgressInv, NEW r \in Requests, CommitGenerate(r) \/ apply_template(r)
  PROVE  ProgressInv'
<1>1. TaskIds /\ MilestoneRecords /\ built \in Nat
  BY DEF ProgressInv, TaskIds
<1>2. /\ IsFiniteSet(DOMAIN << >>) /\ (\A k : <<k>> \in DOMAIN << >> => k \in 1..built)
      /\ \A m \in DOMAIN << >> : MilestoneShape(<< >>[m])
  <2>1. DOMAIN << >> = {}
    OBVIOUS
  <2>. QED
    BY <2>1, FS_EmptySet
<1>3. ASSUME NEW ps, NEW ms, NEW ts, NEW tmpl, Small(tmpl), AddTree(ps, ms, ts, <<tmpl>>),
             \/ ms = milestones /\ ts = tasks
             \/ ms = << >> /\ ts = << >>
      PROVE  TaskIds' /\ MilestoneRecords'
  <2>1. /\ built' = built + 1
        /\ milestones' = PutAll(ms, MilestoneRows(built + 1, tmpl))
        /\ tasks' = PutAll(ts, TaskRows(built + 1, tmpl))
    BY <1>3 DEF AddTree
  <2>2. /\ IsFiniteSet(DOMAIN ts) /\ (\A k : <<k>> \in DOMAIN ts => k \in 1..built)
        /\ \A m \in DOMAIN ms : MilestoneShape(ms[m])
    BY <1>1, <1>2, <1>3 DEF TaskIds, MilestoneRecords
  <2>3. built + 1 \in Nat /\ built' \in Nat /\ built' >= built
    BY <1>1, <2>1
  <2>. QED
    BY <1>1, <1>3, <2>1, <2>2, <2>3, TreeAdded
<1>4. ASSUME NEW a, Small(a), NEW b, Small(b), AddTree(<< >>, << >>, << >>, <<a, b>>)
      PROVE  TaskIds' /\ MilestoneRecords'
  <2>1. /\ built' = built + 2
        /\ milestones' = PutAll(MilestoneRows(built + 1, a), MilestoneRows(built + 1 + 1, b))
        /\ tasks' = PutAll(TaskRows(built + 1, a), TaskRows(built + 1 + 1, b))
    BY <1>4 DEF AddTree
  <2>2. built + 1 \in Nat /\ built + 1 + 1 \in Nat /\ built' \in Nat /\ built' >= built
    BY <1>1, <2>1
  <2>3. /\ IsFiniteSet(DOMAIN TaskRows(built + 1, a))
        /\ \A k : <<k>> \in DOMAIN TaskRows(built + 1, a) => k \in 1..built
        /\ \A m \in DOMAIN MilestoneRows(built + 1, a) : MilestoneShape(MilestoneRows(built + 1, a)[m])
    BY <1>4, <2>2, TreeRows
  <2>. QED
    BY <1>1, <1>4, <2>1, <2>2, <2>3, TreeAdded
<1>5. CASE CommitGenerate(r)
  <2>1. Doing(r, "claimed") /\ Commit(r)
    BY <1>5 DEF CommitGenerate
  <2>2. CASE txn[r].template = "none"
    <3>1. AddTree(<< >>, << >>, << >>, <<TemplateOf(Stage)>>)
      BY <1>5, <2>2 DEF CommitGenerate
    <3>2. TaskIds' /\ MilestoneRecords'
      BY <1>3, <3>1, TemplatesAreSmall
    <3>. QED
      BY <2>1, <3>2, ProgressCommits
  <2>3. CASE txn[r].template # "none"
    <3>1. AddTree(<< >>, << >>, << >>, <<TemplateOf(Stage), GALLERY_TEMPLATES[txn[r].template]>>)
      BY <1>5, <2>3 DEF CommitGenerate
    <3>2. txn[r].template \in DOMAIN GALLERY_TEMPLATES
      BY <2>1, <2>3, GalleryAssumption DEF MissionInv, Carries, Doing
    <3>3. TaskIds' /\ MilestoneRecords'
      BY <1>4, <3>1, <3>2, TemplatesAreSmall
    <3>. QED
      BY <2>1, <3>3, ProgressCommits
  <2>. QED
    BY <2>2, <2>3
<1>6. CASE apply_template(r)
  <2>1. Doing(r, "apply") /\ Commit(r)
    BY <1>6 DEF apply_template
  <2>2. CASE UNCHANGED roadmapVars
    BY <2>1, <2>2, ProgressSpared
  <2>3. CASE AddTree(phases, milestones, tasks, <<GALLERY_TEMPLATES[txn[r].template]>>)
    <3>1. txn[r].template \in DOMAIN GALLERY_TEMPLATES
      BY <2>1, GalleryAssumption DEF MissionInv, Carries, Doing
    <3>2. TaskIds' /\ MilestoneRecords'
      BY <1>3, <2>3, <3>1, TemplatesAreSmall
    <3>. QED
      BY <2>1, <3>2, ProgressCommits
  <2>. QED
    BY <1>6, <2>2, <2>3 DEF apply_template
<1>. QED
  BY <1>5, <1>6

(* A task is written as its edit has counted it.                            *)
LEMMA TaskCommits ==
  ASSUME MissionInv, ProgressInv, NEW r \in Requests, CommitTask(r)
  PROVE  /\ ProgressInv'
         /\ alone[r] =>
              /\ txn[r].milestone \in DOMAIN milestones'
              /\ milestones'[txn[r].milestone].progress =
                   recompute_milestone_progress(txn[r].milestone, milestones'[txn[r].milestone].status, tasks')
<1>. PICK t : t = txn[r]
  OBVIOUS
<1>. PICK m : m = t.milestone
  OBVIOUS
<1>1. /\ t.op \in {"new_task", "task"} /\ m \in DOMAIN milestones
      /\ milestones' = Progressed(milestones, t) /\ Commit(r)
  BY DEF CommitTask, _milestone
<1>2. /\ built \in Nat /\ IsFiniteSet(DOMAIN tasks) /\ \A k : <<k>> \in DOMAIN tasks => k \in 1..built
      /\ \A n \in DOMAIN milestones : MilestoneShape(milestones[n])
  BY DEF ProgressInv, TaskIds, MilestoneRecords
<1>3. /\ DOMAIN milestones' = DOMAIN milestones
      /\ \A n \in DOMAIN milestones : MilestoneShape(milestones'[n]) /\ milestones'[n].status = milestones[n].status
      /\ t.old = milestones[m].progress => milestones'[m].progress = t.new
  <2>1. DOMAIN milestones' = DOMAIN milestones
    BY <1>1 DEF Progressed
  <2>2. ASSUME NEW n \in DOMAIN milestones
        PROVE  /\ MilestoneShape(milestones'[n]) /\ milestones'[n].status = milestones[n].status
               /\ t.milestone = n /\ t.old = milestones[n].progress => milestones'[n].progress = t.new
    BY <1>1, <1>2, MilestoneWritten
  <2>. QED
    BY <1>1, <2>1, <2>2
<1>4. MilestoneRecords'
  BY <1>3 DEF MilestoneRecords
<1>5. alone[r] => /\ t.op = "task" => t.id \in DOMAIN tasks /\ t.was = tasks[t.id].status
                  /\ t.old = milestones[m].progress
                  /\ t.new = recompute_milestone_progress(m, milestones[m].status, Edited(t))
  BY <1>1 DEF ProgressInv, Counted
<1>6. CASE t.op = "new_task"
  <2>. PICK order : order = NextOrder({tasks[i].order : i \in TasksOf(tasks, m)})
    OBVIOUS
  <2>. PICK row : row = [milestone |-> m, status |-> t.status, order |-> order]
    OBVIOUS
  <2>. PICK id : id = <<built + 1>>
    OBVIOUS
  <2>1. built' = built + 1 /\ tasks' = Put(tasks, id, row)
    BY <1>6 DEF CommitTask, Doing
  <2>2. id \notin DOMAIN tasks /\ <<0>> \notin DOMAIN tasks
    <3>1. built + 1 \notin 1..built /\ 0 \notin 1..built
      BY <1>2
    <3>. QED
      BY <1>2, <3>1
  <2>3. TaskIds'
    <3>1. DOMAIN tasks' = DOMAIN tasks \cup {id}
      BY <2>1 DEF Put
    <3>2. IsFiniteSet(DOMAIN tasks \cup {id})
      BY <1>2, FS_AddElement
    <3>3. \A k : <<k>> = id => k = built + 1
      OBVIOUS
    <3>4. \A k : <<k>> \in DOMAIN tasks' => k \in 1..built'
      BY <1>2, <2>1, <3>1, <3>3
    <3>. QED
      BY <1>2, <2>1, <3>1, <3>2, <3>4 DEF TaskIds
  <2>4. ASSUME alone[r]
        PROVE  t.new = recompute_milestone_progress(m, milestones[m].status, tasks')
    <3>. PICK new : new = [milestone |-> m, status |-> t.status]
      OBVIOUS
    <3>1. /\ new.milestone = m /\ row.milestone = m /\ new.status = row.status
          /\ Edited(t) = Put(tasks, <<0>>, new)
      BY <1>6 DEF Edited
    <3>. PICK us, vs, s : us = Put(tasks, <<0>>, new) /\ vs = Put(tasks, id, row) /\ s = milestones[m].status
      OBVIOUS
    <3>2. recompute_milestone_progress(m, s, us) = recompute_milestone_progress(m, s, vs)
      BY <1>2, <2>2, <3>1, NewTaskCounts
    <3>. QED
      BY <1>5, <2>1, <2>4, <3>1, <3>2
  <2>5. ProgressInv'
    BY <1>1, <1>4, <2>3, ProgressCommits
  <2>. QED
    BY <1>1, <1>3, <1>5, <2>4, <2>5
<1>7. CASE t.op = "task"
  <2>1. /\ tasks' = IF t.status = "deleted" THEN Restrict(tasks, DOMAIN tasks \ {t.id})
                    ELSE [tasks EXCEPT ![t.id].status = Written(tasks[t.id].status, t)]
        /\ UNCHANGED built
    BY <1>7 DEF CommitTask, Doing
  <2>2. DOMAIN tasks' \subseteq DOMAIN tasks
    BY <2>1 DEF Restrict
  <2>3. TaskIds'
    BY <1>2, <2>1, <2>2, FS_Subset DEF TaskIds
  <2>4. alone[r] => tasks' = Edited(t)
    BY <1>5, <1>7, <2>1 DEF Edited, Written
  <2>5. ProgressInv'
    BY <1>1, <1>4, <2>3, ProgressCommits
  <2>. QED
    BY <1>1, <1>3, <1>5, <2>4, <2>5
<1>. QED
  BY <1>1, <1>6, <1>7

(* A milestone's new status is written, and what it counts for.             *)
LEMMA MilestoneCommits ==
  ASSUME MissionInv, ProgressInv, NEW r \in Requests, CommitMilestone(r)
  PROVE  /\ ProgressInv'
         /\ alone[r] =>
              /\ txn[r].milestone \in DOMAIN milestones'
              /\ milestones'[txn[r].milestone].progress =
                   recompute_milestone_progress(txn[r].milestone, milestones'[txn[r].milestone].status, tasks')
<1>. PICK t : t = txn[r]
  OBVIOUS
<1>. PICK m : m = t.id
  OBVIOUS
<1>. PICK old : old = milestones[m]
  OBVIOUS
<1>1. PICK row : row = [old EXCEPT !.status = Written(old.status, t)]
  OBVIOUS
<1>2. PICK ms : ms = [milestones EXCEPT ![m] = row]
  OBVIOUS
<1>3. /\ t.op = "milestone" /\ m \in DOMAIN milestones /\ UNCHANGED <<tasks, built>>
      /\ milestones' = Progressed(ms, t) /\ Commit(r)
  BY <1>1, <1>2 DEF CommitMilestone, Doing, _milestone
<1>4. \A n \in DOMAIN milestones : MilestoneShape(milestones[n])
  BY DEF ProgressInv, MilestoneRecords
<1>5. /\ MilestoneShape(row) /\ row.status = Written(old.status, t) /\ row.progress = old.progress
  <2>. PICK s : s = Written(old.status, t)
    OBVIOUS
  <2>1. old = [phase |-> old.phase, due |-> old.due, status |-> old.status, progress |-> old.progress, order |-> old.order]
    BY <1>3, <1>4 DEF MilestoneShape
  <2>2. row = [phase |-> old.phase, due |-> old.due, status |-> s, progress |-> old.progress, order |-> old.order]
    BY <1>1, <2>1
  <2>. QED
    BY <2>2 DEF MilestoneShape
<1>6. /\ DOMAIN ms = DOMAIN milestones /\ ms[m] = row
      /\ \A n \in DOMAIN ms : MilestoneShape(ms[n])
  BY <1>2, <1>3, <1>4, <1>5
<1>7. /\ DOMAIN milestones' = DOMAIN milestones
      /\ \A n \in DOMAIN milestones : MilestoneShape(milestones'[n])
      /\ milestones'[m].status = row.status
      /\ t.milestone = m /\ t.old = row.progress => milestones'[m].progress = t.new
  <2>1. DOMAIN milestones' = DOMAIN milestones
    BY <1>3, <1>6 DEF Progressed
  <2>2. ASSUME NEW n \in DOMAIN ms
        PROVE  /\ MilestoneShape(milestones'[n]) /\ milestones'[n].status = ms[n].status
               /\ t.milestone = n /\ t.old = ms[n].progress => milestones'[n].progress = t.new
    BY <1>3, <1>6, MilestoneWritten
  <2>. QED
    BY <1>3, <1>6, <2>1, <2>2
<1>8. TaskIds' /\ MilestoneRecords'
  <2>1. MilestoneRecords'
    BY <1>7 DEF MilestoneRecords
  <2>2. TaskIds'
    BY <1>3 DEF ProgressInv, TaskIds
  <2>. QED
    BY <2>1, <2>2
<1>9. ProgressInv'
  BY <1>3, <1>8, ProgressCommits
<1>10. ASSUME alone[r]
      PROVE  /\ t.milestone = m /\ milestones'[m].progress = t.new /\ milestones'[m].status = t.status
             /\ t.new = recompute_milestone_progress(m, t.status, tasks)
  <2>1. /\ t.milestone = m /\ t.was = old.status /\ t.old = old.progress
        /\ t.new = recompute_milestone_progress(m, t.status, Edited(t)) /\ Edited(t) = tasks
    BY <1>3, <1>10 DEF ProgressInv, Counted, Edited
  <2>2. row.status = t.status
    BY <1>5, <2>1 DEF Written
  <2>. QED
    BY <1>5, <1>7, <2>1, <2>2
<1>11. m \in DOMAIN milestones' /\ tasks' = tasks
  BY <1>3, <1>7
<1>. QED
  BY <1>9, <1>10, <1>11

(* Rows are created and deleted, milestones and tasks with what they        *)
(* belong to.                                                               *)
LEMMA RowsEdited ==
  ASSUME MissionInv, ProgressInv, NEW r \in Requests,
         \/ create_milestone_ep(r) \/ delete_milestone_ep(r)
         \/ create_phase(r) \/ update_phase(r) \/ delete_phase(r)
  PROVE  ProgressInv'
<1>1. /\ built \in Nat /\ IsFiniteSet(DOMAIN tasks) /\ \A k : <<k>> \in DOMAIN tasks => k \in 1..built
      /\ \A n \in DOMAIN milestones : MilestoneShape(milestones[n])
  BY DEF ProgressInv, TaskIds, MilestoneRecords
<1>2. Serve(r)
  BY DEF create_milestone_ep, delete_milestone_ep, create_phase, update_phase, delete_phase
<1>3. CASE create_phase(r) \/ update_phase(r)
  <2>1. UNCHANGED <<milestones, tasks>> /\ (built' = built + 1 \/ UNCHANGED built)
    BY <1>3 DEF create_phase, update_phase
  <2>2. TaskIds' /\ MilestoneRecords'
    BY <1>1, <2>1 DEF TaskIds, MilestoneRecords
  <2>. QED
    BY <1>2, <2>2, ProgressCommits
<1>4. CASE create_milestone_ep(r)
  <2>1. \E id, a, b, c, d :
          /\ milestones' = Put(milestones, id, [phase |-> a, due |-> 0, status |-> b, progress |-> c, order |-> d])
          /\ built' = built + 1 /\ UNCHANGED tasks
    BY <1>4 DEF create_milestone_ep
  <2>2. PICK id, row : /\ milestones' = Put(milestones, id, row) /\ built' = built + 1 /\ UNCHANGED tasks
                       /\ MilestoneShape(row)
    BY <2>1 DEF MilestoneShape
  <2>3. TaskIds'
    BY <1>1, <2>2 DEF TaskIds
  <2>4. MilestoneRecords'
    BY <1>1, <2>2 DEF MilestoneRecords, Put
  <2>. QED
    BY <1>2, <2>3, <2>4, ProgressCommits
<1>5. CASE delete_milestone_ep(r) \/ delete_phase(r)
  <2>1. UNCHANGED built /\ \E set : KeepMilestones(set) /\ set \subseteq DOMAIN milestones
    BY <1>5 DEF delete_milestone_ep, delete_phase
  <2>2. /\ DOMAIN tasks' \subseteq DOMAIN tasks /\ DOMAIN milestones' \subseteq DOMAIN milestones
        /\ \A n \in DOMAIN milestones' : milestones'[n] = milestones[n]
    BY <2>1 DEF KeepMilestones, Restrict
  <2>3. TaskIds'
    BY <1>1, <2>1, <2>2, FS_Subset DEF TaskIds
  <2>4. MilestoneRecords'
    BY <1>1, <2>2 DEF MilestoneRecords
  <2>. QED
    BY <1>2, <2>3, <2>4, ProgressCommits
<1>. QED
  BY <1>3, <1>4, <1>5

(* These hold from the first request on.                                    *)
LEMMA ProgressInvariant == Spec => []ProgressInv
<1>1. Init => ProgressInv
  <2>1. DOMAIN << >> = {}
    OBVIOUS
  <2>. QED
    BY <2>1, FS_EmptySet DEF Init, TransactionsInit, RoadmapInit, Idle, ProgressInv, TaskIds, MilestoneRecords, Counted
<1>2. MissionInv /\ ProgressInv /\ [Next]_vars => ProgressInv'
  <2>. SUFFICES ASSUME MissionInv, ProgressInv, [Next]_vars PROVE ProgressInv'
    OBVIOUS
  <2>1. ASSUME NEW r \in Requests, MissionStep(r) PROVE ProgressInv'
    BY <2>1, MissionsSpareRoadmap, ProgressSpared
  <2>2. ASSUME NEW r \in Requests, RoadmapStep(r) PROVE ProgressInv'
    BY <2>2, EditsCount, TemplatesApplied, TaskCommits, MilestoneCommits, RowsEdited DEF RoadmapStep
  <2>3. ASSUME NEW r \in Requests, Rollback(r), UNCHANGED roadmapVars PROVE ProgressInv'
    BY <2>3, ProgressSpared
  <2>4. CASE Midnight \/ UNCHANGED vars
    <3>1. UNCHANGED <<txn, alone, tasks, milestones, built>>
      BY <2>4 DEF Midnight, vars, roadmapVars, txnVars
    <3>2. TaskIds' /\ MilestoneRecords'
      BY <3>1 DEF ProgressInv, TaskIds, MilestoneRecords
    <3>. QED
      BY <3>1, <3>2 DEF ProgressInv, Counted, Edited
  <2>. QED
    BY <2>1, <2>2, <2>3, <2>4 DEF Next
<1>. QED
  BY <1>1, <1>2, MissionInvariant, PTL DEF Spec

(* An edit that no other request commits into leaves a milestone with the   *)
(* progress that the reader of the roadmap sees its tasks have, whatever    *)
(* progress earlier edits that raced had left.                              *)
THEOREM EditsSetProgress == Spec => EditSetsProgress
<1>1. ASSUME MissionInv, ProgressInv, Next, NEW r \in Requests,
             txn[r].op \in {"task", "new_task", "milestone"}, alone[r],
             txn'[r] = Idle, <<milestones, tasks>>' # <<milestones, tasks>>
      PROVE  LET shown == serialize_tree(milestones', tasks')[txn[r].milestone] IN
             shown.progress = recompute_milestone_progress(txn[r].milestone, shown.status, shown.tasks)
  <2>1. txn'[r] # txn[r]
    BY <1>1 DEF Idle
  <2>2. ASSUME NEW q \in Requests, Serve(q) PROVE FALSE
    BY <2>1, <2>2 DEF Serve
  <2>3. ASSUME NEW q \in Requests, Commit(q) PROVE q = r
    BY <1>1, <2>1, <2>3, TableStep DEF MissionInv
  <2>4. CommitTask(r) \/ CommitMilestone(r)
    <3>1. \A q \in Requests : ~MissionStep(q) /\ ~(Rollback(q) /\ UNCHANGED <<roadmapVars, missionVars, today>>)
      BY <1>1, MissionsSpareRoadmap DEF roadmapVars
    <3>2. ~Midnight
      BY <1>1 DEF Midnight, roadmapVars
    <3>3. PICK q \in Requests : RoadmapStep(q)
      BY <1>1, <3>1, <3>2 DEF Next
    <3>4. ~(\/ get_roadmap(q) \/ apply_template_ep(q) \/ generate_roadmap(q) \/ create_task_ep(q)
            \/ update_task_ep(q) \/ delete_task_ep(q) \/ update_milestone_ep(q))
      BY <1>1 DEF get_roadmap, apply_template_ep, generate_roadmap, create_task_ep, update_task_ep,
                  delete_task_ep, update_milestone_ep, roadmapVars
    <3>5. ~(\/ create_milestone_ep(q) \/ delete_milestone_ep(q)
            \/ create_phase(q) \/ update_phase(q) \/ delete_phase(q))
      BY <2>2 DEF create_milestone_ep, delete_milestone_ep, create_phase, update_phase, delete_phase
    <3>6. ~(CommitGenerate(q) \/ apply_template(q))
      BY <1>1, <2>3 DEF CommitGenerate, apply_template, Doing
    <3>. QED
      BY <2>3, <3>3, <3>4, <3>5, <3>6 DEF RoadmapStep, CommitTask, CommitMilestone
  <2>. PICK m, ms, ts : m = txn[r].milestone /\ ms = milestones' /\ ts = tasks'
    OBVIOUS
  <2>5. m \in DOMAIN ms /\ ms[m].progress = recompute_milestone_progress(m, ms[m].status, ts)
    BY <1>1, <2>4, TaskCommits, MilestoneCommits
  <2>6. /\ serialize_tree(ms, ts)[m].progress = ms[m].progress
        /\ serialize_tree(ms, ts)[m].status = ms[m].status
        /\ serialize_tree(ms, ts)[m].tasks = Restrict(ts, TasksOf(ts, m))
    BY <2>5 DEF serialize_tree
  <2>. QED
    BY <2>5, <2>6, ShownCount
<1>2. MissionInv /\ ProgressInv /\ [Next]_vars =>
        [\A r \in Requests :
         /\ txn[r].op \in {"task", "new_task", "milestone"} /\ alone[r]
         /\ txn'[r] = Idle /\ <<milestones, tasks>>' # <<milestones, tasks>>
         => LET shown == serialize_tree(milestones', tasks')[txn[r].milestone] IN
            shown.progress = recompute_milestone_progress(txn[r].milestone, shown.status, shown.tasks)
      ]_<<roadmapVars, txn>>
  BY <1>1 DEF vars, txnVars
<1>. QED
  BY <1>2, MissionInvariant, ProgressInvariant, PTL DEF Spec, EditSetsProgress

-----------------------------------------------------------------------------
(* Templates of the gallery (Roadmaps): what applying one adds.             *)

(* Every row is numbered with the tree it came with, and what a request     *)
(* that is alone has loaded of the applied templates is what there is.      *)
TreesNumbered ==
    /\ built \in Nat /\ IsFiniteSet(DOMAIN milestones)
    /\ \A i \in DOMAIN milestones \cup DOMAIN tasks : i[1] \in 1..built

GalleryInv ==
    /\ TreesNumbered
    /\ \A r \in Requests : alone[r] /\ txn[r].op = "apply" => txn[r].applied = roadmap

(* As many numbers as there are places for them.                            *)
LEMMA SameCount ==
  ASSUME NEW S, IsFiniteSet(S), NEW T, NEW f \in [S -> T],
         \A x, y \in S : f[x] = f[y] => x = y, \A t \in T : \E x \in S : f[x] = t
  PROVE  IsFiniteSet(T) /\ Cardinality(T) = Cardinality(S)
<1>1. f \in Bijection(S, T)
  BY DEF Bijection, Injection, Surjection, IsInjective
<1>2. ExistsBijection(S, T)
  BY <1>1 DEF ExistsBijection
<1>. QED
  BY <1>2, FS_Bijection

(* A template's tree has the milestones and tasks that are counted for it,  *)
(* all with the tree's number.                                              *)
LEMMA TreeCounts ==
  ASSUME NEW n \in Nat, NEW tmpl, Small(tmpl)
  PROVE  /\ IsFiniteSet(DOMAIN MilestoneRows(n, tmpl)) /\ IsFiniteSet(DOMAIN TaskRows(n, tmpl))
         /\ \A i \in DOMAIN MilestoneRows(n, tmpl) \cup DOMAIN TaskRows(n, tmpl) : i[1] = n
         /\ template_counts(tmpl) =
              <<Cardinality(DOMAIN MilestoneRows(n, tmpl)), Cardinality(DOMAIN TaskRows(n, tmpl))>>
<1>. DEFINE S == MilestonesIn(tmpl)
            T == TasksIn(tmpl)
            M == DOMAIN MilestoneRows(n, tmpl)
            K == DOMAIN TaskRows(n, tmpl)
<1>1. /\ \A x \in S : \E p \in DOMAIN tmpl : \E m \in DOMAIN tmpl[p] : x = <<p, m>>
      /\ \A p \in DOMAIN tmpl : \A m \in DOMAIN tmpl[p] : <<p, m>> \in S
  BY DEF MilestonesIn
<1>2. /\ \A i \in M : \E p \in DOMAIN tmpl : \E m \in DOMAIN tmpl[p] : i = <<n, p, m>>
      /\ \A p \in DOMAIN tmpl : \A m \in DOMAIN tmpl[p] : <<n, p, m>> \in M
  BY DEF MilestoneRows
<1>3. \A p \in DOMAIN tmpl : p \in Nat /\ \A m \in DOMAIN tmpl[p] : m \in Nat /\ tmpl[p][m][2] \in 1..2
  BY DEF Small
<1>4. /\ \A x \in T : \E p \in DOMAIN tmpl : \E m \in DOMAIN tmpl[p] : \E t \in 1..tmpl[p][m][2] : x = <<p, m, t>>
      /\ \A p \in DOMAIN tmpl : \A m \in DOMAIN tmpl[p] : \A t \in 1..tmpl[p][m][2] : <<p, m, t>> \in T
  <2>1. \A x : x \in T <=> \E i \in S : \E t \in 1..tmpl[i[1]][i[2]][2] : x = <<i[1], i[2], t>>
    BY DEF TasksIn
  <2>2. \A p, m : <<p, m>>[1] = p /\ <<p, m>>[2] = m
    OBVIOUS
  <2>. HIDE DEF S, T
  <2>3. ASSUME NEW x \in T
        PROVE  \E p \in DOMAIN tmpl : \E m \in DOMAIN tmpl[p] : \E t \in 1..tmpl[p][m][2] : x = <<p, m, t>>
    <3>1. PICK i \in S : \E t \in 1..tmpl[i[1]][i[2]][2] : x = <<i[1], i[2], t>>
      BY <2>1
    <3>2. PICK p \in DOMAIN tmpl : \E m \in DOMAIN tmpl[p] : i = <<p, m>>
      BY <1>1
    <3>3. PICK m \in DOMAIN tmpl[p] : i = <<p, m>>
      BY <3>2
    <3>4. i[1] = p /\ i[2] = m
      BY <3>3
    <3>. QED
      BY <3>1, <3>4
  <2>4. ASSUME NEW p \in DOMAIN tmpl, NEW m \in DOMAIN tmpl[p], NEW t \in 1..tmpl[p][m][2]
        PROVE  <<p, m, t>> \in T
    <3>1. PICK i \in S : i = <<p, m>>
      BY <1>1
    <3>2. i[1] = p /\ i[2] = m
      BY <3>1
    <3>. QED
      BY <2>1, <3>2
  <2>. QED
    BY <2>3, <2>4
<1>5. /\ \A i \in K : \E p \in DOMAIN tmpl : \E m \in DOMAIN tmpl[p] : \E t \in 1..tmpl[p][m][2] : i = <<n, p, m, t>>
      /\ \A p \in DOMAIN tmpl : \A m \in DOMAIN tmpl[p] : \A t \in 1..tmpl[p][m][2] : <<n, p, m, t>> \in K
  <2>1. \A i : i \in K <=> \E j \in M : \E t \in 1..tmpl[j[2]][j[3]][2] : i = j \o <<t>>
    <3>1. K = UNION {{j \o <<t>> : t \in 1..tmpl[j[2]][j[3]][2]} : j \in M}
      BY DEF TaskRows
    <3>. HIDE DEF K, M
    <3>. SUFFICES ASSUME NEW i
                  PROVE  i \in K <=> \E j \in M : \E t \in 1..tmpl[j[2]][j[3]][2] : i = j \o <<t>>
      OBVIOUS
    <3>2. i \in K <=> \E j \in M : i \in {j \o <<t>> : t \in 1..tmpl[j[2]][j[3]][2]}
      BY <3>1
    <3>3. \A j : i \in {j \o <<t>> : t \in 1..tmpl[j[2]][j[3]][2]} <=> \E t \in 1..tmpl[j[2]][j[3]][2] : i = j \o <<t>>
      OBVIOUS
    <3>. QED
      BY <3>2, <3>3
  <2>2. \A p, m : <<n, p, m>>[2] = p /\ <<n, p, m>>[3] = m
    OBVIOUS
  <2>3. \A p \in DOMAIN tmpl : \A m \in DOMAIN tmpl[p] : \A t \in 1..tmpl[p][m][2] :
          <<n, p, m>> \o <<t>> = <<n, p, m, t>>
    <3>. SUFFICES ASSUME NEW p \in DOMAIN tmpl, NEW m \in DOMAIN tmpl[p], NEW t \in 1..tmpl[p][m][2]
                  PROVE  <<n, p, m>> \o <<t>> = <<n, p, m, t>>
      OBVIOUS
    <3>1. p \in Nat /\ m \in Nat /\ t \in Nat
      BY <1>3
    <3>. QED
      BY <3>1, FourNumbers
  <2>. HIDE DEF M, K
  <2>4. ASSUME NEW i \in K
        PROVE  \E p \in DOMAIN tmpl : \E m \in DOMAIN tmpl[p] : \E t \in 1..tmpl[p][m][2] : i = <<n, p, m, t>>
    <3>1. PICK j \in M : \E t \in 1..tmpl[j[2]][j[3]][2] : i = j \o <<t>>
      BY <2>1
    <3>2. PICK p \in DOMAIN tmpl : \E m \in DOMAIN tmpl[p] : j = <<n, p, m>>
      BY <1>2
    <3>3. PICK m \in DOMAIN tmpl[p] : j = <<n, p, m>>
      BY <3>2
    <3>4. j[2] = p /\ j[3] = m
      BY <3>3
    <3>5. PICK t \in 1..tmpl[p][m][2] : i = j \o <<t>>
      BY <3>1, <3>4
    <3>6. j \o <<t>> = <<n, p, m, t>>
      BY <2>3, <3>3
    <3>. QED
      BY <3>5, <3>6
  <2>5. ASSUME NEW p \in DOMAIN tmpl, NEW m \in DOMAIN tmpl[p], NEW t \in 1..tmpl[p][m][2]
        PROVE  <<n, p, m, t>> \in K
    <3>1. PICK j \in M : j = <<n, p, m>>
      BY <1>2
    <3>2. j[2] = p /\ j[3] = m
      BY <3>1
    <3>3. <<n, p, m, t>> = j \o <<t>>
      BY <2>3, <3>1
    <3>. QED
      BY <2>1, <3>2, <3>3
  <2>. QED
    BY <2>4, <2>5
<1>. HIDE DEF S, T, M, K
<1>6. IsFiniteSet(K) /\ IsFiniteSet(M) /\ IsFiniteSet(S) /\ IsFiniteSet(T)
  <2>1. IsFiniteSet(K)
    BY TreeRows DEF K
  <2>2. IsFiniteSet(M)
    <3>. DEFINE places == {<<n, 1, 1>>, <<n, 1, 2>>, <<n, 2, 1>>, <<n, 2, 2>>,
                           <<n, 1, 1>>, <<n, 1, 2>>, <<n, 2, 1>>, <<n, 2, 2>>}
    <3>1. M \subseteq places
      BY <1>2 DEF Small
    <3>2. IsFiniteSet(places)
      BY EightAreFinite
    <3>. HIDE DEF places
    <3>. QED
      BY <3>1, <3>2, FS_Subset
  <2>3. IsFiniteSet(S)
    <3>. DEFINE places == {<<1, 1>>, <<1, 2>>, <<2, 1>>, <<2, 2>>, <<1, 1>>, <<1, 2>>, <<2, 1>>, <<2, 2>>}
    <3>1. S \subseteq places
      BY <1>1 DEF Small
    <3>2. IsFiniteSet(places)
      BY EightAreFinite
    <3>. HIDE DEF places
    <3>. QED
      BY <3>1, <3>2, FS_Subset
  <2>4. IsFiniteSet(T)
    <3>1. ASSUME NEW x \in T PROVE \E p \in 1..2, m \in 1..2, t \in 1..2 : x = <<p, m, t>>
      BY <1>3, <1>4, <3>1 DEF Small
    <3>. DEFINE places == {<<1, 1, 1>>, <<1, 1, 2>>, <<1, 2, 1>>, <<1, 2, 2>>,
                           <<2, 1, 1>>, <<2, 1, 2>>, <<2, 2, 1>>, <<2, 2, 2>>}
    <3>2. T \subseteq places
      BY <3>1
    <3>3. IsFiniteSet(places)
      BY EightAreFinite
    <3>. HIDE DEF places
    <3>. QED
      BY <3>2, <3>3, FS_Subset
  <2>. QED
    BY <2>1, <2>2, <2>3, <2>4
<1>7. Cardinality(M) = Cardinality(S)
  <2>. DEFINE f == [x \in S |-> <<n, x[1], x[2]>>]
  <2>1. f \in [S -> M]
    BY <1>1, <1>2
  <2>2. \A x, y \in S : f[x] = f[y] => x = y
    BY <1>1
  <2>3. \A i \in M : \E x \in S : f[x] = i
    <3>. SUFFICES ASSUME NEW i \in M PROVE \E x \in S : f[x] = i
      OBVIOUS
    <3>1. PICK p \in DOMAIN tmpl : \E m \in DOMAIN tmpl[p] : i = <<n, p, m>>
      BY <1>2
    <3>2. PICK m \in DOMAIN tmpl[p] : i = <<n, p, m>>
      BY <3>1
    <3>3. <<p, m>> \in S /\ f[<<p, m>>] = i
      BY <1>1, <3>2
    <3>. QED
      BY <3>3
  <2>. HIDE DEF f
  <2>. QED
    BY <1>6, <2>1, <2>2, <2>3, SameCount
<1>8. Cardinality(K) = Cardinality(T)
  <2>. DEFINE f == [x \in T |-> <<n, x[1], x[2], x[3]>>]
  <2>1. f \in [T -> K]
    BY <1>4, <1>5
  <2>2. \A x, y \in T : f[x] = f[y] => x = y
    BY <1>4
  <2>3. \A i \in K : \E x \in T : f[x] = i
    <3>. SUFFICES ASSUME NEW i \in K PROVE \E x \in T : f[x] = i
      OBVIOUS
    <3>1. PICK p \in DOMAIN tmpl : \E m \in DOMAIN tmpl[p] : \E t \in 1..tmpl[p][m][2] : i = <<n, p, m, t>>
      BY <1>5
    <3>2. PICK m \in DOMAIN tmpl[p] : \E t \in 1..tmpl[p][m][2] : i = <<n, p, m, t>>
      BY <3>1
    <3>3. PICK t \in 1..tmpl[p][m][2] : i = <<n, p, m, t>>
      BY <3>2
    <3>4. <<p, m, t>> \in T /\ f[<<p, m, t>>] = i
      BY <1>4, <3>3
    <3>. QED
      BY <3>4
  <2>. HIDE DEF f
  <2>. QED
    BY <1>6, <2>1, <2>2, <2>3, SameCount
<1>9. \A i \in M \cup K : i[1] = n
  BY <1>2, <1>5
<1>. QED
  BY <1>6, <1>7, <1>8, <1>9 DEF template_counts, S, T, M, K

(* A tree more: its rows are none of those there were.                      *)
LEMMA TreeNumbered ==
  ASSUME NEW n \in Nat, NEW b \in Nat, n \in 1..b, NEW ms, NEW ts, IsFiniteSet(DOMAIN ms),
         \A i \in DOMAIN ms \cup DOMAIN ts : i[1] \in 1..b,
         NEW tmpl, Small(tmpl), built' = b,
         milestones' = PutAll(ms, MilestoneRows(n, tmpl)), tasks' = PutAll(ts, TaskRows(n, tmpl))
  PROVE  TreesNumbered'
<1>. PICK mrows, trows : mrows = MilestoneRows(n, tmpl) /\ trows = TaskRows(n, tmpl)
  OBVIOUS
<1>1. /\ IsFiniteSet(DOMAIN mrows)
      /\ \A i \in DOMAIN mrows \cup DOMAIN trows : i[1] = n
  BY TreeCounts
<1>2. DOMAIN milestones' = DOMAIN ms \cup DOMAIN mrows /\ DOMAIN tasks' = DOMAIN ts \cup DOMAIN trows
  BY DEF PutAll
<1>3. IsFiniteSet(DOMAIN ms \cup DOMAIN mrows)
  BY <1>1, FS_Union
<1>. QED
  BY <1>1, <1>2, <1>3 DEF TreesNumbered

(* A request begins, goes on or is rolled back.                             *)
LEMMA GalleryMoves ==
  ASSUME MissionInv, GalleryInv, NEW r \in Requests, NEW t,
         Begin(r, t) \/ Go(r, t) \/ (Rollback(r) /\ t = Idle),
         t.op = "apply" => t.applied = roadmap, UNCHANGED roadmapVars
  PROVE  GalleryInv'
<1>1. /\ txn'[r] = t
      /\ \A q \in Requests \ {r} : txn'[q] = txn[q] /\ alone'[q] = alone[q]
  BY TableStep DEF Begin, Go, Rollback, MissionInv, Table
<1>2. UNCHANGED <<roadmap, milestones, tasks, built>>
  BY DEF roadmapVars
<1>3. TreesNumbered'
  BY <1>2 DEF GalleryInv, TreesNumbered
<1>. QED
  BY <1>1, <1>2, <1>3 DEF GalleryInv

(* A request commits, and nobody else is alone any more.                    *)
LEMMA GalleryCommits ==
  ASSUME MissionInv, GalleryInv, NEW r \in Requests, Commit(r) \/ Serve(r), TreesNumbered'
  PROVE  GalleryInv'
<1>1. \A q \in Requests : alone'[q] => txn'[q] = Idle
  BY TableStep DEF Commit, Serve, MissionInv, Table
<1>2. Idle.op = "idle"
  BY DEF Idle
<1>. QED
  BY <1>1, <1>2 DEF GalleryInv

(* The roadmap is asked for or claimed, and templates are chosen for it.    *)
LEMMA GalleryAsked ==
  ASSUME MissionInv, GalleryInv, NEW r \in Requests,
         get_roadmap(r) \/ apply_template_ep(r) \/ generate_roadmap(r)
  PROVE  GalleryInv'
<1>1. UNCHANGED roadmapVars
  BY DEF get_roadmap, apply_template_ep, generate_roadmap
<1>2. \E t : (Begin(r, t) \/ Go(r, t)) /\ (t.op = "apply" => t.applied = roadmap)
  <2>1. CASE get_roadmap(r)
    BY <2>1 DEF get_roadmap
  <2>2. CASE apply_template_ep(r)
    <3>. PICK k \in Gallery :
           IF roadmap = NoRoadmap THEN Begin(r, [op |-> "claim", template |-> k])
           ELSE Begin(r, [op |-> "apply", template |-> k, applied |-> roadmap])
      BY <2>2 DEF apply_template_ep
    <3>. PICK a, b : /\ a = [op |-> "claim", template |-> k]
                     /\ b = [op |-> "apply", template |-> k, applied |-> roadmap]
      OBVIOUS
    <3>1. a.op = "claim" /\ b.applied = roadmap /\ (Begin(r, a) \/ Begin(r, b))
      OBVIOUS
    <3>. QED
      BY <3>1
  <2>3. CASE generate_roadmap(r)
    <3>. PICK k \in {"none"} \cup Gallery : txn[r] = [op |-> "claim", template |-> k]
      BY <2>3 DEF generate_roadmap, Doing, MissionInv, Carries
    <3>. PICK a, b : /\ a = [txn[r] EXCEPT !.op = "claimed"]
                     /\ b = [op |-> "apply", template |-> k, applied |-> roadmap]
      OBVIOUS
    <3>1. a.op = "claimed" /\ b.applied = roadmap /\ Idle.op = "idle" /\ txn[r].template = k
      BY DEF Idle
    <3>2. Go(r, a) \/ Go(r, Idle) \/ Go(r, b)
      BY <2>3, <3>1 DEF generate_roadmap
    <3>. QED
      BY <3>1, <3>2
  <2>. QED
    BY <2>1, <2>2, <2>3
<1>. QED
  BY <1>1, <1>2, GalleryMoves

(* A request that applies no template begins or goes on.                    *)
LEMMA GallerySpared ==
  ASSUME MissionInv, GalleryInv, NEW r \in Requests, UNCHANGED roadmapVars,
         \/ Serve(r) \/ Commit(r) \/ Rollback(r)
         \/ \E t : (Begin(r, t) \/ Go(r, t)) /\ t.op # "apply"
  PROVE  GalleryInv'
<1>1. CASE Serve(r) \/ Commit(r)
  <2>1. TreesNumbered'
    BY DEF GalleryInv, TreesNumbered, roadmapVars
  <2>. QED
    BY <1>1, <2>1, GalleryCommits
<1>2. CASE Rollback(r)
  <2>. PICK t : t = Idle
    OBVIOUS
  <2>1. t.op = "idle"
    BY DEF Idle
  <2>. QED
    BY <1>2, <2>1, GalleryMoves
<1>3. CASE \E t : (Begin(r, t) \/ Go(r, t)) /\ t.op # "apply"
  BY <1>3, GalleryMoves
<1>. QED
  BY <1>1, <1>2, <1>3

(* Trees are made and added.                                                *)
LEMMA GalleryTrees ==
  ASSUME MissionInv, ProgressInv, GalleryInv, NEW r \in Requests, CommitGenerate(r) \/ apply_template(r)
  PROVE  GalleryInv'
<1>1. /\ built \in Nat /\ built + 1 \in Nat /\ built + 2 \in Nat /\ IsFiniteSet(DOMAIN milestones)
      /\ \A i \in DOMAIN milestones \cup DOMAIN tasks : i[1] \in 1..built
  BY DEF GalleryInv, TreesNumbered
<1>2. DOMAIN << >> = {} /\ IsFiniteSet(DOMAIN << >>)
  BY FS_EmptySet
<1>3. ASSUME NEW ps, NEW ms, NEW ts, NEW tmpl, Small(tmpl), AddTree(ps, ms, ts, <<tmpl>>),
             \/ ms = milestones /\ ts = tasks
             \/ ms = << >> /\ ts = << >>
      PROVE  TreesNumbered'
  <2>1. /\ built' = built + 1
        /\ milestones' = PutAll(ms, MilestoneRows(built + 1, tmpl))
        /\ tasks' = PutAll(ts, TaskRows(built + 1, tmpl))
    BY <1>3 DEF AddTree
  <2>2. /\ IsFiniteSet(DOMAIN ms) /\ \A i \in DOMAIN ms \cup DOMAIN ts : i[1] \in 1..built + 1
        /\ built + 1 \in 1..built + 1
    BY <1>1, <1>2, <1>3
  <2>. QED
    BY <1>1, <1>3, <2>1, <2>2, TreeNumbered
<1>4. ASSUME NEW a, Small(a), NEW b, Small(b), AddTree(<< >>, << >>, << >>, <<a, b>>)
      PROVE  TreesNumbered'
  <2>1. /\ built' = built + 2
        /\ milestones' = PutAll(MilestoneRows(built + 1, a), MilestoneRows(built + 1 + 1, b))
        /\ tasks' = PutAll(TaskRows(built + 1, a), TaskRows(built + 1 + 1, b))
    BY <1>4 DEF AddTree
  <2>2. /\ IsFiniteSet(DOMAIN MilestoneRows(built + 1, a))
        /\ \A i \in DOMAIN MilestoneRows(built + 1, a) \cup DOMAIN TaskRows(built + 1, a) : i[1] = built + 1
    BY <1>1, <1>4, TreeCounts
  <2>3. built + 1 \in 1..built + 2 /\ built + 1 + 1 \in 1..built + 2 /\ built + 1 + 1 \in Nat
    BY <1>1
  <2>. QED
    BY <1>1, <1>4, <2>1, <2>2, <2>3, TreeNumbered
<1>5. CASE CommitGenerate(r)
  <2>1. Doing(r, "claimed") /\ Commit(r)
    BY <1>5 DEF CommitGenerate
  <2>2. CASE txn[r].template = "none"
    <3>1. AddTree(<< >>, << >>, << >>, <<TemplateOf(Stage)>>)
      BY <1>5, <2>2 DEF CommitGenerate
    <3>2. TreesNumbered'
      BY <1>3, <3>1, TemplatesAreSmall
    <3>. QED
      BY <2>1, <3>2, GalleryCommits
  <2>3. CASE txn[r].template # "none"
    <3>1. AddTree(<< >>, << >>, << >>, <<TemplateOf(Stage), GALLERY_TEMPLATES[txn[r].template]>>)
      BY <1>5, <2>3 DEF CommitGenerate
    <3>2. txn[r].template \in DOMAIN GALLERY_TEMPLATES
      BY <2>1, <2>3, GalleryAssumption DEF MissionInv, Carries, Doing
    <3>3. TreesNumbered'
      BY <1>4, <3>1, <3>2, TemplatesAreSmall
    <3>. QED
      BY <2>1, <3>3, GalleryCommits
  <2>. QED
    BY <2>2, <2>3
<1>6. CASE apply_template(r)
  <2>1. Doing(r, "apply") /\ Commit(r)
    BY <1>6 DEF apply_template
  <2>2. CASE UNCHANGED roadmapVars
    BY <2>1, <2>2, GallerySpared
  <2>3. CASE AddTree(phases, milestones, tasks, <<GALLERY_TEMPLATES[txn[r].template]>>)
    <3>1. txn[r].template \in DOMAIN GALLERY_TEMPLATES
      BY <2>1, GalleryAssumption DEF MissionInv, Carries, Doing
    <3>2. TreesNumbered'
      BY <1>3, <2>3, <3>1, TemplatesAreSmall
    <3>. QED
      BY <2>1, <3>2, GalleryCommits
  <2>. QED
    BY <1>6, <2>2, <2>3 DEF apply_template
<1>. QED
  BY <1>5, <1>6

(* The roadmap's editors number what they create, and choose no template.   *)
LEMMA GalleryEdits ==
  ASSUME MissionInv, GalleryInv, NEW r \in Requests,
         \/ create_task_ep(r) \/ update_task_ep(r) \/ delete_task_ep(r) \/ CommitTask(r)
         \/ update_milestone_ep(r) \/ CommitMilestone(r)
         \/ create_milestone_ep(r) \/ delete_milestone_ep(r)
         \/ create_phase(r) \/ update_phase(r) \/ delete_phase(r)
  PROVE  GalleryInv'
<1>1. /\ built \in Nat /\ IsFiniteSet(DOMAIN milestones)
      /\ \A i \in DOMAIN milestones \cup DOMAIN tasks : i[1] \in 1..built
  BY DEF GalleryInv, TreesNumbered
<1>2. CASE create_task_ep(r) \/ update_task_ep(r) \/ delete_task_ep(r) \/ update_milestone_ep(r)
  <2>1. \E what \in {"new_task", "task", "milestone"} : \E i, m, was, status, ts, mstatus :
          Begin(r, Edit(what, i, m, was, status, ts, mstatus))
    BY <1>2 DEF create_task_ep, update_task_ep, delete_task_ep, update_milestone_ep
  <2>2. \E t : Begin(r, t) /\ t.op # "apply"
    BY <2>1 DEF Edit
  <2>3. UNCHANGED roadmapVars
    BY <1>2 DEF create_task_ep, update_task_ep, delete_task_ep, update_milestone_ep
  <2>. QED
    BY <2>2, <2>3, GallerySpared
<1>3. CASE CommitTask(r)
  <2>1. DOMAIN milestones' = DOMAIN milestones /\ Commit(r)
    BY <1>3 DEF CommitTask, Progressed
  <2>2. \/ built' = built + 1 /\ DOMAIN tasks' = DOMAIN tasks \cup {<<built + 1>>}
        \/ UNCHANGED built /\ DOMAIN tasks' \subseteq DOMAIN tasks
    BY <1>3 DEF CommitTask, Put, Restrict
  <2>3. TreesNumbered'
    <3>1. <<built + 1>>[1] = built + 1 /\ built + 1 \in 1..built + 1 /\ 1..built \subseteq 1..built + 1
      BY <1>1
    <3>. QED
      BY <1>1, <2>1, <2>2, <3>1 DEF TreesNumbered
  <2>. QED
    BY <2>1, <2>3, GalleryCommits
<1>4. CASE CommitMilestone(r)
  <2>1. DOMAIN milestones' = DOMAIN milestones /\ UNCHANGED <<tasks, built>> /\ Commit(r)
    BY <1>4 DEF CommitMilestone, Progressed
  <2>2. TreesNumbered'
    BY <1>1, <2>1 DEF TreesNumbered
  <2>. QED
    BY <2>1, <2>2, GalleryCommits
<1>5. CASE create_milestone_ep(r)
  <2>1. DOMAIN milestones' = DOMAIN milestones \cup {<<built + 1>>} /\ built' = built + 1 /\ UNCHANGED tasks
        /\ Serve(r)
    BY <1>5 DEF create_milestone_ep, Put
  <2>2. TreesNumbered'
    <3>1. <<built + 1>>[1] = built + 1 /\ built + 1 \in 1..built + 1 /\ 1..built \subseteq 1..built + 1
      BY <1>1
    <3>2. IsFiniteSet(DOMAIN milestones \cup {<<built + 1>>})
      BY <1>1, FS_AddElement
    <3>. QED
      BY <1>1, <2>1, <3>1, <3>2 DEF TreesNumbered
  <2>. QED
    BY <2>1, <2>2, GalleryCommits
<1>6. CASE delete_milestone_ep(r) \/ delete_phase(r)
  <2>1. UNCHANGED built /\ Serve(r) /\ \E set : KeepMilestones(set) /\ set \subseteq DOMAIN milestones
    BY <1>6 DEF delete_milestone_ep, delete_phase
  <2>2. DOMAIN tasks' \subseteq DOMAIN tasks /\ DOMAIN milestones' \subseteq DOMAIN milestones
    BY <2>1 DEF KeepMilestones, Restrict
  <2>3. TreesNumbered'
    BY <1>1, <2>1, <2>2, FS_Subset DEF TreesNumbered
  <2>. QED
    BY <2>1, <2>3, GalleryCommits
<1>7. CASE create_phase(r) \/ update_phase(r)
  <2>1. UNCHANGED <<milestones, tasks>> /\ (built' = built + 1 \/ UNCHANGED built) /\ Serve(r)
    BY <1>7 DEF create_phase, update_phase
  <2>2. TreesNumbered'
    BY <1>1, <2>1 DEF TreesNumbered
  <2>. QED
    BY <2>1, <2>2, GalleryCommits
<1>. QED
  BY <1>2, <1>3, <1>4, <1>5, <1>6, <1>7

(* These hold from the first request on.                                    *)
LEMMA GalleryInvariant == Spec => []GalleryInv
<1>1. Init => GalleryInv
  <2>1. DOMAIN << >> = {}
    OBVIOUS
  <2>. QED
    BY <2>1, FS_EmptySet DEF Init, TransactionsInit, RoadmapInit, Idle, GalleryInv, TreesNumbered
<1>2. MissionInv /\ ProgressInv /\ GalleryInv /\ [Next]_vars => GalleryInv'
  <2>. SUFFICES ASSUME MissionInv, ProgressInv, GalleryInv, [Next]_vars PROVE GalleryInv'
    OBVIOUS
  <2>1. ASSUME NEW r \in Requests, MissionStep(r) PROVE GalleryInv'
    BY <2>1, MissionsSpareRoadmap, GallerySpared
  <2>2. ASSUME NEW r \in Requests, RoadmapStep(r) PROVE GalleryInv'
    BY <2>2, GalleryAsked, GalleryTrees, GalleryEdits DEF RoadmapStep
  <2>3. ASSUME NEW r \in Requests, Rollback(r), UNCHANGED roadmapVars PROVE GalleryInv'
    BY <2>3, GallerySpared
  <2>4. CASE Midnight \/ UNCHANGED vars
    <3>1. UNCHANGED <<txn, alone, tasks, milestones, built, roadmap>>
      BY <2>4 DEF Midnight, vars, roadmapVars, txnVars
    <3>. QED
      BY <3>1 DEF GalleryInv, TreesNumbered
  <2>. QED
    BY <2>1, <2>2, <2>3, <2>4 DEF Next
<1>. QED
  BY <1>1, <1>2, MissionInvariant, ProgressInvariant, PTL DEF Spec

(* A template that is applied while no other request commits adds as many   *)
(* milestones and tasks as the gallery announced, and the gallery did not   *)
(* list it as applied.                                                      *)
THEOREM TemplatesAddWhatTheyShow == Spec => AppliedAsAnnounced
<1>1. ASSUME MissionInv, ProgressInv, GalleryInv, Next, NEW r \in Requests,
             Doing(r, "apply"), alone[r], txn'[r] = Idle, served' = served,
             roadmap' # roadmap \/ built' # built
      PROVE  LET t == txn[r].template IN
             /\ ~list_templates[t].applied
             /\ <<Cardinality(DOMAIN milestones') - Cardinality(DOMAIN milestones),
                  Cardinality(DOMAIN tasks') - Cardinality(DOMAIN tasks)>> = preview_template(t).counts
  <2>1. txn'[r] # txn[r]
    BY <1>1 DEF Idle, Doing
  <2>2. ASSUME NEW q \in Requests, Serve(q) PROVE FALSE
    BY <2>1, <2>2 DEF Serve
  <2>3. ASSUME NEW q \in Requests, Commit(q) PROVE q = r
    BY <1>1, <2>1, <2>3, TableStep DEF MissionInv
  <2>4. apply_template(r)
    <3>1. \A q \in Requests : ~MissionStep(q) /\ ~(Rollback(q) /\ UNCHANGED <<roadmapVars, missionVars, today>>)
      BY <1>1, MissionsSpareRoadmap DEF roadmapVars
    <3>2. ~Midnight
      BY <1>1 DEF Midnight, roadmapVars
    <3>3. PICK q \in Requests : RoadmapStep(q)
      BY <1>1, <3>1, <3>2 DEF Next
    <3>4. ~(\/ get_roadmap(q) \/ apply_template_ep(q) \/ generate_roadmap(q) \/ create_task_ep(q)
            \/ update_task_ep(q) \/ delete_task_ep(q) \/ update_milestone_ep(q))
      BY <1>1 DEF get_roadmap, apply_template_ep, generate_roadmap, create_task_ep, update_task_ep,
                  delete_task_ep, update_milestone_ep, roadmapVars
    <3>5. ~(\/ create_milestone_ep(q) \/ delete_milestone_ep(q)
            \/ create_phase(q) \/ update_phase(q) \/ delete_phase(q))
      BY <2>2 DEF create_milestone_ep, delete_milestone_ep, create_phase, update_phase, delete_phase
    <3>6. ~(CommitGenerate(q) \/ CommitTask(q) \/ CommitMilestone(q))
      BY <1>1, <2>3 DEF CommitGenerate, CommitTask, CommitMilestone, Doing
    <3>. QED
      BY <2>3, <3>3, <3>4, <3>5, <3>6 DEF RoadmapStep, apply_template
  <2>. PICK t, tmpl : t = txn[r].template /\ tmpl = GALLERY_TEMPLATES[t]
    OBVIOUS
  <2>5. /\ t \in DOMAIN GALLERY_TEMPLATES /\ Small(tmpl)
        /\ txn[r].applied = roadmap
    BY <1>1, GalleryAssumption, TemplatesAreSmall DEF MissionInv, Carries, Doing, GalleryInv
  <2>6. t \notin ToSet(roadmap) /\ AddTree(phases, milestones, tasks, <<tmpl>>)
    BY <1>1, <2>4, <2>5 DEF apply_template, roadmapVars
  <2>7. ~list_templates[t].applied
    BY <2>5, <2>6 DEF list_templates
  <2>8. /\ milestones' = PutAll(milestones, MilestoneRows(built + 1, tmpl))
        /\ tasks' = PutAll(tasks, TaskRows(built + 1, tmpl))
    BY <2>6 DEF AddTree
  <2>. PICK M, K : M = DOMAIN MilestoneRows(built + 1, tmpl) /\ K = DOMAIN TaskRows(built + 1, tmpl)
    OBVIOUS
  <2>9. DOMAIN milestones' = DOMAIN milestones \cup M /\ DOMAIN tasks' = DOMAIN tasks \cup K
    BY <2>8 DEF PutAll
  <2>10. /\ built \in Nat /\ IsFiniteSet(DOMAIN milestones) /\ IsFiniteSet(DOMAIN tasks)
         /\ \A i \in DOMAIN milestones \cup DOMAIN tasks : i[1] \in 1..built
    BY <1>1 DEF GalleryInv, TreesNumbered, ProgressInv, TaskIds
  <2>11. /\ IsFiniteSet(M) /\ IsFiniteSet(K) /\ \A i \in M \cup K : i[1] = built + 1
         /\ template_counts(tmpl) = <<Cardinality(M), Cardinality(K)>>
    <3>. PICK n : n = built + 1
      OBVIOUS
    <3>1. n \in Nat
      BY <2>10
    <3>. QED
      BY <2>5, <3>1, TreeCounts
  <2>12. DOMAIN milestones \cap M = {} /\ DOMAIN tasks \cap K = {}
    <3>1. built + 1 \notin 1..built
      BY <2>10
    <3>. QED
      BY <2>10, <2>11, <3>1
  <2>13. ASSUME NEW S, NEW N, IsFiniteSet(S), IsFiniteSet(N), S \cap N = {}
         PROVE  Cardinality(S \cup N) - Cardinality(S) = Cardinality(N)
    <3>1. Cardinality(S \cup N) = Cardinality(S) + Cardinality(N) - Cardinality(S \cap N)
      BY <2>13, FS_Union
    <3>2. Cardinality(S \cap N) = 0 /\ Cardinality(S) \in Nat /\ Cardinality(N) \in Nat
      BY <2>13, FS_EmptySet, FS_CardinalityType
    <3>. QED
      BY <3>1, <3>2
  <2>14. /\ Cardinality(DOMAIN milestones') - Cardinality(DOMAIN milestones) = Cardinality(M)
         /\ Cardinality(DOMAIN tasks') - Cardinality(DOMAIN tasks) = Cardinality(K)
    BY <2>9, <2>10, <2>11, <2>12, <2>13
  <2>15. preview_template(t).counts = <<Cardinality(M), Cardinality(K)>>
    BY <2>11 DEF preview_template
  <2>. QED
    BY <2>7, <2>14, <2>15
<1>2. MissionInv /\ ProgressInv /\ GalleryInv /\ [Next]_vars =>
        [\A r \in Requests :
         Doing(r, "apply") /\ alone[r] /\ txn'[r] = Idle /\ served' = served
         /\ (roadmap' # roadmap \/ built' # built) =>
           LET t == txn[r].template IN
           /\ ~list_templates[t].applied
           /\ <<Cardinality(DOMAIN milestones') - Cardinality(DOMAIN milestones),
                Cardinality(DOMAIN tasks') - Cardinality(DOMAIN tasks)>> = preview_template(t).counts
      ]_<<roadmapVars, txn>>
  BY <1>1 DEF vars, txnVars
<1>. QED
  BY <1>2, MissionInvariant, ProgressInvariant, GalleryInvariant, PTL DEF Spec, AppliedAsAnnounced

-----------------------------------------------------------------------------
(* The rows of the roadmap and the missions of the days: types, and what    *)
(* belongs to what (Roadmaps, Missions).                                    *)

(* Milestones of some phases, and tasks of some milestones.                 *)
MilestonesAmong(ps) == [phase : ps, due : Nat, status : Statuses, progress : 0..100, order : Nat]
TasksAmong(ms) == [milestone : ms, status : Statuses, order : Nat]

(* The phase, milestone and task rows have their types, a milestone's phase *)
(* and a task's milestone are there.                                        *)
RowsBelong(ps, ms, ts) ==
    /\ \A p \in DOMAIN ps : ps[p] \in Nat
    /\ \A m \in DOMAIN ms : ms[m] \in MilestonesAmong(DOMAIN ps)
    /\ \A t \in DOMAIN ts : ts[t] \in TasksAmong(DOMAIN ms)

(* What an edit is going to write.                                          *)
Writes(t) ==
    /\ t.op \in {"new_task", "milestone"} => t.status \in Statuses
    /\ t.op = "task" => t.status \in Statuses \cup {"deleted"}
    /\ t.op \in {"new_task", "task", "milestone"} => t.new \in 0..100

RowsInv ==
    /\ IsFiniteSet(DOMAIN phases) /\ RowsBelong(phases, milestones, tasks)
    /\ \A r \in Requests : Writes(txn[r])

(* A finite set of numbers has a greatest.                                  *)
LEMMA GreatestOfFinite ==
  ASSUME NEW S, IsFiniteSet(S), S \subseteq Int, S # {}
  PROVE  Max(S) \in S
<1>1. PICK above : above = [x \in S |-> {y \in S : y > x}]
  OBVIOUS
<1>2. \A x \in S : above[x] \subseteq S /\ \A y \in S : y \in above[x] <=> y > x
  BY <1>1
<1>3. PICK T : T = {above[x] : x \in S}
  OBVIOUS
<1>4. T \subseteq FiniteSubsetsOf(S) /\ T # {}
  <2>1. ASSUME NEW x \in S PROVE above[x] \in FiniteSubsetsOf(S)
    BY <1>2, FS_Subset DEF FiniteSubsetsOf
  <2>. QED
    BY <1>3, <2>1
<1>5. PICK a \in T : \A b \in T : ~(<<b, a>> \in StrictSubsetOrdering(S))
  BY <1>4, FS_StrictSubsetOrderingWellFounded, WFMin
<1>6. PICK x \in S : a = above[x]
  BY <1>3
<1>7. ASSUME NEW z \in S, z > x PROVE FALSE
  <2>1. x \in Int /\ z \in Int
    OBVIOUS
  <2>2. \A y \in S : y > z => y > x
    <3>. TAKE y \in S
    <3>1. y \in Int
      OBVIOUS
    <3>. QED
      BY <1>7, <2>1, <3>1
  <2>3. z \in above[x] /\ z \notin above[z]
    BY <1>2, <1>7, <2>1
  <2>4. above[z] \subseteq above[x]
    BY <1>2, <2>2
  <2>5. above[z] \in T /\ above[z] \subseteq S /\ above[x] \subseteq S
    BY <1>2, <1>3
  <2>6. <<above[z], above[x]>> \in StrictSubsetOrdering(S)
    BY <2>3, <2>4, <2>5 DEF StrictSubsetOrdering
  <2>. QED
    BY <1>5, <1>6, <2>5, <2>6
<1>8. \A z \in S : x >= z
  <2>. TAKE z \in S
  <2>1. x \in Int /\ z \in Int /\ ~(z > x)
    BY <1>7
  <2>. QED
    BY <2>1
<1>. QED
  BY <1>8 DEF Max

(* The place after the last of finitely many rows.                          *)
LEMMA NextIsNumber ==
  ASSUME NEW S, IsFiniteSet(S), NEW f, \A x \in S : f[x] \in Nat, NEW T, T = {f[x] : x \in S}
  PROVE  NextOrder(T) \in Nat
<1>. PICK g : g = [x \in S |-> f[x]]
  OBVIOUS
<1>1. g \in Surjection(S, T)
  BY DEF Surjection
<1>2. IsFiniteSet(T)
  BY <1>1, FS_Surjection
<1>3. IsFiniteSet(T \cup {-1})
  BY <1>2, FS_AddElement
<1>4. T \subseteq Nat /\ T \cup {-1} \subseteq Int /\ T \cup {-1} # {}
  OBVIOUS
<1>5. Max(T \cup {-1}) \in T \cup {-1}
  BY <1>3, <1>4, GreatestOfFinite
<1>6. Max(T \cup {-1}) + 1 \in Nat
  BY <1>4, <1>5
<1>. QED
  BY <1>6 DEF NextOrder

(* A rounded share of a hundred.                                            *)
LEMMA ShareInRange ==
  ASSUME NEW b \in Nat \ {0}, NEW c \in Nat, c <= b
  PROVE  Pct(c, b) \in 0..100
<1>. PICK a \in Nat : a = 100 * c
  OBVIOUS
<1>. DEFINE q == a \div b
            r == a % b
<1>1. q \in Int /\ r \in 0..(b - 1) /\ a = b * q + r /\ a <= 100 * b
  OBVIOUS
<1>. HIDE DEF q, r
<1>2. q >= 0
  <2>. SUFFICES ASSUME q <= -1 PROVE FALSE
    BY <1>1
  <2>1. b * q <= b * (-1)
    BY <1>1
  <2>. QED
    BY <1>1, <2>1
<1>3. q <= 100
  <2>. SUFFICES ASSUME q >= 101 PROVE FALSE
    BY <1>1
  <2>1. b * q >= b * 101
    BY <1>1
  <2>. QED
    BY <1>1, <2>1
<1>4. q = 100 => r = 0
  BY <1>1
<1>5. Round(a, b) \in 0..100
  BY <1>1, <1>2, <1>3, <1>4 DEF Round, q, r
<1>. QED
  BY <1>5 DEF Pct

(* The progress that finitely many tasks make is a percentage.              *)
LEMMA ProgressInRange ==
  ASSUME NEW ts, IsFiniteSet(DOMAIN ts), NEW m, NEW status
  PROVE  recompute_milestone_progress(m, status, ts) \in 0..100
<1>. PICK mine : mine = TasksOf(ts, m)
  OBVIOUS
<1>. PICK finished : finished = {t \in mine : ts[t].status = "done"}
  OBVIOUS
<1>1. IsFiniteSet(mine)
  BY FS_Subset DEF TasksOf
<1>2. finished \subseteq mine
  OBVIOUS
<1>3. /\ Cardinality(mine) \in Nat /\ Cardinality(finished) \in Nat
      /\ Cardinality(finished) <= Cardinality(mine)
  BY <1>1, <1>2, FS_Subset, FS_CardinalityType
<1>4. mine # {} => Cardinality(mine) # 0
  BY <1>1, FS_EmptySet
<1>5. mine # {} => Pct(Cardinality(finished), Cardinality(mine)) \in 0..100
  BY <1>3, <1>4, ShareInRange
<1>. QED
  BY <1>5 DEF recompute_milestone_progress

(* A template's milestones are due in a week.                               *)
Dated(tmpl) ==
    /\ Len(tmpl) \in Nat
    /\ \A p \in DOMAIN tmpl : \A m \in DOMAIN tmpl[p] : tmpl[p][m][1] \in Nat

(* The stages' templates and those of the gallery are dated.                *)
LEMMA TemplatesAreDated ==
  /\ Dated(TemplateOf(Stage))
  /\ \A t \in DOMAIN GALLERY_TEMPLATES : Dated(GALLERY_TEMPLATES[t])
<1>1. /\ Dated(idea) /\ Dated(validation) /\ Dated(build) /\ Dated(launch) /\ Dated(growth) /\ Dated(scale)
  <2>1. Dated(idea) /\ Dated(validation) /\ Dated(build)
    BY DEF Dated, idea, validation, build
  <2>2. Dated(launch) /\ Dated(growth) /\ Dated(scale)
    BY DEF Dated, launch, growth, scale
  <2>. QED
    BY <2>1, <2>2
<1>2. /\ Dated(validation_sprint) /\ Dated(mvp_build) /\ Dated(go_to_market) /\ Dated(pre_seed_raise)
      /\ Dated(company_formation) /\ Dated(scale_playbook)
  BY DEF Dated, validation_sprint, mvp_build, go_to_market, pre_seed_raise, company_formation, scale_playbook
<1>3. \A s \in DOMAIN STAGE_TEMPLATES : Dated(STAGE_TEMPLATES[s])
  BY <1>1 DEF STAGE_TEMPLATES
<1>. QED
  BY <1>1, <1>2, <1>3 DEF TemplateOf, GALLERY_TEMPLATES, STAGE_TEMPLATES

(* Three of four numbers.                                                   *)
LEMMA FirstThree ==
  ASSUME NEW n \in Nat, NEW p \in Nat, NEW m \in Nat, NEW t \in Nat
  PROVE  SubSeq(<<n, p, m, t>>, 1, 3) = <<n, p, m>>
<1>. PICK a, c : a = <<n, p, m>> /\ c = <<n, p, m, t>>
  OBVIOUS
<1>1. /\ a \in Seq(Nat) /\ c \in Seq(Nat) /\ Len(a) = 3 /\ Len(c) = 4
      /\ a[1] = c[1] /\ a[2] = c[2] /\ a[3] = c[3]
  OBVIOUS
<1>2. SubSeq(c, 1, 3) \in Seq(Nat) /\ Len(SubSeq(c, 1, 3)) = 3
  BY <1>1
<1>3. \A k \in 1..3 : SubSeq(c, 1, 3)[k] = a[k]
  BY <1>1
<1>4. SubSeq(c, 1, 3) = a
  BY <1>1, <1>2, <1>3, SeqEqual
<1>. QED
  BY <1>4

(* The rows of a template's tree belong to each other.                      *)
LEMMA TreeBelongs ==
  ASSUME NEW n \in Nat, NEW tmpl, Small(tmpl), Dated(tmpl), NEW start \in Nat
  PROVE  /\ IsFiniteSet(DOMAIN PhaseRows(n, tmpl, start))
         /\ RowsBelong(PhaseRows(n, tmpl, start), MilestoneRows(n, tmpl), TaskRows(n, tmpl))
<1>. DEFINE P == PhaseRows(n, tmpl, start)
            M == MilestoneRows(n, tmpl)
            K == TaskRows(n, tmpl)
<1>1. /\ DOMAIN P = {<<n, p>> : p \in DOMAIN tmpl}
      /\ \A i \in DOMAIN P : P[i] = start + i[2] - 1
  BY DEF PhaseRows
<1>2. /\ \A i \in DOMAIN M : \E p \in DOMAIN tmpl : \E m \in DOMAIN tmpl[p] : i = <<n, p, m>>
      /\ \A p \in DOMAIN tmpl : \A m \in DOMAIN tmpl[p] : <<n, p, m>> \in DOMAIN M
      /\ \A i \in DOMAIN M : M[i] = [phase |-> <<n, i[2]>>, due |-> 7 * tmpl[i[2]][i[3]][1],
                                     status |-> "todo", progress |-> 0, order |-> i[3] - 1]
  BY DEF MilestoneRows
<1>3. \A i \in DOMAIN K : \E j \in DOMAIN M : \E t \in 1..tmpl[j[2]][j[3]][2] : i = j \o <<t>>
  BY DEF TaskRows
<1>4. \A i \in DOMAIN K : K[i] = [milestone |-> SubSeq(i, 1, 3), status |-> "todo", order |-> i[4] - 1]
  BY DEF TaskRows
<1>. HIDE DEF P, M, K
<1>5. \A p \in DOMAIN tmpl : p \in 1..2 /\ \A m \in DOMAIN tmpl[p] :
         m \in 1..2 /\ tmpl[p][m][2] \in 1..2 /\ tmpl[p][m][1] \in Nat
  BY DEF Small, Dated
<1>6. IsFiniteSet(DOMAIN P)
  <2>. PICK a, b : a = <<n, 1>> /\ b = <<n, 2>>
    OBVIOUS
  <2>1. DOMAIN P \subseteq {a, b, a, b, a, b, a, b}
    BY <1>1, <1>5
  <2>2. IsFiniteSet({a, b, a, b, a, b, a, b})
    BY EightAreFinite
  <2>. QED
    BY <2>1, <2>2, FS_Subset
<1>7. ASSUME NEW i \in DOMAIN P PROVE P[i] \in Nat
  <2>1. PICK p \in DOMAIN tmpl : i = <<n, p>>
    BY <1>1
  <2>2. i[2] = p /\ p \in 1..2
    BY <1>5, <2>1
  <2>. QED
    BY <1>1, <2>2
<1>8. ASSUME NEW i \in DOMAIN M
      PROVE  M[i] \in MilestonesAmong(DOMAIN P)
  <2>1. PICK p \in DOMAIN tmpl : \E m \in DOMAIN tmpl[p] : i = <<n, p, m>>
    BY <1>2
  <2>2. PICK m \in DOMAIN tmpl[p] : i = <<n, p, m>>
    BY <2>1
  <2>3. i[2] = p /\ i[3] = m
    BY <2>2
  <2>4. M[i] = [phase |-> <<n, p>>, due |-> 7 * tmpl[p][m][1], status |-> "todo", progress |-> 0, order |-> m - 1]
    BY <1>2, <2>3
  <2>5. <<n, p>> \in DOMAIN P /\ 7 * tmpl[p][m][1] \in Nat /\ m - 1 \in Nat
    BY <1>1, <1>5
  <2>. QED
    BY <2>4, <2>5 DEF Statuses, MilestonesAmong
<1>9. ASSUME NEW i \in DOMAIN K
      PROVE  K[i] \in TasksAmong(DOMAIN M)
  <2>1. PICK j \in DOMAIN M : \E t \in 1..tmpl[j[2]][j[3]][2] : i = j \o <<t>>
    BY <1>3
  <2>2. PICK p \in DOMAIN tmpl : \E m \in DOMAIN tmpl[p] : j = <<n, p, m>>
    BY <1>2
  <2>3. PICK m \in DOMAIN tmpl[p] : j = <<n, p, m>>
    BY <2>2
  <2>4. j[2] = p /\ j[3] = m
    BY <2>3
  <2>5. PICK t \in 1..tmpl[p][m][2] : i = <<n, p, m>> \o <<t>>
    BY <2>1, <2>3, <2>4
  <2>6. p \in Nat /\ m \in Nat /\ t \in Nat /\ t >= 1
    BY <1>5
  <2>7. i = <<n, p, m, t>>
    BY <2>5, <2>6, FourNumbers
  <2>8. SubSeq(i, 1, 3) = j /\ i[4] = t
    BY <2>3, <2>6, <2>7, FirstThree
  <2>9. K[i] = [milestone |-> j, status |-> "todo", order |-> t - 1] /\ t - 1 \in Nat
    BY <1>4, <2>6, <2>8
  <2>. QED
    BY <2>9 DEF Statuses, TasksAmong
<1>. QED
  BY <1>6, <1>7, <1>8, <1>9 DEF RowsBelong, P, M, K

(* Rows that belong to each other are added to rows that do.                *)
LEMMA RowsJoin ==
  ASSUME NEW ps, NEW ms, NEW ts, RowsBelong(ps, ms, ts), NEW a, NEW b, NEW c, RowsBelong(a, b, c)
  PROVE  RowsBelong(PutAll(ps, a), PutAll(ms, b), PutAll(ts, c))
<1>. PICK p, m, t : p = PutAll(ps, a) /\ m = PutAll(ms, b) /\ t = PutAll(ts, c)
  OBVIOUS
<1>1. /\ DOMAIN p = DOMAIN ps \cup DOMAIN a
      /\ \A i \in DOMAIN p : p[i] = IF i \in DOMAIN a THEN a[i] ELSE ps[i]
  BY DEF PutAll
<1>2. /\ DOMAIN m = DOMAIN ms \cup DOMAIN b
      /\ \A i \in DOMAIN m : m[i] = IF i \in DOMAIN b THEN b[i] ELSE ms[i]
  BY DEF PutAll
<1>3. /\ DOMAIN t = DOMAIN ts \cup DOMAIN c
      /\ \A i \in DOMAIN t : t[i] = IF i \in DOMAIN c THEN c[i] ELSE ts[i]
  BY DEF PutAll
<1>4. \A i \in DOMAIN p : p[i] \in Nat
  BY <1>1 DEF RowsBelong
<1>5. ASSUME NEW i \in DOMAIN m
      PROVE  m[i] \in MilestonesAmong(DOMAIN p)
  <2>1. \/ m[i] \in MilestonesAmong(DOMAIN ps)
        \/ m[i] \in MilestonesAmong(DOMAIN a)
    BY <1>2 DEF RowsBelong
  <2>. QED
    BY <1>1, <2>1 DEF MilestonesAmong
<1>6. ASSUME NEW i \in DOMAIN t
      PROVE  t[i] \in TasksAmong(DOMAIN m)
  <2>1. \/ t[i] \in TasksAmong(DOMAIN ms)
        \/ t[i] \in TasksAmong(DOMAIN b)
    BY <1>3 DEF RowsBelong
  <2>. QED
    BY <1>2, <2>1 DEF TasksAmong
<1>. QED
  BY <1>4, <1>5, <1>6 DEF RowsBelong

(* A request begins, goes on or is rolled back.                             *)
LEMMA RowsStay ==
  ASSUME MissionInv, RowsInv, NEW r \in Requests, NEW t,
         Begin(r, t) \/ Go(r, t) \/ (Rollback(r) /\ t = Idle), Writes(t), UNCHANGED roadmapVars
  PROVE  RowsInv'
<1>1. /\ txn'[r] = t
      /\ \A q \in Requests \ {r} : txn'[q] = txn[q]
  BY TableStep DEF Begin, Go, Rollback, MissionInv, Table
<1>2. phases' = phases /\ milestones' = milestones /\ tasks' = tasks
  BY DEF roadmapVars
<1>3. \A q \in Requests : Writes(txn'[q])
  BY <1>1 DEF RowsInv
<1>4. IsFiniteSet(DOMAIN phases') /\ RowsBelong(phases', milestones', tasks')
  BY <1>2 DEF RowsInv
<1>. QED
  BY <1>3, <1>4 DEF RowsInv

(* A request commits.                                                       *)
LEMMA RowsCommit ==
  ASSUME MissionInv, RowsInv, NEW r \in Requests, Commit(r) \/ Serve(r),
         IsFiniteSet(DOMAIN phases'), RowsBelong(phases', milestones', tasks')
  PROVE  RowsInv'
<1>1. \A q \in Requests : txn'[q] \in {txn[q], Idle}
  BY TableStep DEF Commit, Serve, MissionInv, Table
<1>2. Writes(Idle)
  BY DEF Writes, Idle
<1>3. \A q \in Requests : Writes(txn'[q])
  BY <1>1, <1>2 DEF RowsInv
<1>. QED
  BY <1>3 DEF RowsInv

(* A request that is not an editor's begins, goes on or ends.               *)
LEMMA RowsSpared ==
  ASSUME MissionInv, RowsInv, NEW r \in Requests, UNCHANGED roadmapVars,
         \/ Serve(r) \/ Commit(r) \/ Rollback(r)
         \/ \E t : (Begin(r, t) \/ Go(r, t)) /\ t.op \notin {"new_task", "task", "milestone"}
  PROVE  RowsInv'
<1>1. CASE Serve(r) \/ Commit(r)
  <2>1. phases' = phases /\ milestones' = milestones /\ tasks' = tasks
    BY DEF roadmapVars
  <2>2. IsFiniteSet(DOMAIN phases') /\ RowsBelong(phases', milestones', tasks')
    BY <2>1 DEF RowsInv
  <2>. QED
    BY <1>1, <2>2, RowsCommit
<1>2. CASE Rollback(r)
  <2>. PICK t : t = Idle
    OBVIOUS
  <2>1. Writes(t)
    BY DEF Idle, Writes
  <2>. QED
    BY <1>2, <2>1, RowsStay
<1>3. ASSUME NEW t, Begin(r, t) \/ Go(r, t), t.op \notin {"new_task", "task", "milestone"}
      PROVE  RowsInv'
  <2>1. Writes(t)
    BY <1>3 DEF Writes
  <2>. QED
    BY <1>3, <2>1, RowsStay
<1>. QED
  BY <1>1, <1>2, <1>3

(* Edits are begun.                                                         *)
LEMMA EditsBegin ==
  ASSUME MissionInv, ProgressInv, RowsInv, NEW r \in Requests,
         create_task_ep(r) \/ update_task_ep(r) \/ delete_task_ep(r) \/ update_milestone_ep(r)
  PROVE  RowsInv'
<1>1. UNCHANGED roadmapVars
  BY DEF create_task_ep, update_task_ep, delete_task_ep, update_milestone_ep
<1>2. \E op, i, m, was, status, ts, mstatus :
        /\ Begin(r, Edit(op, i, m, was, status, ts, mstatus))
        /\ \/ op \in {"new_task", "milestone"} /\ status \in Statuses
           \/ op = "task" /\ status \in Statuses \cup {"deleted"}
        /\ IsFiniteSet(DOMAIN ts)
  <2>1. IsFiniteSet(DOMAIN tasks)
    BY DEF ProgressInv, TaskIds
  <2>2. CASE create_task_ep(r)
    <3>1. PICK m \in DOMAIN milestones, s \in Statuses :
            Begin(r, Edit("new_task", NoRoadmap, m, "none", s,
                          Put(tasks, <<0>>, [milestone |-> m, status |-> s]), milestones[m].status))
      BY <2>2 DEF create_task_ep
    <3>. PICK ts : ts = Put(tasks, <<0>>, [milestone |-> m, status |-> s])
      OBVIOUS
    <3>2. DOMAIN ts = DOMAIN tasks \cup {<<0>>}
      BY DEF Put
    <3>3. IsFiniteSet(DOMAIN tasks \cup {<<0>>})
      BY <2>1, FS_AddElement
    <3>4. Begin(r, Edit("new_task", NoRoadmap, m, "none", s, ts, milestones[m].status))
      BY <3>1
    <3>. QED
      BY <3>2, <3>3, <3>4
  <2>3. CASE update_task_ep(r)
    <3>1. PICK i \in DOMAIN tasks, s \in Statuses :
            Begin(r, Edit("task", i, tasks[i].milestone, tasks[i].status, s, [tasks EXCEPT ![i].status = s],
                          milestones[tasks[i].milestone].status))
      BY <2>3 DEF update_task_ep
    <3>. PICK ts : ts = [tasks EXCEPT ![i].status = s]
      OBVIOUS
    <3>2. DOMAIN ts = DOMAIN tasks
      OBVIOUS
    <3>3. Begin(r, Edit("task", i, tasks[i].milestone, tasks[i].status, s, ts,
                        milestones[tasks[i].milestone].status))
      BY <3>1
    <3>. QED
      BY <2>1, <3>2, <3>3
  <2>4. CASE delete_task_ep(r)
    <3>1. PICK i \in DOMAIN tasks :
            Begin(r, Edit("task", i, tasks[i].milestone, tasks[i].status, "deleted",
                          Restrict(tasks, DOMAIN tasks \ {i}), milestones[tasks[i].milestone].status))
      BY <2>4 DEF delete_task_ep
    <3>. PICK ts : ts = Restrict(tasks, DOMAIN tasks \ {i})
      OBVIOUS
    <3>2. DOMAIN ts \subseteq DOMAIN tasks
      BY DEF Restrict
    <3>3. IsFiniteSet(DOMAIN ts)
      BY <2>1, <3>2, FS_Subset
    <3>4. Begin(r, Edit("task", i, tasks[i].milestone, tasks[i].status, "deleted", ts,
                        milestones[tasks[i].milestone].status))
      BY <3>1
    <3>. QED
      BY <3>3, <3>4
  <2>5. CASE update_milestone_ep(r)
    BY <2>1, <2>5 DEF update_milestone_ep
  <2>. QED
    BY <2>2, <2>3, <2>4, <2>5
<1>3. PICK op, i, m, was, status, ts, mstatus :
        /\ Begin(r, Edit(op, i, m, was, status, ts, mstatus))
        /\ \/ op \in {"new_task", "milestone"} /\ status \in Statuses
           \/ op = "task" /\ status \in Statuses \cup {"deleted"}
        /\ IsFiniteSet(DOMAIN ts)
  BY <1>2
<1>. PICK t : t = Edit(op, i, m, was, status, ts, mstatus)
  OBVIOUS
<1>4. t.op = op /\ t.status = status /\ t.new = recompute_milestone_progress(m, mstatus, ts)
  BY DEF Edit
<1>5. t.new \in 0..100
  BY <1>3, <1>4, ProgressInRange
<1>6. Writes(t)
  BY <1>3, <1>4, <1>5 DEF Writes
<1>. QED
  BY <1>1, <1>3, <1>6, RowsStay

(* The roadmap is asked for or claimed, and templates are chosen for it.    *)
LEMMA RowsAsked ==
  ASSUME MissionInv, RowsInv, NEW r \in Requests,
         get_roadmap(r) \/ apply_template_ep(r) \/ generate_roadmap(r)
  PROVE  RowsInv'
<1>1. UNCHANGED roadmapVars
  BY DEF get_roadmap, apply_template_ep, generate_roadmap
<1>2. CASE get_roadmap(r) \/ apply_template_ep(r)
  <2>1. \/ \E k : Begin(r, [op |-> "claim", template |-> k])
        \/ \E k : Begin(r, [op |-> "apply", template |-> k, applied |-> roadmap])
    BY <1>2 DEF get_roadmap, apply_template_ep
  <2>2. \A k : /\ [op |-> "claim", template |-> k].op = "claim"
               /\ [op |-> "apply", template |-> k, applied |-> roadmap].op = "apply"
    OBVIOUS
  <2>. QED
    BY <1>1, <2>1, <2>2, RowsSpared
<1>3. CASE generate_roadmap(r)
  <2>. PICK u : u = txn[r]
    OBVIOUS
  <2>1. u.op = "claim" /\ \E k \in {"none"} \cup Gallery : u = [op |-> "claim", template |-> k]
    BY <1>3 DEF generate_roadmap, Doing, MissionInv, Carries
  <2>2. \E t : Go(r, t) /\ (t = [u EXCEPT !.op = "claimed"] \/ t = Idle \/ \E a, b : t = [op |-> "apply", template |-> a, applied |-> b])
    BY <1>3 DEF generate_roadmap
  <2>3. PICK t : /\ Go(r, t)
                 /\ \/ t = [u EXCEPT !.op = "claimed"] \/ t = Idle
                    \/ \E a, b : t = [op |-> "apply", template |-> a, applied |-> b]
    BY <2>2
  <2>4. t.op \in {"claimed", "idle", "apply"}
    BY <2>1, <2>3 DEF Idle
  <2>. QED
    BY <1>1, <2>3, <2>4, RowsSpared
<1>. QED
  BY <1>2, <1>3

(* Trees are made and added.                                                *)
LEMMA RowsPlanted ==
  ASSUME MissionInv, ProgressInv, RowsInv, NEW r \in Requests, CommitGenerate(r) \/ apply_template(r)
  PROVE  RowsInv'
<1>1. /\ built + 1 \in Nat /\ built + 1 + 1 \in Nat
      /\ IsFiniteSet(DOMAIN phases) /\ RowsBelong(phases, milestones, tasks)
  BY DEF ProgressInv, TaskIds, RowsInv
<1>2. IsFiniteSet(DOMAIN << >>) /\ RowsBelong(<< >>, << >>, << >>)
  <2>1. DOMAIN << >> = {}
    OBVIOUS
  <2>. QED
    BY <2>1, FS_EmptySet DEF RowsBelong
<1>3. ASSUME NEW ps, NEW ms, NEW ts, IsFiniteSet(DOMAIN ps), RowsBelong(ps, ms, ts),
             NEW tmpl, Small(tmpl), Dated(tmpl), AddTree(ps, ms, ts, <<tmpl>>)
      PROVE  IsFiniteSet(DOMAIN phases') /\ RowsBelong(phases', milestones', tasks')
  <2>. PICK n, start : n = built + 1 /\ start = _max_phase_order(ps) + 1
    OBVIOUS
  <2>1. /\ phases' = PutAll(ps, PhaseRows(n, tmpl, start))
        /\ milestones' = PutAll(ms, MilestoneRows(n, tmpl))
        /\ tasks' = PutAll(ts, TaskRows(n, tmpl))
    BY <1>3 DEF AddTree
  <2>2. start \in Nat
    <3>1. \A p \in DOMAIN ps : ps[p] \in Nat
      BY <1>3 DEF RowsBelong
    <3>2. PICK T : T = {ps[p] : p \in DOMAIN ps}
      OBVIOUS
    <3>3. NextOrder(T) \in Nat
      BY <1>3, <3>1, <3>2, NextIsNumber
    <3>. QED
      BY <3>2, <3>3 DEF _max_phase_order, NextOrder
  <2>3. /\ IsFiniteSet(DOMAIN PhaseRows(n, tmpl, start))
        /\ RowsBelong(PhaseRows(n, tmpl, start), MilestoneRows(n, tmpl), TaskRows(n, tmpl))
    BY <1>1, <1>3, <2>2, TreeBelongs
  <2>4. RowsBelong(phases', milestones', tasks')
    BY <1>3, <2>1, <2>3, RowsJoin
  <2>5. IsFiniteSet(DOMAIN phases')
    <3>1. DOMAIN phases' = DOMAIN ps \cup DOMAIN PhaseRows(n, tmpl, start)
      BY <2>1 DEF PutAll
    <3>2. IsFiniteSet(DOMAIN ps \cup DOMAIN PhaseRows(n, tmpl, start))
      BY <1>3, <2>3, FS_Union
    <3>. QED
      BY <3>1, <3>2
  <2>. QED
    BY <2>4, <2>5
<1>4. ASSUME NEW a, Small(a), Dated(a), NEW b, Small(b), Dated(b), AddTree(<< >>, << >>, << >>, <<a, b>>)
      PROVE  IsFiniteSet(DOMAIN phases') /\ RowsBelong(phases', milestones', tasks')
  <2>. PICK n, m, start : n = built + 1 /\ m = built + 1 + 1 /\ start = Len(a)
    OBVIOUS
  <2>1. /\ phases' = PutAll(PhaseRows(n, a, 0), PhaseRows(m, b, start))
        /\ milestones' = PutAll(MilestoneRows(n, a), MilestoneRows(m, b))
        /\ tasks' = PutAll(TaskRows(n, a), TaskRows(m, b))
    BY <1>4 DEF AddTree
  <2>2. n \in Nat /\ m \in Nat /\ start \in Nat /\ 0 \in Nat
    BY <1>1, <1>4 DEF Dated
  <2>3. /\ IsFiniteSet(DOMAIN PhaseRows(n, a, 0))
        /\ RowsBelong(PhaseRows(n, a, 0), MilestoneRows(n, a), TaskRows(n, a))
    BY <1>4, <2>2, TreeBelongs
  <2>4. /\ IsFiniteSet(DOMAIN PhaseRows(m, b, start))
        /\ RowsBelong(PhaseRows(m, b, start), MilestoneRows(m, b), TaskRows(m, b))
    BY <1>4, <2>2, TreeBelongs
  <2>5. RowsBelong(phases', milestones', tasks')
    BY <2>1, <2>3, <2>4, RowsJoin
  <2>6. IsFiniteSet(DOMAIN phases')
    <3>1. DOMAIN phases' = DOMAIN PhaseRows(n, a, 0) \cup DOMAIN PhaseRows(m, b, start)
      BY <2>1 DEF PutAll
    <3>2. IsFiniteSet(DOMAIN PhaseRows(n, a, 0) \cup DOMAIN PhaseRows(m, b, start))
      BY <2>3, <2>4, FS_Union
    <3>. QED
      BY <3>1, <3>2
  <2>. QED
    BY <2>5, <2>6
<1>5. CASE CommitGenerate(r)
  <2>1. Doing(r, "claimed") /\ Commit(r)
    BY <1>5 DEF CommitGenerate
  <2>2. CASE txn[r].template = "none"
    <3>1. AddTree(<< >>, << >>, << >>, <<TemplateOf(Stage)>>)
      BY <1>5, <2>2 DEF CommitGenerate
    <3>2. IsFiniteSet(DOMAIN phases') /\ RowsBelong(phases', milestones', tasks')
      BY <1>2, <1>3, <3>1, TemplatesAreSmall, TemplatesAreDated
    <3>. QED
      BY <2>1, <3>2, RowsCommit
  <2>3. CASE txn[r].template # "none"
    <3>1. AddTree(<< >>, << >>, << >>, <<TemplateOf(Stage), GALLERY_TEMPLATES[txn[r].template]>>)
      BY <1>5, <2>3 DEF CommitGenerate
    <3>2. txn[r].template \in DOMAIN GALLERY_TEMPLATES
      BY <2>1, <2>3, GalleryAssumption DEF MissionInv, Carries, Doing
    <3>3. IsFiniteSet(DOMAIN phases') /\ RowsBelong(phases', milestones', tasks')
      BY <1>4, <3>1, <3>2, TemplatesAreSmall, TemplatesAreDated
    <3>. QED
      BY <2>1, <3>3, RowsCommit
  <2>. QED
    BY <2>2, <2>3
<1>6. CASE apply_template(r)
  <2>1. Doing(r, "apply") /\ Commit(r)
    BY <1>6 DEF apply_template
  <2>2. CASE UNCHANGED roadmapVars
    BY <2>1, <2>2, RowsSpared
  <2>3. CASE AddTree(phases, milestones, tasks, <<GALLERY_TEMPLATES[txn[r].template]>>)
    <3>1. txn[r].template \in DOMAIN GALLERY_TEMPLATES
      BY <2>1, GalleryAssumption DEF MissionInv, Carries, Doing
    <3>2. IsFiniteSet(DOMAIN phases') /\ RowsBelong(phases', milestones', tasks')
      BY <1>1, <1>3, <2>3, <3>1, TemplatesAreSmall, TemplatesAreDated
    <3>. QED
      BY <2>1, <3>2, RowsCommit
  <2>. QED
    BY <1>6, <2>2, <2>3 DEF apply_template
<1>. QED
  BY <1>5, <1>6

(* A milestone is written with the progress that was counted for it.        *)
LEMMA ProgressTyped ==
  ASSUME NEW P, NEW ms,
         \A m \in DOMAIN ms : ms[m] \in MilestonesAmong(P),
         NEW t, t.new \in 0..100
  PROVE  /\ DOMAIN Progressed(ms, t) = DOMAIN ms
         /\ \A m \in DOMAIN ms : Progressed(ms, t)[m] \in MilestonesAmong(P)
<1>1. DOMAIN Progressed(ms, t) = DOMAIN ms
  BY DEF Progressed
<1>2. ASSUME NEW m \in DOMAIN ms
      PROVE  Progressed(ms, t)[m] \in MilestonesAmong(P)
  <2>. PICK old : old = ms[m]
    OBVIOUS
  <2>1. old \in MilestonesAmong(P)
    OBVIOUS
  <2>2. Progressed(ms, t)[m] \in {old, [old EXCEPT !.progress = t.new]}
    BY DEF Progressed
  <2>3. [old EXCEPT !.progress = t.new] \in MilestonesAmong(P)
    BY <2>1 DEF MilestonesAmong
  <2>. QED
    BY <2>1, <2>2, <2>3
<1>. QED
  BY <1>1, <1>2

(* Edits of tasks and of milestones are written.                            *)
LEMMA RowsWritten ==
  ASSUME MissionInv, ProgressInv, RowsInv, NEW r \in Requests, CommitTask(r) \/ CommitMilestone(r)
  PROVE  RowsInv'
<1>. PICK t : t = txn[r]
  OBVIOUS
<1>1. /\ IsFiniteSet(DOMAIN phases) /\ IsFiniteSet(DOMAIN tasks) /\ Writes(t)
      /\ \A p \in DOMAIN phases : phases[p] \in Nat
      /\ \A m \in DOMAIN milestones : milestones[m] \in MilestonesAmong(DOMAIN phases)
      /\ \A i \in DOMAIN tasks : tasks[i] \in TasksAmong(DOMAIN milestones)
  BY DEF RowsInv, RowsBelong, ProgressInv, TaskIds
<1>2. Commit(r) /\ UNCHANGED phases /\ t.new \in 0..100
  BY <1>1 DEF CommitTask, CommitMilestone, Doing, Writes
<1>3. CASE CommitTask(r)
  <2>1. t.milestone \in DOMAIN milestones /\ milestones' = Progressed(milestones, t)
    BY <1>3 DEF CommitTask, _milestone
  <2>2. /\ DOMAIN milestones' = DOMAIN milestones
        /\ \A m \in DOMAIN milestones : milestones'[m] \in MilestonesAmong(DOMAIN phases)
    BY <1>1, <1>2, <2>1, ProgressTyped
  <2>3. \A i \in DOMAIN tasks' : tasks'[i] \in TasksAmong(DOMAIN milestones)
    <3>1. CASE t.op = "new_task"
      <4>. PICK S : S = TasksOf(tasks, t.milestone)
        OBVIOUS
      <4>. PICK order : order = NextOrder({tasks[i].order : i \in S})
        OBVIOUS
      <4>. PICK row : row = [milestone |-> t.milestone, status |-> t.status, order |-> order]
        OBVIOUS
      <4>1. tasks' = Put(tasks, <<built + 1>>, row)
        BY <1>3, <3>1 DEF CommitTask, Doing
      <4>2. order \in Nat
        <5>. PICK f : f = [i \in S |-> tasks[i].order]
          OBVIOUS
        <5>1. S \subseteq DOMAIN tasks
          BY DEF TasksOf
        <5>2. IsFiniteSet(S)
          BY <1>1, <5>1, FS_Subset
        <5>3. \A i \in S : f[i] = tasks[i].order /\ f[i] \in Nat
          BY <1>1, <5>1 DEF TasksAmong
        <5>4. PICK T : T = {tasks[i].order : i \in S}
          OBVIOUS
        <5>5. T = {f[i] : i \in S}
          BY <5>3, <5>4
        <5>6. NextOrder(T) \in Nat
          BY <5>2, <5>3, <5>5, NextIsNumber
        <5>. QED
          BY <5>4, <5>6
      <4>3. row \in TasksAmong(DOMAIN milestones)
        BY <1>1, <2>1, <3>1, <4>2 DEF Writes, TasksAmong
      <4>. QED
        BY <1>1, <4>1, <4>3 DEF Put
    <3>2. CASE t.op = "task"
      <4>1. tasks' = IF t.status = "deleted" THEN Restrict(tasks, DOMAIN tasks \ {t.id})
                     ELSE [tasks EXCEPT ![t.id].status = Written(tasks[t.id].status, t)]
        BY <1>3, <3>2 DEF CommitTask, Doing
      <4>2. CASE t.status = "deleted"
        BY <1>1, <4>1, <4>2 DEF Restrict
      <4>3. CASE t.status # "deleted"
        <5>1. t.id \in DOMAIN tasks
          BY <1>3, <3>2 DEF CommitTask, Doing, _task
        <5>2. PICK s : s = Written(tasks[t.id].status, t)
          OBVIOUS
        <5>3. PICK old : old = tasks[t.id]
          OBVIOUS
        <5>4. PICK row : row = [old EXCEPT !.status = s]
          OBVIOUS
        <5>5. s \in Statuses /\ old \in TasksAmong(DOMAIN milestones)
          BY <1>1, <3>2, <4>3, <5>1, <5>2, <5>3 DEF Written, Writes, TasksAmong
        <5>6. row \in TasksAmong(DOMAIN milestones)
          BY <5>4, <5>5 DEF TasksAmong
        <5>7. tasks' = [tasks EXCEPT ![t.id] = row]
          BY <4>1, <4>3, <5>2, <5>3, <5>4
        <5>. QED
          BY <1>1, <5>1, <5>6, <5>7
      <4>. QED
        BY <4>2, <4>3
    <3>. QED
      BY <1>3, <3>1, <3>2 DEF CommitTask
  <2>4. RowsBelong(phases', milestones', tasks')
    BY <1>1, <1>2, <2>2, <2>3 DEF RowsBelong
  <2>. QED
    BY <1>1, <1>2, <2>4, RowsCommit
<1>4. CASE CommitMilestone(r)
  <2>1. t.op = "milestone" /\ t.id \in DOMAIN milestones /\ UNCHANGED tasks
    BY <1>4 DEF CommitMilestone, Doing, _milestone
  <2>2. PICK s : s = Written(milestones[t.id].status, t)
    OBVIOUS
  <2>3. PICK old : old = milestones[t.id]
    OBVIOUS
  <2>4. PICK row : row = [old EXCEPT !.status = s]
    OBVIOUS
  <2>5. PICK ms : ms = [milestones EXCEPT ![t.id] = row]
    OBVIOUS
  <2>6. milestones' = Progressed(ms, t)
    BY <1>4, <2>2, <2>3, <2>4, <2>5 DEF CommitMilestone
  <2>7. s \in Statuses /\ old \in MilestonesAmong(DOMAIN phases)
    BY <1>1, <2>1, <2>2, <2>3 DEF Written, Writes, MilestonesAmong
  <2>8. row \in MilestonesAmong(DOMAIN phases)
    BY <2>4, <2>7 DEF MilestonesAmong
  <2>9. /\ DOMAIN ms = DOMAIN milestones
        /\ \A m \in DOMAIN ms : ms[m] \in MilestonesAmong(DOMAIN phases)
    BY <1>1, <2>1, <2>5, <2>8
  <2>10. /\ DOMAIN milestones' = DOMAIN milestones
         /\ \A m \in DOMAIN milestones : milestones'[m] \in MilestonesAmong(DOMAIN phases)
    BY <1>2, <2>6, <2>9, ProgressTyped
  <2>11. RowsBelong(phases', milestones', tasks')
    BY <1>1, <1>2, <2>1, <2>10 DEF RowsBelong
  <2>. QED
    BY <1>1, <1>2, <2>11, RowsCommit
<1>. QED
  BY <1>3, <1>4

(* Rows are created at the end, and deleted with what belongs to them.      *)
LEMMA RowsMade ==
  ASSUME MissionInv, ProgressInv, GalleryInv, RowsInv, NEW r \in Requests,
         \/ create_milestone_ep(r) \/ delete_milestone_ep(r)
         \/ create_phase(r) \/ update_phase(r) \/ delete_phase(r)
  PROVE  RowsInv'
<1>1. /\ IsFiniteSet(DOMAIN phases) /\ IsFiniteSet(DOMAIN milestones)
      /\ \A p \in DOMAIN phases : phases[p] \in Nat
      /\ \A m \in DOMAIN milestones : milestones[m] \in MilestonesAmong(DOMAIN phases)
      /\ \A t \in DOMAIN tasks : tasks[t] \in TasksAmong(DOMAIN milestones)
  BY DEF RowsInv, RowsBelong, GalleryInv, TreesNumbered
<1>2. Serve(r)
  BY DEF create_milestone_ep, delete_milestone_ep, create_phase, update_phase, delete_phase
<1>3. CASE create_milestone_ep(r)
  <2>1. PICK p \in DOMAIN phases, s \in Statuses :
          milestones' = Put(milestones, <<built'>>,
            [phase |-> p, due |-> 0, status |-> s, progress |-> IF s = "done" THEN 100 ELSE 0,
             order |-> NextOrder({milestones[m].order :
                         m \in {n \in DOMAIN milestones : milestones[n].phase = p}})])
    BY <1>3 DEF create_milestone_ep
  <2>2. PICK S : S = {n \in DOMAIN milestones : milestones[n].phase = p}
    OBVIOUS
  <2>3. PICK T : T = {milestones[m].order : m \in S}
    OBVIOUS
  <2>4. PICK f : f = [m \in S |-> milestones[m].order]
    OBVIOUS
  <2>5. S \subseteq DOMAIN milestones /\ IsFiniteSet(S)
    <3>1. S \subseteq DOMAIN milestones
      BY <2>2
    <3>. QED
      BY <1>1, <3>1, FS_Subset
  <2>6. \A m \in S : f[m] = milestones[m].order /\ f[m] \in Nat
    BY <1>1, <2>4, <2>5 DEF MilestonesAmong
  <2>7. T = {f[m] : m \in S}
    BY <2>3, <2>6
  <2>8. NextOrder(T) \in Nat
    BY <2>5, <2>6, <2>7, NextIsNumber
  <2>9. PICK row : row = [phase |-> p, due |-> 0, status |-> s, progress |-> IF s = "done" THEN 100 ELSE 0,
                          order |-> NextOrder(T)]
    OBVIOUS
  <2>10. milestones' = Put(milestones, <<built'>>, row)
    BY <2>1, <2>2, <2>3, <2>9
  <2>11. row \in MilestonesAmong(DOMAIN phases)
    BY <2>8, <2>9 DEF MilestonesAmong
  <2>12. UNCHANGED <<phases, tasks>>
    BY <1>3 DEF create_milestone_ep
  <2>13. \A m \in DOMAIN milestones' : milestones'[m] \in MilestonesAmong(DOMAIN phases)
    BY <1>1, <2>10, <2>11 DEF Put
  <2>14. DOMAIN milestones \subseteq DOMAIN milestones'
    BY <2>10 DEF Put
  <2>15. \A t \in DOMAIN tasks : tasks[t] \in TasksAmong(DOMAIN milestones')
    BY <1>1, <2>14 DEF TasksAmong
  <2>16. RowsBelong(phases', milestones', tasks')
    BY <1>1, <2>12, <2>13, <2>15 DEF RowsBelong
  <2>. QED
    BY <1>1, <1>2, <2>12, <2>16, RowsCommit
<1>4. CASE create_phase(r)
  <2>1. PICK T : T = {phases[p] : p \in DOMAIN phases}
    OBVIOUS
  <2>2. NextOrder(T) \in Nat
    BY <1>1, <2>1, NextIsNumber
  <2>3. phases' = Put(phases, <<built'>>, NextOrder(T)) /\ UNCHANGED <<milestones, tasks>>
    BY <1>4, <2>1 DEF create_phase
  <2>4. DOMAIN phases' = DOMAIN phases \cup {<<built'>>} /\ \A p \in DOMAIN phases' : phases'[p] \in Nat
    BY <1>1, <2>2, <2>3 DEF Put
  <2>5. IsFiniteSet(DOMAIN phases')
    <3>1. IsFiniteSet(DOMAIN phases \cup {<<built'>>})
      BY <1>1, FS_AddElement
    <3>. QED
      BY <2>4, <3>1
  <2>6. \A m \in DOMAIN milestones : milestones[m] \in MilestonesAmong(DOMAIN phases')
    BY <1>1, <2>4 DEF MilestonesAmong
  <2>7. RowsBelong(phases', milestones', tasks')
    BY <1>1, <2>3, <2>4, <2>6 DEF RowsBelong
  <2>. QED
    BY <1>2, <2>5, <2>7, RowsCommit
<1>5. CASE update_phase(r)
  <2>1. PICK p \in DOMAIN phases, order \in 0..1 : phases' = [phases EXCEPT ![p] = order]
    BY <1>5 DEF update_phase
  <2>2. DOMAIN phases' = DOMAIN phases /\ \A q \in DOMAIN phases : phases'[q] \in Nat
    BY <1>1, <2>1
  <2>3. UNCHANGED <<milestones, tasks>>
    BY <1>5 DEF update_phase
  <2>4. RowsBelong(phases', milestones', tasks')
    BY <1>1, <2>2, <2>3 DEF RowsBelong
  <2>. QED
    BY <1>1, <1>2, <2>2, <2>4, RowsCommit
<1>6. ASSUME NEW set, KeepMilestones(set), set \subseteq DOMAIN milestones
      PROVE  /\ DOMAIN milestones' = set /\ \A m \in set : milestones'[m] = milestones[m]
             /\ \A t \in DOMAIN tasks' : tasks'[t] \in TasksAmong(DOMAIN milestones')
  <2>1. milestones' = Restrict(milestones, set)
    BY <1>6 DEF KeepMilestones
  <2>2. tasks' = Restrict(tasks, {t \in DOMAIN tasks : tasks[t].milestone \in set})
    BY <1>6 DEF KeepMilestones
  <2>3. DOMAIN milestones' = set /\ \A m \in set : milestones'[m] = milestones[m]
    BY <1>6, <2>1 DEF Restrict
  <2>4. ASSUME NEW t \in DOMAIN tasks' PROVE tasks'[t] \in TasksAmong(set)
    <3>1. t \in DOMAIN tasks /\ tasks[t].milestone \in set /\ tasks'[t] = tasks[t]
      BY <2>2, <2>4 DEF Restrict
    <3>. QED
      BY <1>1, <3>1 DEF TasksAmong
  <2>. QED
    BY <2>3, <2>4
<1>7. CASE delete_milestone_ep(r)
  <2>1. PICK set : KeepMilestones(set) /\ set \subseteq DOMAIN milestones
    BY <1>7 DEF delete_milestone_ep
  <2>2. UNCHANGED phases
    BY <1>7 DEF delete_milestone_ep
  <2>3. RowsBelong(phases', milestones', tasks')
    BY <1>1, <1>6, <2>1, <2>2 DEF RowsBelong
  <2>. QED
    BY <1>1, <1>2, <2>2, <2>3, RowsCommit
<1>8. CASE delete_phase(r)
  <2>1. PICK p \in DOMAIN phases : /\ phases' = Restrict(phases, DOMAIN phases \ {p})
                                   /\ KeepMilestones({m \in DOMAIN milestones : milestones[m].phase # p})
    BY <1>8 DEF delete_phase
  <2>2. PICK set : set = {m \in DOMAIN milestones : milestones[m].phase # p}
    OBVIOUS
  <2>3. KeepMilestones(set) /\ set \subseteq DOMAIN milestones
    BY <2>1, <2>2
  <2>4. DOMAIN phases' = DOMAIN phases \ {p} /\ \A q \in DOMAIN phases' : phases'[q] = phases[q]
    BY <2>1 DEF Restrict
  <2>5. ASSUME NEW m \in set PROVE milestones[m] \in MilestonesAmong(DOMAIN phases')
    <3>1. m \in DOMAIN milestones /\ milestones[m].phase # p
      BY <2>2
    <3>. QED
      BY <1>1, <2>4, <3>1 DEF MilestonesAmong
  <2>6. IsFiniteSet(DOMAIN phases')
    <3>1. DOMAIN phases' \subseteq DOMAIN phases
      BY <2>4
    <3>. QED
      BY <1>1, <3>1, FS_Subset
  <2>7. RowsBelong(phases', milestones', tasks')
    BY <1>1, <1>6, <2>3, <2>4, <2>5 DEF RowsBelong
  <2>. QED
    BY <1>2, <2>6, <2>7, RowsCommit
<1>. QED
  BY <1>3, <1>4, <1>5, <1>7, <1>8

(* These hold from the first request on.                                    *)
LEMMA RowsInvariant == Spec => []RowsInv
<1>1. Init => RowsInv
  <2>. SUFFICES ASSUME Init PROVE RowsInv
    OBVIOUS
  <2>1. DOMAIN << >> = {} /\ phases = << >> /\ milestones = << >> /\ tasks = << >>
    BY DEF Init, RoadmapInit
  <2>2. \A r \in Requests : txn[r] = Idle
    BY DEF Init, TransactionsInit
  <2>3. Writes(Idle)
    BY DEF Writes, Idle
  <2>4. IsFiniteSet(DOMAIN phases) /\ RowsBelong(phases, milestones, tasks)
    BY <2>1, FS_EmptySet DEF RowsBelong
  <2>. QED
    BY <2>2, <2>3, <2>4 DEF RowsInv
<1>2. MissionInv /\ ProgressInv /\ GalleryInv /\ RowsInv /\ [Next]_vars => RowsInv'
  <2>. SUFFICES ASSUME MissionInv, ProgressInv, GalleryInv, RowsInv, [Next]_vars PROVE RowsInv'
    OBVIOUS
  <2>1. ASSUME NEW r \in Requests, MissionStep(r) PROVE RowsInv'
    <3>1. /\ UNCHANGED roadmapVars
          /\ \/ Serve(r) \/ Commit(r)
             \/ \E t : (Begin(r, t) \/ Go(r, t)) /\ t.op \notin {"new_task", "task", "milestone", "apply"}
      BY <2>1, MissionsSpareRoadmap
    <3>. QED
      BY <3>1, RowsSpared
  <2>2. ASSUME NEW r \in Requests, RoadmapStep(r) PROVE RowsInv'
    BY <2>2, RowsAsked, RowsPlanted, EditsBegin, RowsWritten, RowsMade DEF RoadmapStep
  <2>3. ASSUME NEW r \in Requests, Rollback(r), UNCHANGED roadmapVars PROVE RowsInv'
    BY <2>3, RowsSpared
  <2>4. CASE Midnight \/ UNCHANGED vars
    <3>1. UNCHANGED <<txn, phases, milestones, tasks>>
      BY <2>4 DEF Midnight, vars, roadmapVars, txnVars
    <3>. QED
      BY <3>1 DEF RowsInv
  <2>. QED
    BY <2>1, <2>2, <2>3, <2>4 DEF Next
<1>. QED
  BY <1>1, <1>2, MissionInvariant, ProgressInvariant, GalleryInvariant, PTL DEF Spec

(* Whatever edits, deletes and templates race, a task's milestone and a     *)
(* milestone's phase are there, progress is a percentage, and every row has *)
(* its type.                                                                *)
THEOREM RoadmapTypes == Spec => []RoadmapTypeOK
<1>1. MissionInv /\ RowsInv => RoadmapTypeOK
  BY DEF MissionInv, OneClaim, RowsInv, RowsBelong, MilestonesAmong, TasksAmong, RoadmapTypeOK,
         Milestone, Task
<1>. QED
  BY <1>1, MissionInvariant, RowsInvariant, PTL

(* The mission that a request is going to insert.                           *)
Inserts(t) == t.op \in {"today", "custom"} /\ t.new # << >> => t.new[1].by \in {"system", "user"}

DaysInv ==
    /\ today \in Nat
    /\ \A d \in DOMAIN missions : missions[d] \in Mission
    /\ \A r \in Requests : Inserts(txn[r])

(* A request moves on, or ends.                                             *)
LEMMA DaysKept ==
  ASSUME MissionInv, DaysInv, NEW r \in Requests,
         \/ Commit(r) \/ Serve(r) \/ Rollback(r)
         \/ \E t : (Begin(r, t) \/ Go(r, t)) /\ Inserts(t),
         UNCHANGED today, \A d \in DOMAIN missions' : missions'[d] \in Mission
  PROVE  DaysInv'
<1>1. Inserts(Idle)
  BY DEF Inserts, Idle
<1>2. \A q \in Requests : Inserts(txn'[q])
  BY <1>1, TableStep DEF Begin, Go, Commit, Serve, Rollback, MissionInv, Table, DaysInv
<1>3. today' \in Nat
  BY DEF DaysInv
<1>. QED
  BY <1>2, <1>3 DEF DaysInv

(* Requests of the roadmap carry no mission.                                *)
LEMMA RoadmapsSpareDays ==
  ASSUME MissionInv, NEW r \in Requests, RoadmapStep(r)
  PROVE  \/ Serve(r) \/ Commit(r)
         \/ \E t : (Begin(r, t) \/ Go(r, t)) /\ t.op \notin {"today", "custom"}
<1>1. CASE get_roadmap(r) \/ apply_template_ep(r)
  <2>1. \/ \E k : Begin(r, [op |-> "claim", template |-> k])
        \/ \E k : Begin(r, [op |-> "apply", template |-> k, applied |-> roadmap])
    BY <1>1 DEF get_roadmap, apply_template_ep
  <2>2. \A k : /\ [op |-> "claim", template |-> k].op = "claim"
               /\ [op |-> "apply", template |-> k, applied |-> roadmap].op = "apply"
    OBVIOUS
  <2>. QED
    BY <2>1, <2>2
<1>2. CASE generate_roadmap(r)
  <2>. PICK u : u = txn[r]
    OBVIOUS
  <2>1. u.op = "claim" /\ \E k \in {"none"} \cup Gallery : u = [op |-> "claim", template |-> k]
    BY <1>2 DEF generate_roadmap, Doing, MissionInv, Carries
  <2>2. \E t : Go(r, t) /\ (t = [u EXCEPT !.op = "claimed"] \/ t = Idle \/ \E a, b : t = [op |-> "apply", template |-> a, applied |-> b])
    BY <1>2 DEF generate_roadmap
  <2>3. PICK t : /\ Go(r, t)
                 /\ \/ t = [u EXCEPT !.op = "claimed"] \/ t = Idle
                    \/ \E a, b : t = [op |-> "apply", template |-> a, applied |-> b]
    BY <2>2
  <2>4. t.op \in {"claimed", "idle", "apply"}
    BY <2>1, <2>3 DEF Idle
  <2>. QED
    BY <2>3, <2>4
<1>3. CASE create_task_ep(r) \/ update_task_ep(r) \/ delete_task_ep(r) \/ update_milestone_ep(r)
  <2>1. \E what \in {"new_task", "task", "milestone"} : \E i, m, was, status, ts, mstatus :
          Begin(r, Edit(what, i, m, was, status, ts, mstatus))
    BY <1>3 DEF create_task_ep, update_task_ep, delete_task_ep, update_milestone_ep
  <2>2. PICK t : Begin(r, t) /\ t.op \in {"new_task", "task", "milestone"}
    BY <2>1 DEF Edit
  <2>. QED
    BY <2>2
<1>4. CASE CommitGenerate(r) \/ apply_template(r) \/ CommitTask(r) \/ CommitMilestone(r)
  BY <1>4 DEF CommitGenerate, apply_template, CommitTask, CommitMilestone
<1>5. CASE \/ create_milestone_ep(r) \/ delete_milestone_ep(r)
           \/ create_phase(r) \/ update_phase(r) \/ delete_phase(r)
  BY <1>5 DEF create_milestone_ep, delete_milestone_ep, create_phase, update_phase, delete_phase
<1>. QED
  BY <1>1, <1>2, <1>3, <1>4, <1>5 DEF RoadmapStep

(* The steps of the daily mission.                                          *)
LEMMA DaysStep ==
  ASSUME MissionInv, DaysInv, NEW r \in Requests, MissionStep(r)
  PROVE  DaysInv'
<1>1. \A d \in DOMAIN missions : missions[d] \in Mission
  BY DEF DaysInv
<1>2. CASE get_today(r) \/ create_task(r)
  <2>1. \E what \in {"today", "custom"} :
          \/ Begin(r, [op |-> what, day |-> today, new |-> << >>])
          \/ Begin(r, [op |-> "ask", next |-> what, day |-> today])
    BY <1>2 DEF get_today, create_task, Ask
  <2>2. PICK what \in {"today", "custom"} :
          \/ Begin(r, [op |-> what, day |-> today, new |-> << >>])
          \/ Begin(r, [op |-> "ask", next |-> what, day |-> today])
    BY <2>1
  <2>3. Inserts([op |-> what, day |-> today, new |-> << >>]) /\ Inserts([op |-> "ask", next |-> what, day |-> today])
    BY DEF Inserts
  <2>4. UNCHANGED <<missions, today>>
    BY <1>2 DEF get_today, create_task, missionVars
  <2>. QED
    BY <1>1, <2>2, <2>3, <2>4, DaysKept
<1>3. CASE get_or_generate_today(r)
  <2>1. PICK new : /\ Go(r, [op |-> txn[r].next, day |-> txn[r].day, new |-> new])
                   /\ new[1].by \in {"system", "user"}
    BY <1>3 DEF get_or_generate_today
  <2>2. PICK t : t = [op |-> txn[r].next, day |-> txn[r].day, new |-> new]
    OBVIOUS
  <2>3. Inserts(t)
    BY <2>1, <2>2 DEF Inserts
  <2>4. UNCHANGED <<missions, today>>
    BY <1>3 DEF get_or_generate_today, missionVars
  <2>. QED
    BY <1>1, <2>1, <2>2, <2>3, <2>4, DaysKept
<1>4. CASE CommitMission(r)
  <2>1. /\ txn[r].op \in {"today", "custom"} /\ Commit(r) /\ UNCHANGED today
        /\ missions' = IF txn[r].new = << >> THEN missions
                       ELSE Put(missions, txn[r].day, [by |-> txn[r].new[1].by, status |-> "pending"])
    BY <1>4 DEF CommitMission
  <2>2. \A d \in DOMAIN missions' : missions'[d] \in Mission
    <3>1. CASE txn[r].new = << >>
      BY <1>1, <2>1, <3>1
    <3>2. CASE txn[r].new # << >>
      <4>1. txn[r].new[1].by \in {"system", "user"}
        BY <2>1, <3>2 DEF DaysInv, Inserts
      <4>2. PICK row : row = [by |-> txn[r].new[1].by, status |-> "pending"]
        OBVIOUS
      <4>3. row \in Mission
        BY <4>1, <4>2 DEF Mission
      <4>. QED
        BY <1>1, <2>1, <3>2, <4>2, <4>3 DEF Put
    <3>. QED
      BY <3>1, <3>2
  <2>. QED
    BY <2>1, <2>2, DaysKept
<1>5. CASE patch_task(r)
  <2>1. PICK t : Begin(r, t) /\ t.op = "patch"
    BY <1>5 DEF patch_task
  <2>2. Inserts(t) /\ UNCHANGED <<missions, today>>
    BY <1>5, <2>1 DEF Inserts, patch_task, missionVars
  <2>. QED
    BY <1>1, <2>1, <2>2, DaysKept
<1>6. CASE complete_task(r)
  <2>1. PICK a, b, c, d : Go(r, [op |-> "patched", task |-> a, was |-> b, status |-> c, completes |-> d])
    BY <1>6 DEF complete_task
  <2>2. PICK t : t = [op |-> "patched", task |-> a, was |-> b, status |-> c, completes |-> d]
    OBVIOUS
  <2>3. Inserts(t) /\ UNCHANGED <<missions, today>>
    BY <1>6, <2>2 DEF Inserts, complete_task, missionVars
  <2>. QED
    BY <1>1, <2>1, <2>2, <2>3, DaysKept
<1>7. CASE CommitPatch(r)
  <2>1. PICK day : missions' \in {missions, [missions EXCEPT ![day].status = "complete"]}
    BY <1>7 DEF CommitPatch
  <2>2. ASSUME NEW m \in Mission PROVE [m EXCEPT !.status = "complete"] \in Mission
    BY DEF Mission
  <2>3. ASSUME NEW d \in DOMAIN missions PROVE missions'[d] \in Mission
    <3>1. missions[d] \in Mission
      BY <1>1
    <3>2. missions'[d] \in {missions[d], [missions[d] EXCEPT !.status = "complete"]}
      BY <2>1
    <3>. QED
      BY <2>2, <3>1, <3>2
  <2>4. DOMAIN missions' = DOMAIN missions
    BY <2>1
  <2>5. \A d \in DOMAIN missions' : missions'[d] \in Mission
    <3>. TAKE d \in DOMAIN missions'
    <3>1. d \in DOMAIN missions
      BY <2>4
    <3>. QED
      BY <2>3, <3>1
  <2>6. (Serve(r) \/ Commit(r)) /\ UNCHANGED today
    BY <1>7 DEF CommitPatch
  <2>7. \/ Commit(r) \/ Serve(r) \/ Rollback(r)
        \/ \E t : (Begin(r, t) \/ Go(r, t)) /\ Inserts(t)
    BY <2>6
  <2>8. UNCHANGED today
    BY <2>6
  <2>. QED
    BY <2>5, <2>7, <2>8, DaysKept
<1>8. CASE handle_mission_reason(r)
  <2>1. PICK t : Begin(r, t) /\ t.op = "reason"
    BY <1>8 DEF handle_mission_reason
  <2>2. Inserts(t) /\ UNCHANGED <<missions, today>>
    BY <1>8, <2>1 DEF Inserts, handle_mission_reason, missionVars
  <2>. QED
    BY <1>1, <2>1, <2>2, DaysKept
<1>9. CASE reorder_task(r) \/ CommitReason(r) \/ get_settings(r) \/ patch_settings(r)
  <2>1. (Serve(r) \/ Commit(r)) /\ UNCHANGED <<missions, today>>
    BY <1>9 DEF reorder_task, CommitReason, get_settings, patch_settings
  <2>. QED
    BY <1>1, <2>1, DaysKept
<1>. QED
  BY <1>2, <1>3, <1>4, <1>5, <1>6, <1>7, <1>8, <1>9 DEF MissionStep

(* These hold from the first request on.                                    *)
LEMMA DaysInvariant == Spec => []DaysInv
<1>1. Init => DaysInv
  BY DEF Init, TransactionsInit, MissionInit, Idle, DaysInv, Inserts
<1>2. MissionInv /\ DaysInv /\ [Next]_vars => DaysInv'
  <2>. SUFFICES ASSUME MissionInv, DaysInv, [Next]_vars PROVE DaysInv'
    OBVIOUS
  <2>1. ASSUME NEW r \in Requests, RoadmapStep(r), UNCHANGED <<missionVars, today>> PROVE DaysInv'
    <3>1. \A d \in DOMAIN missions' : missions'[d] \in Mission
      BY <2>1 DEF DaysInv, missionVars
    <3>2. \/ Serve(r) \/ Commit(r)
          \/ \E t : (Begin(r, t) \/ Go(r, t)) /\ Inserts(t)
      BY <2>1, RoadmapsSpareDays DEF Inserts
    <3>. QED
      BY <2>1, <3>1, <3>2, DaysKept
  <2>2. ASSUME NEW r \in Requests, Rollback(r), UNCHANGED <<missionVars, today>> PROVE DaysInv'
    BY <2>2, DaysKept DEF DaysInv, missionVars
  <2>3. CASE Midnight \/ UNCHANGED vars
    <3>1. UNCHANGED <<txn, missions>> /\ today' \in {today, today + 1}
      BY <2>3 DEF Midnight, vars, missionVars, txnVars
    <3>. QED
      BY <3>1 DEF DaysInv
  <2>. QED
    BY <2>1, <2>2, <2>3, DaysStep DEF Next
<1>. QED
  BY <1>1, <1>2, MissionInvariant, PTL DEF Spec

(* The share of the week's missions that are complete.                      *)
LEMMA WeekInRange ==
  ASSUME today \in Nat, NEW ms, NEW rows
  PROVE  _weekly_completion_pct(ms, rows) \in 0..100
<1>. PICK window : window = {d \in DOMAIN ms : d \in today - 6..today /\ _history_counts(d, rows)[2] > 0}
  OBVIOUS
<1>. PICK complete : complete = {d \in window : ms[d].status = "complete"}
  OBVIOUS
<1>1. IsFiniteSet(today - 6..today)
  <2>. PICK a \in Int, b \in Int : a = today - 6 /\ b = today
    OBVIOUS
  <2>1. IsFiniteSet(a..b)
    BY FS_Interval
  <2>. QED
    BY <2>1
<1>2. window \subseteq today - 6..today /\ complete \subseteq window
  OBVIOUS
<1>3. IsFiniteSet(window)
  BY <1>1, <1>2, FS_Subset
<1>4. /\ Cardinality(window) \in Nat /\ Cardinality(complete) \in Nat
      /\ Cardinality(complete) <= Cardinality(window)
  BY <1>2, <1>3, FS_Subset, FS_CardinalityType
<1>5. window # {} => Cardinality(window) # 0
  BY <1>3, FS_EmptySet
<1>6. window # {} => Pct(Cardinality(complete), Cardinality(window)) \in 0..100
  BY <1>4, <1>5, ShareInRange
<1>. QED
  BY <1>6 DEF _weekly_completion_pct

(* A day has at most one mission, being made or made, missions have their   *)
(* types, and what is shown of the week is a percentage.                    *)
THEOREM MissionsOfDays ==
  Spec => []( /\ \A d \in DOMAIN missions : missions[d] \in Mission
              /\ \A r \in Requests : Inserting(r) =>
                   txn[r].day \notin DOMAIN missions /\ \A q \in Requests : Inserting(q) => q = r
              /\ mission_history(missions, missionTasks).weekly \in 0..100 )
<1>1. MissionInv /\ DaysInv =>
        /\ \A d \in DOMAIN missions : missions[d] \in Mission
        /\ \A r \in Requests : Inserting(r) =>
             txn[r].day \notin DOMAIN missions /\ \A q \in Requests : Inserting(q) => q = r
        /\ mission_history(missions, missionTasks).weekly \in 0..100
  <2>. SUFFICES ASSUME MissionInv, DaysInv
                PROVE  /\ \A d \in DOMAIN missions : missions[d] \in Mission
                       /\ \A r \in Requests : Inserting(r) =>
                            txn[r].day \notin DOMAIN missions /\ \A q \in Requests : Inserting(q) => q = r
                       /\ mission_history(missions, missionTasks).weekly \in 0..100
    OBVIOUS
  <2>1. today \in Nat
    BY DEF DaysInv
  <2>2. _weekly_completion_pct(missions, missionTasks) \in 0..100
    BY <2>1, WeekInRange
  <2>3. mission_history(missions, missionTasks).weekly \in 0..100
    BY <2>2 DEF mission_history
  <2>. QED
    BY <2>3 DEF MissionInv, FirstOfDay, DaysInv
<1>. QED
  BY <1>1, MissionInvariant, DaysInvariant, PTL

-----------------------------------------------------------------------------
(* Onboarding (Onboarding).                                                 *)

(* The id of a startup that a request takes to its commit.                  *)
Workspace(t) == t.op \in {"state", "patch", "invite", "complete", "completed"} => t.id \in 0..Len(startups)

(* A step's answer and number are such.                                     *)
Answer(t) ==
    t.op = "patch" => t.answer \in Required /\ t.writes \in BOOLEAN /\ t.given \in BOOLEAN /\ t.step \in 1..2

(* What a request has checked of its startup holds there.                   *)
Checked(t) ==
    /\ t.op \in {"patch", "complete", "completed"} /\ t.id # 0 => ~startups[t.id].completed
    /\ t.op \in {"complete", "completed"} /\ t.id # 0 => _gate(startups[t.id])

(* A startup has no score queued before it is complete.                     *)
ScoresAfterwards ==
    /\ DOMAIN initialized \subseteq 1..Len(startups)
    /\ \A i \in DOMAIN initialized : startups[i].completed \/ initialized[i] = 0

OnboardingInv ==
    /\ Table /\ DOMAIN alone = Requests
    /\ startups \in Seq(Startup) /\ ScoresAfterwards
    /\ \A r \in Requests : Workspace(txn[r]) /\ Answer(txn[r])
    /\ \A r \in Requests : alone[r] => Checked(txn[r])

(* The startup that a request finds is one of the table, or a draft.        *)
LEMMA MineIsThere ==
  ASSUME startups \in Seq(Startup)
  PROVE  /\ Mine.id \in 0..Len(startups) /\ Mine.row \in Startup
         /\ Mine.id # 0 => Mine.row = startups[Mine.id]
<1>1. CASE startups = << >>
  <2>1. Mine = [id |-> 0, row |-> Draft]
    BY <1>1 DEF Mine
  <2>. QED
    BY <1>1, <2>1 DEF Draft, Startup
<1>2. CASE startups # << >>
  <2>1. Mine = [id |-> Len(startups), row |-> Last(startups)] /\ Last(startups) = startups[Len(startups)]
    BY <1>2 DEF Mine, Last
  <2>2. Len(startups) \in 1..Len(startups)
    BY <1>2
  <2>. QED
    BY <2>1, <2>2
<1>. QED
  BY <1>1, <1>2

(* The number of a step never goes back.                                    *)
LEMMA LaterStep ==
  ASSUME NEW a \in 1..2, NEW b \in 1..2
  PROVE  Max({a, b}) \in 1..2
<1>1. \E x \in {a, b} : \A y \in {a, b} : x >= y
  <2>1. a >= b \/ b >= a
    OBVIOUS
  <2>. QED
    BY <2>1
<1>. QED
  BY <1>1 DEF Max

(* An answer leaves a startup as complete as it was.                        *)
LEMMA AnswerGiven ==
  ASSUME NEW row \in Startup, NEW t, t.op = "patch", Answer(t)
  PROVE  /\ apply_step(t, row) \in Startup
         /\ apply_step(t, row).completed = row.completed
<1>1. PICK answers : answers = IF ~t.writes THEN row.answers
                               ELSE IF t.given THEN row.answers \cup {t.answer} ELSE row.answers \ {t.answer}
  OBVIOUS
<1>2. PICK step : step = IF t.step = t.wasStep THEN row.step ELSE t.step
  OBVIOUS
<1>3. apply_step(t, row) = [row EXCEPT !.answers = answers, !.step = step]
  BY <1>1, <1>2 DEF apply_step
<1>4. answers \in SUBSET Required /\ step \in 1..2
  BY <1>1, <1>2 DEF Startup, Answer
<1>. QED
  BY <1>3, <1>4 DEF Startup

(* A request begins, goes on or is rolled back.                             *)
LEMMA OnboardingGoes ==
  ASSUME OnboardingInv, NEW r \in Requests, NEW t, Begin(r, t) \/ Go(r, t) \/ (Rollback(r) /\ t = Idle),
         Workspace(t), Answer(t), alone[r] => Checked(t),
         UNCHANGED <<startups, initialized>>
  PROVE  OnboardingInv'
<1>1. /\ txn'[r] = t /\ Table' /\ (DOMAIN alone = Requests)'
      /\ \A q \in Requests \ {r} : txn'[q] = txn[q] /\ alone'[q] = alone[q]
      /\ alone'[r] => alone[r] \/ t.op = "idle"
  BY TableStep DEF Begin, Go, Rollback, OnboardingInv, Table, Idle
<1>2. (startups \in Seq(Startup) /\ ScoresAfterwards)'
  BY DEF OnboardingInv, ScoresAfterwards
<1>3. \A q \in Requests : Workspace(txn[q])' /\ Answer(txn[q])'
  BY <1>1 DEF OnboardingInv, Workspace, Answer
<1>4. \A q \in Requests : alone'[q] => Checked(txn[q])'
  BY <1>1 DEF OnboardingInv, Checked, _gate
<1>. QED
  BY <1>1, <1>2, <1>3, <1>4 DEF OnboardingInv

(* A request commits, and nobody else is alone any more.                    *)
LEMMA OnboardingCommits ==
  ASSUME OnboardingInv, NEW r \in Requests, Commit(r) \/ Serve(r),
         startups' \in Seq(Startup), Len(startups') >= Len(startups), ScoresAfterwards'
  PROVE  OnboardingInv'
<1>1. /\ Table' /\ (DOMAIN alone = Requests)' /\ txn'[r] = Idle
      /\ \A q \in Requests \ {r} : txn'[q] = txn[q]
      /\ \A q \in Requests : alone'[q] => txn'[q] = Idle
  BY TableStep DEF Commit, Serve, OnboardingInv, Table
<1>2. Idle.op = "idle"
  BY DEF Idle
<1>3. \A q \in Requests : Workspace(txn[q])' /\ Answer(txn[q])'
  BY <1>1, <1>2 DEF OnboardingInv, Workspace, Answer
<1>4. \A q \in Requests : alone'[q] => Checked(txn[q])'
  BY <1>1, <1>2 DEF Checked
<1>. QED
  BY <1>1, <1>3, <1>4 DEF OnboardingInv

(* Onboarding is begun, and goes on.                                        *)
LEMMA OnboardingBeginSteps ==
  ASSUME OnboardingInv, NEW r \in Requests,
         \/ get_state(r) \/ patch_state(r) \/ post_invites(r) \/ accept(r) \/ accept_invitation(r)
         \/ post_complete(r) \/ complete_onboarding(r) \/ (Rollback(r) /\ UNCHANGED onboardingVars)
  PROVE  OnboardingInv'
<1>1. /\ UNCHANGED <<startups, initialized>>
      /\ Mine.id \in 0..Len(startups) /\ Mine.row \in Startup
      /\ Mine.id # 0 => Mine.row = startups[Mine.id]
  BY MineIsThere DEF OnboardingInv, get_state, patch_state, post_invites, accept, accept_invitation,
                     post_complete, complete_onboarding, onboardingVars
<1>2. CASE get_state(r)
  <2>. PICK t : t = [op |-> "state", id |-> 0]
    OBVIOUS
  <2>1. Begin(r, t) /\ t.op = "state" /\ t.id = 0
    BY <1>2 DEF get_state
  <2>2. t.id \in 0..Len(startups)
    BY <1>1, <2>1
  <2>. QED
    BY <1>1, <2>1, <2>2, OnboardingGoes DEF Workspace, Answer, Checked
<1>3. CASE patch_state(r)
  <2>1. PICK a \in Required, given \in BOOLEAN, step \in 1..2 :
          Begin(r, [op |-> "patch", id |-> Mine.id, answer |-> a,
                    writes |-> given # (a \in Mine.row.answers), given |-> given,
                    step |-> Max({step, Mine.row.step}), wasStep |-> Mine.row.step])
    BY <1>3 DEF patch_state
  <2>. PICK t : t = [op |-> "patch", id |-> Mine.id, answer |-> a,
                     writes |-> given # (a \in Mine.row.answers), given |-> given,
                     step |-> Max({step, Mine.row.step}), wasStep |-> Mine.row.step]
    OBVIOUS
  <2>2. /\ Begin(r, t) /\ t.op = "patch" /\ t.id = Mine.id /\ t.answer \in Required
        /\ t.writes \in BOOLEAN /\ t.given \in BOOLEAN /\ t.step = Max({step, Mine.row.step})
    BY <2>1
  <2>3. t.step \in 1..2
    BY <1>1, <2>2, LaterStep DEF Startup
  <2>4. ~Mine.row.completed
    BY <1>3 DEF patch_state, ensure_draft
  <2>. QED
    BY <1>1, <2>2, <2>3, <2>4, OnboardingGoes DEF Workspace, Answer, Checked
<1>4. CASE post_invites(r)
  <2>1. PICK items \in Items :
          Begin(r, [op |-> "invite", id |-> Mine.id, last |-> invited, items |-> items,
                    new |-> create_invitations(Mine.id, items)])
    BY <1>4 DEF post_invites
  <2>. PICK t : t = [op |-> "invite", id |-> Mine.id, last |-> invited, items |-> items,
                     new |-> create_invitations(Mine.id, items)]
    OBVIOUS
  <2>2. Begin(r, t) /\ t.op = "invite" /\ t.id = Mine.id
    BY <2>1
  <2>. QED
    BY <1>1, <2>2, OnboardingGoes DEF Workspace, Answer, Checked
<1>5. CASE accept(r)
  <2>1. \E i, m, joins : Begin(r, [op |-> "accept", invitation |-> i, member |-> m, joins |-> joins])
    BY <1>5 DEF accept
  <2>. PICK i, m, joins : Begin(r, [op |-> "accept", invitation |-> i, member |-> m, joins |-> joins])
    BY <2>1
  <2>. PICK t : t = [op |-> "accept", invitation |-> i, member |-> m, joins |-> joins]
    OBVIOUS
  <2>2. Begin(r, t) /\ t.op = "accept"
    OBVIOUS
  <2>. QED
    BY <1>1, <2>2, OnboardingGoes DEF Workspace, Answer, Checked
<1>6. CASE accept_invitation(r)
  <2>. PICK u : u = txn[r]
    OBVIOUS
  <2>. PICK t : t = [u EXCEPT !.op = "joined"]
    OBVIOUS
  <2>1. Go(r, t) /\ u.op = "accept"
    BY <1>6 DEF accept_invitation, Doing
  <2>2. t.op \in {"joined", "accept"}
    BY <2>1
  <2>. QED
    BY <1>1, <2>1, <2>2, OnboardingGoes DEF Workspace, Answer, Checked
<1>7. CASE post_complete(r)
  <2>. PICK t : t = [op |-> "complete", id |-> Mine.id]
    OBVIOUS
  <2>1. /\ Begin(r, t) /\ t.op = "complete" /\ t.id = Mine.id
        /\ ~Mine.row.completed /\ _gate(Mine.row)
    BY <1>7 DEF post_complete
  <2>. QED
    BY <1>1, <2>1, OnboardingGoes DEF Workspace, Answer, Checked
<1>8. CASE complete_onboarding(r)
  <2>. PICK u : u = txn[r]
    OBVIOUS
  <2>. PICK t : t = [u EXCEPT !.op = "completed"]
    OBVIOUS
  <2>1. Go(r, t) /\ u.op = "complete"
    BY <1>8 DEF complete_onboarding, Doing
  <2>2. t.id = u.id /\ t.op \in {"completed", "complete"}
    BY <2>1
  <2>3. Workspace(u) /\ (alone[r] => Checked(u))
    BY DEF OnboardingInv
  <2>. QED
    BY <1>1, <2>1, <2>2, <2>3, OnboardingGoes DEF Workspace, Answer, Checked
<1>9. CASE Rollback(r) /\ UNCHANGED onboardingVars
  <2>. PICK t : t = Idle
    OBVIOUS
  <2>1. t.op = "idle"
    BY DEF Idle
  <2>. QED
    BY <1>1, <1>9, <2>1, OnboardingGoes DEF Workspace, Answer, Checked
<1>. QED
  BY <1>2, <1>3, <1>4, <1>5, <1>6, <1>7, <1>8, <1>9

(* What a request writes to its startup: the row, or a startup more.        *)
LEMMA StartupWritten ==
  ASSUME OnboardingInv, NEW t, t.id \in 0..Len(startups), NEW row \in Startup,
         resolve_or_create_workspace(t, row)
  PROVE  /\ startups' \in Seq(Startup) /\ Len(startups') >= Len(startups)
         /\ \A i \in 1..Len(startups) : startups'[i] = IF i = t.id THEN row ELSE startups[i]
<1>1. startups \in Seq(Startup)
  BY DEF OnboardingInv
<1>2. CASE t.id = 0
  <2>1. startups' = Append(startups, row)
    BY <1>2 DEF resolve_or_create_workspace
  <2>. QED
    BY <1>1, <1>2, <2>1
<1>3. CASE t.id # 0
  <2>1. startups' = [startups EXCEPT ![t.id] = row] /\ t.id \in 1..Len(startups)
    BY <1>3 DEF resolve_or_create_workspace
  <2>. QED
    BY <1>1, <2>1
<1>. QED
  BY <1>2, <1>3

(* The row that a request changes is one of the table, or a draft.          *)
LEMMA CurrentIsThere ==
  ASSUME OnboardingInv, NEW t, t.id \in 0..Len(startups)
  PROVE  /\ CurrentRow(t) \in Startup
         /\ t.id # 0 => CurrentRow(t) = startups[t.id]
<1>1. startups \in Seq(Startup) /\ Draft \in Startup
  BY DEF OnboardingInv, Draft, Startup
<1>. QED
  BY <1>1 DEF CurrentRow

(* A startup becomes complete by a completion, and stays it.                *)
LEMMA OnboardingCommitSteps ==
  ASSUME OnboardingInv, NEW r \in Requests, CommitState(r) \/ CommitInvites(r)
  PROVE  /\ OnboardingInv'
         /\ \A i \in DOMAIN startups :
              /\ startups'[i].completed = startups[i].completed
              /\ startups'[i] # startups[i] => txn[r].op = "patch" /\ i = txn[r].id
<1>. PICK t : t = txn[r]
  OBVIOUS
<1>1. /\ t.op \in {"state", "patch", "invite"} /\ Commit(r) /\ UNCHANGED initialized
      /\ resolve_or_create_workspace(t,
           IF t.op = "patch" THEN apply_step(t, CurrentRow(t)) ELSE CurrentRow(t))
  BY DEF CommitState, CommitInvites, Doing
<1>2. t.id \in 0..Len(startups) /\ Answer(t) /\ startups \in Seq(Startup)
  BY <1>1 DEF OnboardingInv, Workspace
<1>3. CurrentRow(t) \in Startup /\ (t.id # 0 => CurrentRow(t) = startups[t.id])
  BY <1>2, CurrentIsThere
<1>. PICK row : row = IF t.op = "patch" THEN apply_step(t, CurrentRow(t)) ELSE CurrentRow(t)
  OBVIOUS
<1>4. /\ row \in Startup /\ row.completed = CurrentRow(t).completed
      /\ t.op # "patch" => row = CurrentRow(t)
  BY <1>2, <1>3, AnswerGiven
<1>5. /\ startups' \in Seq(Startup) /\ Len(startups') >= Len(startups)
      /\ \A i \in 1..Len(startups) : startups'[i] = IF i = t.id THEN row ELSE startups[i]
  BY <1>1, <1>2, <1>4, StartupWritten
<1>6. \A i \in 1..Len(startups) :
        /\ startups'[i].completed = startups[i].completed
        /\ startups'[i] # startups[i] => t.op = "patch" /\ i = t.id
  BY <1>3, <1>4, <1>5
<1>7. ScoresAfterwards'
  BY <1>1, <1>2, <1>5, <1>6 DEF OnboardingInv, ScoresAfterwards
<1>8. OnboardingInv'
  BY <1>1, <1>5, <1>7, OnboardingCommits
<1>9. DOMAIN startups = 1..Len(startups)
  BY <1>2
<1>. QED
  BY <1>6, <1>8, <1>9

(* The completion's commit: the startup is complete, and its first score is *)
(* queued.                                                                  *)
LEMMA CompletionStep ==
  ASSUME OnboardingInv, NEW r \in Requests, CommitComplete(r)
  PROVE  /\ OnboardingInv'
         /\ \A i \in DOMAIN startups :
              startups'[i] # startups[i] =>
                /\ txn[r].op = "completed" /\ i = txn[r].id /\ i # 0
                /\ startups'[i] = [startups[i] EXCEPT !.completed = TRUE, !.roadmap = TRUE]
                /\ initialized'[i] = (IF i \in DOMAIN initialized THEN initialized[i] ELSE 0) + 1
<1>. PICK t : t = txn[r]
  OBVIOUS
<1>1. /\ t.op = "completed" /\ Commit(r)
      /\ resolve_or_create_workspace(t, [CurrentRow(t) EXCEPT !.completed = TRUE, !.roadmap = TRUE])
      /\ initialized' = [i \in DOMAIN startups |->
           (IF i \in DOMAIN initialized THEN initialized[i] ELSE 0) + IF i = t.id THEN 1 ELSE 0]
  BY DEF CommitComplete, Doing
<1>2. t.id \in 0..Len(startups) /\ startups \in Seq(Startup)
  BY <1>1 DEF OnboardingInv, Workspace
<1>3. CurrentRow(t) \in Startup /\ (t.id # 0 => CurrentRow(t) = startups[t.id])
  BY <1>2, CurrentIsThere
<1>. PICK row : row = [CurrentRow(t) EXCEPT !.completed = TRUE, !.roadmap = TRUE]
  OBVIOUS
<1>4. row \in Startup /\ row.completed = TRUE
  BY <1>3 DEF Startup
<1>5. /\ startups' \in Seq(Startup) /\ Len(startups') >= Len(startups)
      /\ \A i \in 1..Len(startups) : startups'[i] = IF i = t.id THEN row ELSE startups[i]
  BY <1>1, <1>2, <1>4, StartupWritten
<1>6. DOMAIN startups = 1..Len(startups) /\ DOMAIN initialized' = 1..Len(startups)
  BY <1>1, <1>2
<1>7. ASSUME NEW i \in 1..Len(startups), ~startups'[i].completed PROVE initialized'[i] = 0
  <2>1. i # t.id /\ ~startups[i].completed
    BY <1>4, <1>5, <1>7
  <2>2. i \in DOMAIN initialized => initialized[i] = 0
    BY <2>1 DEF OnboardingInv, ScoresAfterwards
  <2>. QED
    BY <1>1, <1>6, <2>1, <2>2
<1>8. ScoresAfterwards'
  BY <1>2, <1>5, <1>6, <1>7 DEF ScoresAfterwards
<1>9. OnboardingInv'
  BY <1>1, <1>5, <1>8, OnboardingCommits
<1>10. ASSUME NEW i \in 1..Len(startups), startups'[i] # startups[i]
       PROVE  /\ i = t.id /\ i # 0 /\ startups'[i] = [startups[i] EXCEPT !.completed = TRUE, !.roadmap = TRUE]
              /\ initialized'[i] = (IF i \in DOMAIN initialized THEN initialized[i] ELSE 0) + 1
  <2>1. i = t.id /\ i # 0
    BY <1>5, <1>10
  <2>2. startups'[i] = row /\ row = [startups[i] EXCEPT !.completed = TRUE, !.roadmap = TRUE]
    BY <1>3, <1>5, <2>1
  <2>. PICK n : n = IF i \in DOMAIN initialized THEN initialized[i] ELSE 0
    OBVIOUS
  <2>3. initialized'[i] = n + 1
    BY <1>1, <1>6, <2>1
  <2>. QED
    BY <2>1, <2>2, <2>3
<1>. QED
  BY <1>1, <1>6, <1>9, <1>10

(* A first look at the roadmap, and what else touches no startup.           *)
LEMMA OtherOnboardingSteps ==
  ASSUME OnboardingInv, NEW r \in Requests, get_roadmap_ep(r) \/ CommitAccept(r)
  PROVE  /\ OnboardingInv'
         /\ startups' # startups => Serve(r)
<1>1. startups \in Seq(Startup) /\ ScoresAfterwards
  BY DEF OnboardingInv
<1>2. CASE get_roadmap_ep(r)
  <2>1. PICK i \in DOMAIN startups : startups' = [startups EXCEPT ![i].roadmap = TRUE]
    BY <1>2 DEF get_roadmap_ep
  <2>. PICK row : row = [startups[i] EXCEPT !.roadmap = TRUE]
    OBVIOUS
  <2>2. row \in Startup /\ row.completed = startups[i].completed
    <3>1. startups[i] \in Startup
      BY <1>1
    <3>. QED
      BY <3>1 DEF Startup
  <2>3. startups' = [startups EXCEPT ![i] = row] /\ UNCHANGED initialized /\ Serve(r)
    BY <1>2, <2>1 DEF get_roadmap_ep
  <2>4. /\ startups' \in Seq(Startup) /\ Len(startups') = Len(startups) /\ Len(startups) \in Nat
        /\ \A j \in 1..Len(startups) : startups'[j].completed = startups[j].completed
    BY <1>1, <2>2, <2>3
  <2>5. ScoresAfterwards'
    BY <1>1, <2>3, <2>4 DEF ScoresAfterwards
  <2>6. Len(startups') >= Len(startups)
    BY <2>4
  <2>. QED
    BY <2>3, <2>4, <2>5, <2>6, OnboardingCommits
<1>3. CASE CommitAccept(r)
  <2>1. Commit(r) /\ UNCHANGED <<startups, initialized>>
    BY <1>3 DEF CommitAccept
  <2>2. startups' \in Seq(Startup) /\ Len(startups') >= Len(startups) /\ ScoresAfterwards'
    BY <1>1, <2>1 DEF ScoresAfterwards
  <2>. QED
    BY <2>1, <2>2, OnboardingCommits
<1>. QED
  BY <1>2, <1>3

(* These hold from the first request on.                                    *)
LEMMA OnboardingInvariant == OnboardingSpec => []OnboardingInv
<1>1. TransactionsInit /\ OnboardingInit => OnboardingInv
  <2>. SUFFICES ASSUME TransactionsInit, OnboardingInit PROVE OnboardingInv
    OBVIOUS
  <2>1. startups \in Seq(Startup) /\ ScoresAfterwards
    BY DEF OnboardingInit, ScoresAfterwards
  <2>2. /\ Table /\ DOMAIN alone = Requests
        /\ \A r \in Requests : txn[r].op = "idle"
    BY DEF TransactionsInit, Table, Idle
  <2>. QED
    BY <2>1, <2>2 DEF OnboardingInv, Workspace, Answer, Checked
<1>2. OnboardingInv /\ [OnboardingNext]_<<onboardingVars, txnVars>> => OnboardingInv'
  <2>. SUFFICES ASSUME OnboardingInv, [OnboardingNext]_<<onboardingVars, txnVars>> PROVE OnboardingInv'
    OBVIOUS
  <2>1. ASSUME NEW r \in Requests, OnboardingStep(r) \/ (Rollback(r) /\ UNCHANGED onboardingVars)
        PROVE  OnboardingInv'
    BY <2>1, OnboardingBeginSteps, OnboardingCommitSteps, CompletionStep, OtherOnboardingSteps
       DEF OnboardingStep
  <2>2. CASE InvitationExpires \/ UNCHANGED <<onboardingVars, txnVars>>
    <3>1. UNCHANGED <<startups, initialized, txn, alone, served>>
      BY <2>2 DEF InvitationExpires, onboardingVars, txnVars
    <3>. QED
      BY <3>1 DEF OnboardingInv, Table, ScoresAfterwards, Workspace, Answer, Checked, _gate
  <2>. QED
    BY <2>1, <2>2 DEF OnboardingNext
<1>. QED
  BY <1>1, <1>2, PTL DEF OnboardingSpec

(* A completion that no other request commits into makes the startup ready: *)
(* with every required answer, a roadmap and one job for its first score,   *)
(* and nothing that such a request writes reopens a startup or touches one  *)
(* that is complete.                                                        *)
THEOREM CompletionsAreReady == OnboardingSpec => OnboardedReady
<1>1. ASSUME OnboardingInv, OnboardingNext, NEW r \in Requests, NEW i \in DOMAIN startups',
             SerialCommit(r), startups'[i].completed, i \in DOMAIN startups, startups'[i] # startups[i]
      PROVE  _gate(startups'[i]) /\ startups'[i].roadmap /\ initialized'[i] = 1
  <2>1. txn[r] # Idle /\ txn'[r] = Idle /\ alone[r] /\ Checked(txn[r])
    BY <1>1 DEF SerialCommit, OnboardingInv
  <2>2. txn'[r] # txn[r]
    BY <2>1
  <2>3. PICK q \in Requests :
          CommitState(q) \/ CommitInvites(q) \/ CommitComplete(q) \/ get_roadmap_ep(q)
    BY <1>1 DEF OnboardingNext, OnboardingStep, get_state, patch_state, post_invites, accept,
                accept_invitation, CommitAccept, post_complete, complete_onboarding, InvitationExpires,
                onboardingVars
  <2>4. ~get_roadmap_ep(q) /\ Commit(q)
    BY <2>2, <2>3 DEF get_roadmap_ep, Serve, CommitState, CommitInvites, CommitComplete
  <2>5. q = r
    BY <1>1, <2>2, <2>4, TableStep DEF OnboardingInv
  <2>. PICK t : t = txn[r]
    OBVIOUS
  <2>6. startups \in Seq(Startup) /\ DOMAIN startups = 1..Len(startups) /\ i # 0
    BY <1>1 DEF OnboardingInv
  <2>7. ~startups[i].completed
    <3>1. CASE CommitState(q) \/ CommitInvites(q)
      BY <1>1, <2>1, <2>5, <2>6, <3>1, OnboardingCommitSteps DEF Checked
    <3>2. CASE CommitComplete(q)
      BY <1>1, <2>1, <2>5, <3>2, CompletionStep DEF Checked
    <3>. QED
      BY <2>3, <2>4, <3>1, <3>2
  <2>8. CommitComplete(q)
    BY <1>1, <2>3, <2>4, <2>7, OnboardingCommitSteps
  <2>9. /\ t.op = "completed" /\ i = t.id
        /\ startups'[i] = [startups[i] EXCEPT !.completed = TRUE, !.roadmap = TRUE]
        /\ initialized'[i] = (IF i \in DOMAIN initialized THEN initialized[i] ELSE 0) + 1
    BY <1>1, <2>5, <2>8, CompletionStep
  <2>10. _gate(startups[i])
    BY <2>1, <2>6, <2>9 DEF Checked
  <2>11. startups'[i].roadmap /\ startups'[i].answers = startups[i].answers
    BY <2>6, <2>9 DEF Startup
  <2>12. i \in DOMAIN initialized => initialized[i] = 0
    BY <1>1, <2>7 DEF OnboardingInv, ScoresAfterwards
  <2>. QED
    BY <2>9, <2>10, <2>11, <2>12 DEF _gate
<1>2. OnboardingInv /\ [OnboardingNext]_<<onboardingVars, txnVars>> =>
        [\A r \in Requests, i \in DOMAIN startups' :
         /\ SerialCommit(r) /\ startups'[i].completed
         /\ i \in DOMAIN startups /\ startups'[i] # startups[i]
         => _gate(startups'[i]) /\ startups'[i].roadmap /\ initialized'[i] = 1
      ]_<<onboardingVars, txn>>
  BY <1>1 DEF onboardingVars, txnVars
<1>. QED
  BY <1>2, OnboardingInvariant, PTL DEF OnboardingSpec, OnboardedReady

(* What a request is to store of its invitations: they are of different     *)
(* mailboxes, none of them the founder's.                                   *)
ToInvite(t) ==
    t.op = "invite" =>
      /\ t.last \in Nat /\ Len(t.items) \in Nat /\ t.last + Len(t.items) <= invited
      /\ t.new \subseteq 1..Len(t.items)
      /\ \A n \in t.new : /\ t.items[n].email \in Addresses /\ t.items[n].role \in Roles
                          /\ Mailbox[t.items[n].email] # "founder"
      /\ \A m, n \in t.new : Mailbox[t.items[m].email] = Mailbox[t.items[n].email] => m = n

(* Who accepts joins a startup of the table.                                *)
ToJoin(t) == t.op \in {"accept", "joined"} => t.member[2] \in 1..Len(startups)

(* Nobody that a request is to invite has an invitation open or is a member. *)
Uninvited(t) ==
    t.op = "invite" =>
      \A n \in t.new : /\ Pending(invitations, t.id, Mailbox[t.items[n].email]) = {}
                       /\ <<Mailbox[t.items[n].email], t.id>> \notin DOMAIN memberships

(* Members and invitations are of startups of the table.                    *)
MembersThere ==
    /\ \A m \in DOMAIN memberships : m[2] \in 1..Len(startups)
    /\ \A i \in 1..Len(startups) : <<"founder", i>> \in DOMAIN memberships

InvitationsThere ==
    /\ invited \in Nat /\ DOMAIN invitations \subseteq 1..invited
    /\ \A i \in DOMAIN invitations :
         invitations[i] \in Invitation /\ invitations[i].startup \in 1..Len(startups)

InvitesInv ==
    /\ MembersThere /\ InvitationsThere
    /\ \A r \in Requests : ToInvite(txn[r]) /\ ToJoin(txn[r])
    /\ \A r \in Requests : alone[r] => Uninvited(txn[r])

(* The items of a request are invited by mailbox, each mailbox once.        *)
LEMMA InvitationsDiffer ==
  ASSUME NEW items \in Items, NEW id
  PROVE  /\ Len(items) \in Nat /\ create_invitations(id, items) \subseteq 1..Len(items)
         /\ \A n \in create_invitations(id, items) :
              /\ items[n].email \in Addresses /\ items[n].role \in Roles
              /\ Mailbox[items[n].email] # "founder"
              /\ Pending(invitations, id, Mailbox[items[n].email]) = {}
              /\ <<Mailbox[items[n].email], id>> \notin DOMAIN memberships
         /\ \A m, n \in create_invitations(id, items) :
              Mailbox[items[m].email] = Mailbox[items[n].email] => m = n
<1>1. /\ Len(items) \in Nat
      /\ \A n \in 1..Len(items) : items[n].email \in Addresses /\ items[n].role \in Roles
  <2>1. CASE \E a \in Addresses, x \in Roles : items = <<[email |-> a, role |-> x]>>
    BY <2>1
  <2>2. CASE \E a, b \in Addresses :
               items = <<[email |-> a, role |-> "co_founder"], [email |-> b, role |-> "team_member"]>>
    <3>. PICK a \in Addresses, b \in Addresses :
                items = <<[email |-> a, role |-> "co_founder"], [email |-> b, role |-> "team_member"]>>
      BY <2>2
    <3>1. /\ Len(items) = 2 /\ 1..2 = {1, 2}
          /\ items[1] = [email |-> a, role |-> "co_founder"] /\ items[2] = [email |-> b, role |-> "team_member"]
      OBVIOUS
    <3>. QED
      BY <3>1 DEF Roles
  <2>. QED
    BY <2>1, <2>2 DEF Items
<1>2. \A n \in create_invitations(id, items) :
        /\ n \in 1..Len(items)
        /\ Mailbox[items[n].email] # "founder"
        /\ Pending(invitations, id, Mailbox[items[n].email]) = {}
        /\ <<Mailbox[items[n].email], id>> \notin DOMAIN memberships
        /\ \A m \in 1..n - 1 : Mailbox[items[m].email] # Mailbox[items[n].email]
  BY DEF create_invitations, Skipped, _is_active_member_email
<1>3. ASSUME NEW m \in create_invitations(id, items), NEW n \in create_invitations(id, items),
             Mailbox[items[m].email] = Mailbox[items[n].email]
      PROVE  m = n
  <2>1. m \in 1..Len(items) /\ n \in 1..Len(items)
    BY <1>2
  <2>2. m \notin 1..n - 1 /\ n \notin 1..m - 1
    BY <1>2, <1>3
  <2>. QED
    BY <1>1, <2>1, <2>2
<1>. QED
  BY <1>1, <1>2, <1>3

(* A request begins, goes on or is rolled back.                             *)
LEMMA InvitesGo ==
  ASSUME OnboardingInv, InvitesInv, NEW r \in Requests, NEW t,
         Begin(r, t) \/ Go(r, t) \/ (Rollback(r) /\ t = Idle),
         invited' \in Nat, invited' >= invited, UNCHANGED <<startups, memberships, invitations>>,
         ToInvite(t)', ToJoin(t), alone[r] => Uninvited(t)
  PROVE  InvitesInv'
<1>1. /\ txn'[r] = t
      /\ \A q \in Requests \ {r} : txn'[q] = txn[q] /\ alone'[q] = alone[q]
      /\ alone'[r] => alone[r] \/ t.op = "idle"
  BY TableStep DEF Begin, Go, Rollback, OnboardingInv, Table, Idle
<1>2. (MembersThere /\ InvitationsThere)'
  <2>1. 1..invited \subseteq 1..invited'
    BY DEF InvitesInv, InvitationsThere
  <2>. QED
    BY <2>1 DEF InvitesInv, MembersThere, InvitationsThere
<1>3. \A q \in Requests : ToInvite(txn[q])' /\ ToJoin(txn[q])'
  <2>1. ToInvite(txn[r])' /\ ToJoin(txn[r])'
    BY <1>1 DEF ToInvite, ToJoin
  <2>2. ASSUME NEW q \in Requests \ {r} PROVE ToInvite(txn[q])' /\ ToJoin(txn[q])'
    <3>1. ToInvite(txn[q]) /\ ToJoin(txn[q]) /\ txn'[q] = txn[q] /\ invited \in Nat
      BY <1>1 DEF InvitesInv, InvitationsThere
    <3>. QED
      BY <3>1 DEF ToInvite, ToJoin
  <2>. QED
    BY <2>1, <2>2
<1>4. \A q \in Requests : alone'[q] => Uninvited(txn[q])'
  BY <1>1 DEF InvitesInv, Uninvited, Pending
<1>. QED
  BY <1>2, <1>3, <1>4 DEF InvitesInv

(* A request commits, and nobody else is alone any more.                    *)
LEMMA InvitesCommit ==
  ASSUME OnboardingInv, InvitesInv, NEW r \in Requests, Commit(r) \/ Serve(r),
         Len(startups') \in Nat, Len(startups') >= Len(startups), UNCHANGED invited,
         MembersThere', InvitationsThere'
  PROVE  InvitesInv'
<1>1. /\ txn'[r] = Idle
      /\ \A q \in Requests \ {r} : txn'[q] = txn[q]
      /\ \A q \in Requests : alone'[q] => txn'[q] = Idle
  BY TableStep DEF Commit, Serve, OnboardingInv, Table
<1>. Idle.op = "idle" /\ Len(startups) \in Nat
  BY DEF Idle, OnboardingInv
<1>2. \A q \in Requests : ToInvite(txn[q])' /\ ToJoin(txn[q])'
  <2>1. ASSUME NEW q \in Requests \ {r} PROVE ToInvite(txn[q])' /\ ToJoin(txn[q])'
    <3>1. ToInvite(txn[q]) /\ ToJoin(txn[q]) /\ txn'[q] = txn[q] /\ 1..Len(startups) \subseteq 1..Len(startups')
      BY <1>1 DEF InvitesInv
    <3>. QED
      BY <3>1 DEF ToInvite, ToJoin
  <2>. QED
    BY <1>1, <2>1 DEF ToInvite, ToJoin
<1>3. \A q \in Requests : alone'[q] => Uninvited(txn[q])'
  BY <1>1 DEF Uninvited
<1>. QED
  BY <1>2, <1>3 DEF InvitesInv

(* Invitations are begun and accepted, and what looks at none of them.      *)
LEMMA InvitesBeginSteps ==
  ASSUME OnboardingInv, InvitesInv, NEW r \in Requests,
         \/ get_state(r) \/ patch_state(r) \/ post_invites(r) \/ accept(r) \/ accept_invitation(r)
         \/ post_complete(r) \/ complete_onboarding(r) \/ (Rollback(r) /\ UNCHANGED onboardingVars)
  PROVE  InvitesInv'
<1>1. invited \in Nat /\ UNCHANGED <<startups, memberships, invitations>>
  BY DEF InvitesInv, InvitationsThere, get_state, patch_state, post_invites, accept, accept_invitation,
         post_complete, complete_onboarding, onboardingVars
<1>2. CASE post_invites(r)
  <2>1. PICK items \in Items :
          /\ Begin(r, [op |-> "invite", id |-> Mine.id, last |-> invited, items |-> items,
                       new |-> create_invitations(Mine.id, items)])
          /\ invited' = invited + Len(items)
    BY <1>2 DEF post_invites
  <2>. PICK t : t = [op |-> "invite", id |-> Mine.id, last |-> invited, items |-> items,
                     new |-> create_invitations(Mine.id, items)]
    OBVIOUS
  <2>2. /\ Begin(r, t) /\ t.op = "invite" /\ t.id = Mine.id /\ t.last = invited /\ t.items = items
        /\ t.new = create_invitations(t.id, t.items)
    BY <2>1
  <2>3. /\ Len(items) \in Nat /\ t.new \subseteq 1..Len(items)
        /\ \A n \in t.new : /\ items[n].email \in Addresses /\ items[n].role \in Roles
                            /\ Mailbox[items[n].email] # "founder"
                            /\ Pending(invitations, t.id, Mailbox[items[n].email]) = {}
                            /\ <<Mailbox[items[n].email], t.id>> \notin DOMAIN memberships
        /\ \A m, n \in t.new : Mailbox[items[m].email] = Mailbox[items[n].email] => m = n
    <3>1. t.new = create_invitations(t.id, items)
      BY <2>2
    <3>. QED
      BY <3>1, InvitationsDiffer
  <2>5. ToInvite(t)'
    <3>1. t.last \in Nat /\ Len(t.items) \in Nat /\ t.last + Len(t.items) <= invited'
      BY <1>1, <2>1, <2>2, <2>3
    <3>. QED
      BY <2>2, <2>3, <3>1 DEF ToInvite
  <2>6. Uninvited(t)
    BY <2>2, <2>3 DEF Uninvited
  <2>4. ToJoin(t)
    BY <2>2 DEF ToJoin
  <2>. QED
    BY <1>1, <2>1, <2>2, <2>3, <2>4, <2>5, <2>6, InvitesGo
<1>3. CASE accept(r)
  <2>1. PICK i \in DOMAIN invitations :
          Begin(r, [op |-> "accept", invitation |-> i,
                    member |-> <<Mailbox[invitations[i].email], invitations[i].startup>>,
                    joins |-> <<Mailbox[invitations[i].email], invitations[i].startup>> \notin DOMAIN memberships])
    BY <1>3 DEF accept, preview_invitation
  <2>. PICK t : t = [op |-> "accept", invitation |-> i,
                     member |-> <<Mailbox[invitations[i].email], invitations[i].startup>>,
                     joins |-> <<Mailbox[invitations[i].email], invitations[i].startup>> \notin DOMAIN memberships]
    OBVIOUS
  <2>2. Begin(r, t) /\ t.op = "accept" /\ t.member[2] = invitations[i].startup
    BY <2>1
  <2>3. ToJoin(t)
    BY <2>2 DEF InvitesInv, InvitationsThere, ToJoin
  <2>4. UNCHANGED invited
    BY <1>3 DEF accept, onboardingVars
  <2>. QED
    BY <1>1, <2>2, <2>3, <2>4, InvitesGo DEF ToInvite, Uninvited
<1>4. CASE accept_invitation(r)
  <2>. PICK u : u = txn[r]
    OBVIOUS
  <2>. PICK t : t = [u EXCEPT !.op = "joined"]
    OBVIOUS
  <2>1. Go(r, t) /\ u.op = "accept" /\ UNCHANGED invited
    BY <1>4 DEF accept_invitation, Doing, onboardingVars
  <2>2. t.member = u.member /\ t.op \in {"joined", "accept"} /\ ToJoin(u)
    BY <2>1 DEF InvitesInv
  <2>3. ToInvite(t)' /\ ToJoin(t) /\ Uninvited(t)
    BY <2>1, <2>2 DEF ToInvite, ToJoin, Uninvited
  <2>. QED
    BY <1>1, <2>1, <2>3, InvitesGo
<1>5. CASE get_state(r) \/ patch_state(r) \/ post_complete(r)
  <2>1. PICK t : Begin(r, t) /\ t.op \in {"state", "patch", "complete"}
    <3>1. CASE get_state(r)
      BY <3>1 DEF get_state
    <3>2. CASE patch_state(r)
      <4>. PICK a, writes, given, step, wasStep :
             Begin(r, [op |-> "patch", id |-> Mine.id, answer |-> a, writes |-> writes, given |-> given,
                       step |-> step, wasStep |-> wasStep])
        BY <3>2 DEF patch_state
      <4>. PICK t : t = [op |-> "patch", id |-> Mine.id, answer |-> a, writes |-> writes, given |-> given,
                         step |-> step, wasStep |-> wasStep]
        OBVIOUS
      <4>1. Begin(r, t) /\ t.op = "patch"
        OBVIOUS
      <4>. QED
        BY <4>1
    <3>3. CASE post_complete(r)
      BY <3>3 DEF post_complete
    <3>. QED
      BY <1>5, <3>1, <3>2, <3>3
  <2>2. UNCHANGED invited
    BY <1>5 DEF get_state, patch_state, post_complete, onboardingVars
  <2>3. ToInvite(t)' /\ ToJoin(t) /\ Uninvited(t)
    BY <2>1 DEF ToInvite, ToJoin, Uninvited
  <2>. QED
    BY <1>1, <2>1, <2>2, <2>3, InvitesGo
<1>6. CASE complete_onboarding(r)
  <2>. PICK u : u = txn[r]
    OBVIOUS
  <2>. PICK t : t = [u EXCEPT !.op = "completed"]
    OBVIOUS
  <2>1. Go(r, t) /\ t.op \in {"complete", "completed"} /\ UNCHANGED invited
    BY <1>6 DEF complete_onboarding, Doing, onboardingVars
  <2>2. ToInvite(t)' /\ ToJoin(t) /\ Uninvited(t)
    BY <2>1 DEF ToInvite, ToJoin, Uninvited
  <2>. QED
    BY <1>1, <2>1, <2>2, InvitesGo
<1>7. CASE Rollback(r) /\ UNCHANGED onboardingVars
  <2>. PICK t : t = Idle
    OBVIOUS
  <2>1. t.op = "idle" /\ UNCHANGED invited
    BY <1>7 DEF Idle, onboardingVars
  <2>. QED
    BY <1>1, <1>7, <2>1, InvitesGo DEF ToInvite, ToJoin, Uninvited
<1>. QED
  BY <1>2, <1>3, <1>4, <1>5, <1>6, <1>7

(* A startup that a request makes has its founder as a member.              *)
LEMMA MembersWritten ==
  ASSUME OnboardingInv, MembersThere, NEW t, t.id \in 0..Len(startups), NEW row,
         resolve_or_create_workspace(t, row)
  PROVE  /\ MembersThere' /\ Len(startups') \in Nat /\ Len(startups') >= Len(startups)
         /\ t.id = 0 => Len(startups') = Len(startups) + 1
         /\ \A m \in DOMAIN memberships' \ DOMAIN memberships : m[1] = "founder"
         /\ t.id # 0 => UNCHANGED memberships
<1>1. startups \in Seq(Startup) /\ Len(startups) \in Nat
  BY DEF OnboardingInv
<1>2. CASE t.id = 0
  <2>1. /\ startups' = Append(startups, row)
        /\ memberships' = Put(memberships, <<"founder", Len(startups')>>, "founder")
    BY <1>2 DEF resolve_or_create_workspace
  <2>2. Len(startups') = Len(startups) + 1
    BY <1>1, <2>1
  <2>3. DOMAIN memberships' = DOMAIN memberships \cup {<<"founder", Len(startups')>>}
    BY <2>1 DEF Put
  <2>4. <<"founder", Len(startups')>>[1] = "founder" /\ <<"founder", Len(startups')>>[2] = Len(startups')
    OBVIOUS
  <2>. QED
    BY <1>1, <1>2, <2>2, <2>3, <2>4 DEF MembersThere
<1>3. CASE t.id # 0
  <2>1. startups' = [startups EXCEPT ![t.id] = row] /\ UNCHANGED memberships
    BY <1>3 DEF resolve_or_create_workspace
  <2>2. Len(startups') = Len(startups)
    BY <1>1, <2>1
  <2>3. MembersThere'
    BY <2>1, <2>2 DEF MembersThere
  <2>4. UNCHANGED memberships
    BY <2>1
  <2>. QED
    BY <1>1, <1>3, <2>2, <2>3, <2>4
<1>. QED
  BY <1>2, <1>3

(* The commit of invitations stores those that the request has found.       *)
LEMMA InvitesStored ==
  ASSUME OnboardingInv, InvitesInv, NEW r \in Requests, CommitInvites(r)
  PROVE  /\ InvitesInv'
         /\ \A i, box :
              /\ i \in 1..Len(startups') /\ alone[r]
              /\ Pending(invitations', i, box) \ Pending(invitations, i, box) # {}
              => Cardinality(Pending(invitations', i, box)) = 1 /\ <<box, i>> \notin DOMAIN memberships'
<1>. PICK t : t = txn[r]
  OBVIOUS
<1>. PICK row : row = CurrentRow(t)
  OBVIOUS
<1>. PICK id : id = IF t.id = 0 THEN Len(startups') ELSE t.id
  OBVIOUS
<1>. PICK ids : ids = {t.last + n : n \in t.new}
  OBVIOUS
<1>1. /\ t.op = "invite" /\ Commit(r) /\ resolve_or_create_workspace(t, row) /\ UNCHANGED invited
      /\ invitations' = PutAll(invitations, [i \in ids |-> invitation(t, id, i - t.last)])
  BY DEF CommitInvites, Doing
<1>2. /\ ToInvite(t) /\ t.id \in 0..Len(startups) /\ Len(startups) \in Nat
      /\ MembersThere /\ InvitationsThere /\ (alone[r] => Uninvited(t))
  BY <1>1 DEF InvitesInv, OnboardingInv, Workspace
<1>3. /\ MembersThere' /\ Len(startups') \in Nat /\ Len(startups') >= Len(startups)
      /\ t.id = 0 => Len(startups') = Len(startups) + 1
      /\ \A m \in DOMAIN memberships' \ DOMAIN memberships : m[1] = "founder"
      /\ t.id # 0 => UNCHANGED memberships
  BY <1>1, <1>2, MembersWritten
<1>4. id \in 1..Len(startups')
  BY <1>2, <1>3
<1>5. /\ DOMAIN invitations' = DOMAIN invitations \cup ids
      /\ \A i \in ids : invitations'[i] = invitation(t, id, i - t.last)
      /\ \A i \in DOMAIN invitations \ ids : invitations'[i] = invitations[i]
  BY <1>1 DEF PutAll
<1>6. \A i \in ids : i - t.last \in t.new /\ i \in 1..invited
  BY SMTT(60), <1>1, <1>2 DEF ToInvite, InvitationsThere
<1>7. ASSUME NEW n \in t.new
      PROVE  /\ invitation(t, id, n) \in Invitation
             /\ invitation(t, id, n).startup = id /\ invitation(t, id, n).status = "pending"
             /\ invitation(t, id, n).email = t.items[n].email
  <2>1. id \in Nat /\ t.items[n].email \in Addresses /\ t.items[n].role \in Roles
    BY <1>1, <1>2, <1>3, <1>4 DEF ToInvite
  <2>. QED
    BY <2>1 DEF invitation, Invitation
<1>8. InvitationsThere'
  <2>1. ASSUME NEW i \in DOMAIN invitations'
        PROVE  invitations'[i] \in Invitation /\ invitations'[i].startup \in 1..Len(startups') /\ i \in 1..invited
    <3>1. CASE i \in ids
      BY <1>4, <1>5, <1>6, <1>7, <3>1
    <3>2. CASE i \notin ids
      BY <1>2, <1>3, <1>5, <3>2 DEF InvitationsThere
    <3>. QED
      BY <3>1, <3>2
  <2>. QED
    BY <1>1, <1>2, <2>1 DEF InvitationsThere
<1>9. InvitesInv'
  BY <1>1, <1>3, <1>8, InvitesCommit
<1>10. ASSUME NEW i \in 1..Len(startups'), NEW box, alone[r],
              Pending(invitations', i, box) \ Pending(invitations, i, box) # {}
       PROVE  Cardinality(Pending(invitations', i, box)) = 1 /\ <<box, i>> \notin DOMAIN memberships'
  <2>1. PICK k : k \in Pending(invitations', i, box) /\ k \notin Pending(invitations, i, box)
    BY <1>10
  <2>2. k \in ids
    BY <1>5, <2>1 DEF Pending
  <2>3. /\ k - t.last \in t.new /\ i = id /\ box = Mailbox[t.items[k - t.last].email]
    BY <1>5, <1>6, <1>7, <2>1, <2>2 DEF Pending
  <2>4. Pending(invitations, t.id, box) = {} /\ <<box, t.id>> \notin DOMAIN memberships /\ box # "founder"
    BY <1>1, <1>2, <1>10, <2>3 DEF Uninvited, ToInvite
  <2>5. Pending(invitations, i, box) = {} /\ <<box, i>> \notin DOMAIN memberships
    <3>1. CASE t.id = 0
      <4>1. i \notin 1..Len(startups)
        BY <1>2, <1>3, <2>3, <3>1
      <4>2. <<box, i>>[2] = i
        OBVIOUS
      <4>. QED
        BY <1>2, <4>1, <4>2 DEF Pending, InvitationsThere, MembersThere
    <3>2. CASE t.id # 0
      BY <2>3, <2>4, <3>2
    <3>. QED
      BY <3>1, <3>2
  <2>6. <<box, i>> \notin DOMAIN memberships'
    <3>1. <<box, i>>[1] = box
      OBVIOUS
    <3>. QED
      BY <1>3, <2>4, <2>5, <3>1
  <2>7. ASSUME NEW j \in Pending(invitations', i, box) PROVE j = k
    <3>1. j \in ids
      BY <1>5, <2>5, <2>7 DEF Pending
    <3>2. j - t.last \in t.new /\ Mailbox[t.items[j - t.last].email] = box
      BY <1>5, <1>6, <1>7, <2>7, <3>1 DEF Pending
    <3>3. j - t.last = k - t.last
      BY <1>1, <1>2, <2>3, <3>2 DEF ToInvite
    <3>4. j \in Int /\ k \in Int /\ t.last \in Int
      BY <1>1, <1>2, <1>6, <2>2, <3>1 DEF ToInvite
    <3>. QED
      BY <3>3, <3>4
  <2>8. Pending(invitations', i, box) = {k}
    BY <2>1, <2>7
  <2>. QED
    BY <2>6, <2>8, FS_Singleton
<1>. QED
  BY <1>9, <1>10

(* What else commits opens no invitation.                                   *)
LEMMA InvitesOtherSteps ==
  ASSUME OnboardingInv, InvitesInv, NEW r \in Requests,
         CommitState(r) \/ CommitComplete(r) \/ CommitAccept(r) \/ get_roadmap_ep(r)
  PROVE  /\ InvitesInv'
         /\ \A i, box : Pending(invitations', i, box) \subseteq Pending(invitations, i, box)
<1>. PICK t : t = txn[r]
  OBVIOUS
<1>1. /\ MembersThere /\ InvitationsThere /\ startups \in Seq(Startup) /\ Len(startups) \in Nat
      /\ ToJoin(t) /\ Workspace(t)
  BY DEF InvitesInv, OnboardingInv
<1>2. CASE CommitState(r) \/ CommitComplete(r)
  <2>1. /\ t.id \in 0..Len(startups) /\ Commit(r) /\ UNCHANGED <<invitations, invited>>
        /\ \E row : resolve_or_create_workspace(t, row)
    BY <1>1, <1>2 DEF CommitState, CommitComplete, Doing, Workspace
  <2>2. MembersThere' /\ Len(startups') \in Nat /\ Len(startups') >= Len(startups)
    BY <1>1, <2>1, MembersWritten
  <2>3. InvitationsThere'
    BY <1>1, <2>1, <2>2 DEF InvitationsThere
  <2>. QED
    BY <2>1, <2>2, <2>3, InvitesCommit
<1>3. CASE CommitAccept(r)
  <2>1. /\ t.op = "joined" /\ Commit(r) /\ UNCHANGED <<startups, invited>>
        /\ memberships' = IF t.joins THEN Put(memberships, t.member, invitations[t.invitation].role) ELSE memberships
        /\ invitations' = [invitations EXCEPT ![t.invitation].status = "accepted"]
    BY <1>3 DEF CommitAccept, Doing
  <2>2. t.member[2] \in 1..Len(startups)
    BY <1>1, <2>1 DEF ToJoin
  <2>3. MembersThere'
    BY <1>1, <2>1, <2>2 DEF MembersThere, Put
  <2>4. /\ DOMAIN invitations' = DOMAIN invitations
        /\ \A i \in DOMAIN invitations :
             invitations'[i] = IF i = t.invitation THEN [invitations[i] EXCEPT !.status = "accepted"] ELSE invitations[i]
    BY <2>1
  <2>5. \A i \in DOMAIN invitations :
          /\ invitations'[i] \in Invitation
          /\ invitations'[i].startup = invitations[i].startup /\ invitations'[i].email = invitations[i].email
          /\ invitations'[i].status # "accepted" => invitations'[i] = invitations[i]
    BY SMTT(60), <1>1, <2>4 DEF InvitationsThere, Invitation
  <2>6. InvitationsThere'
    BY <1>1, <2>1, <2>4, <2>5 DEF InvitationsThere
  <2>7. \A i, box : Pending(invitations', i, box) \subseteq Pending(invitations, i, box)
    BY <2>4, <2>5 DEF Pending
  <2>8. Len(startups') \in Nat /\ Len(startups') >= Len(startups)
    BY <1>1, <2>1
  <2>. QED
    BY <2>1, <2>3, <2>6, <2>7, <2>8, InvitesCommit
<1>4. CASE get_roadmap_ep(r)
  <2>1. /\ Serve(r) /\ UNCHANGED <<memberships, invitations, invited>>
        /\ \E i \in DOMAIN startups : startups' = [startups EXCEPT ![i].roadmap = TRUE]
    BY <1>4 DEF get_roadmap_ep
  <2>2. Len(startups') = Len(startups)
    BY <1>1, <2>1
  <2>3. MembersThere' /\ InvitationsThere'
    BY <1>1, <2>1, <2>2 DEF MembersThere, InvitationsThere
  <2>. QED
    BY <1>1, <2>1, <2>2, <2>3, InvitesCommit
<1>. QED
  BY <1>2, <1>3, <1>4

(* An invitation past its time is as pending as it was.                     *)
LEMMA ExpiryStep ==
  ASSUME OnboardingInv, InvitesInv, InvitationExpires
  PROVE  InvitesInv'
<1>1. PICK k \in DOMAIN invitations :
        /\ invitations' = [invitations EXCEPT ![k].expired = TRUE]
        /\ UNCHANGED <<startups, memberships, invited, txn, alone>>
  BY DEF InvitationExpires, txnVars
<1>2. /\ DOMAIN invitations' = DOMAIN invitations
      /\ \A i \in DOMAIN invitations :
           invitations'[i] = IF i = k THEN [invitations[i] EXCEPT !.expired = TRUE] ELSE invitations[i]
  BY <1>1
<1>3. \A i \in DOMAIN invitations :
        /\ invitations'[i] \in Invitation /\ invitations'[i].status = invitations[i].status
        /\ invitations'[i].startup = invitations[i].startup /\ invitations'[i].email = invitations[i].email
  BY ZenonT(60), <1>2 DEF InvitesInv, InvitationsThere, Invitation
<1>4. \A id, box : Pending(invitations', id, box) = Pending(invitations, id, box)
  BY <1>2, <1>3 DEF Pending
<1>5. (MembersThere /\ InvitationsThere)'
  BY <1>1, <1>2, <1>3 DEF InvitesInv, MembersThere, InvitationsThere
<1>6. \A r \in Requests : ToInvite(txn[r])' /\ ToJoin(txn[r])'
  BY <1>1 DEF InvitesInv, ToInvite, ToJoin
<1>7. \A r \in Requests : alone'[r] => Uninvited(txn[r])'
  <2>1. ASSUME NEW r \in Requests, alone[r], txn[r].op = "invite", NEW n \in txn[r].new, NEW box,
               box = Mailbox[txn[r].items[n].email]
        PROVE  Pending(invitations', txn[r].id, box) = {} /\ <<box, txn[r].id>> \notin DOMAIN memberships'
    <3>1. Pending(invitations, txn[r].id, box) = {} /\ <<box, txn[r].id>> \notin DOMAIN memberships
      BY <2>1 DEF InvitesInv, Uninvited
    <3>. QED
      BY <1>1, <1>4, <3>1
  <2>. QED
    BY <1>1, <2>1 DEF Uninvited
<1>. QED
  BY <1>5, <1>6, <1>7 DEF InvitesInv

(* These hold from the first request on.                                    *)
LEMMA InvitesInvariant == OnboardingSpec => []InvitesInv
<1>1. TransactionsInit /\ OnboardingInit => InvitesInv
  <2>. SUFFICES ASSUME TransactionsInit, OnboardingInit PROVE InvitesInv
    OBVIOUS
  <2>1. MembersThere /\ InvitationsThere
    BY DEF OnboardingInit, MembersThere, InvitationsThere
  <2>2. \A r \in Requests : txn[r].op = "idle"
    BY DEF TransactionsInit, Idle
  <2>. QED
    BY <2>1, <2>2 DEF InvitesInv, ToInvite, ToJoin, Uninvited
<1>2. OnboardingInv /\ InvitesInv /\ [OnboardingNext]_<<onboardingVars, txnVars>> => InvitesInv'
  <2>. SUFFICES ASSUME OnboardingInv, InvitesInv, [OnboardingNext]_<<onboardingVars, txnVars>>
                PROVE  InvitesInv'
    OBVIOUS
  <2>1. ASSUME NEW r \in Requests, OnboardingStep(r) \/ (Rollback(r) /\ UNCHANGED onboardingVars)
        PROVE  InvitesInv'
    BY <2>1, InvitesBeginSteps, InvitesStored, InvitesOtherSteps DEF OnboardingStep
  <2>2. CASE UNCHANGED <<onboardingVars, txnVars>>
    <3>1. UNCHANGED <<startups, memberships, invitations, invited, txn, alone>>
      BY <2>2 DEF onboardingVars, txnVars
    <3>. QED
      BY ZenonT(60), <3>1 DEF InvitesInv, MembersThere, InvitationsThere, ToInvite, ToJoin, Uninvited, Pending
  <2>. QED
    BY <2>1, <2>2, ExpiryStep DEF OnboardingNext
<1>. QED
  BY <1>1, <1>2, OnboardingInvariant, PTL DEF OnboardingSpec

(* The rows of onboarding have their types: every startup has its founder   *)
(* as a member, and no invitation has a number that was not given.          *)
THEOREM OnboardingTypes == OnboardingSpec => []OnboardingTypeOK
<1>1. OnboardingInv /\ InvitesInv => OnboardingTypeOK
  <2>. SUFFICES ASSUME OnboardingInv, InvitesInv PROVE OnboardingTypeOK
    OBVIOUS
  <2>1. startups \in Seq(Startup)
    BY DEF OnboardingInv
  <2>2. \A i \in DOMAIN startups : i \in 1..Len(startups) /\ startups[i] \in Startup
    BY <2>1
  <2>3. \A i \in DOMAIN invitations : invitations[i] \in Invitation /\ i <= invited
    BY DEF InvitesInv, InvitationsThere
  <2>. QED
    BY <2>2, <2>3 DEF InvitesInv, MembersThere, OnboardingTypeOK
<1>. QED
  BY <1>1, OnboardingInvariant, InvitesInvariant, PTL

(* A request that no other commits into invites a mailbox at most once, and *)
(* never a member or one with an invitation open, however the addresses of  *)
(* create_invitations spell it.                                             *)
THEOREM MailboxesInvitedOnce == OnboardingSpec => InvitedOnce
<1>1. ASSUME OnboardingInv, InvitesInv, OnboardingNext, NEW r \in Requests, NEW i \in DOMAIN startups',
             NEW box, SerialCommit(r),
             Pending(invitations', i, box) \ Pending(invitations, i, box) # {}
      PROVE  Cardinality(Pending(invitations', i, box)) = 1 /\ <<box, i>> \notin DOMAIN memberships'
  <2>1. txn'[r] # txn[r] /\ alone[r]
    BY <1>1 DEF SerialCommit
  <2>2. ~UNCHANGED invitations
    BY <1>1
  <2>3. PICK q \in Requests : CommitInvites(q) \/ CommitAccept(q)
    BY <1>1, <2>1, <2>2 DEF OnboardingNext, OnboardingStep, get_state, patch_state, post_invites, accept,
       accept_invitation, CommitState, post_complete, complete_onboarding, CommitComplete, get_roadmap_ep,
       InvitationExpires, onboardingVars, txnVars
  <2>4. CommitInvites(q)
    BY <1>1, <2>3, InvitesOtherSteps
  <2>5. q = r
    BY <1>1, <2>1, <2>4, TableStep DEF OnboardingInv, CommitInvites
  <2>6. startups' \in Seq(Startup)
    BY <1>1, <2>4, OnboardingCommitSteps DEF OnboardingInv
  <2>7. i \in 1..Len(startups')
    BY <1>1, <2>6
  <2>. QED
    BY <1>1, <2>1, <2>4, <2>5, <2>7, InvitesStored
<1>2. OnboardingInv /\ InvitesInv /\ [OnboardingNext]_<<onboardingVars, txnVars>> =>
        [\A r \in Requests, i \in DOMAIN startups', box \in Range(Mailbox) :
         /\ SerialCommit(r)
         /\ Pending(invitations', i, box) \ Pending(invitations, i, box) # {}
         => Cardinality(Pending(invitations', i, box)) = 1 /\ <<box, i>> \notin DOMAIN memberships'
      ]_<<onboardingVars, txn>>
  BY <1>1 DEF onboardingVars, txnVars
<1>. QED
  BY <1>2, OnboardingInvariant, InvitesInvariant, PTL DEF OnboardingSpec, InvitedOnce

-----------------------------------------------------------------------------
(* Lists that are read page by page (Feed).                                 *)

(* Rows of the table, of different ids.                                     *)
RowsOf(rows) ==
    /\ rows \subseteq Row /\ IsFiniteSet(rows)
    /\ \A x, y \in rows : x.id = y.id => x = y

(* Of two rows one is newer, and what is newer than a newer one is newer.   *)
LEMMA RowsAreOrdered ==
  /\ \A x, y, z \in Row : Newer(x, y) /\ Newer(y, z) => Newer(x, z)
  /\ \A x, y \in Row : Newer(x, y) => ~Newer(y, x) /\ x # y
  /\ \A x, y \in Row : x.id # y.id => Newer(x, y) \/ Newer(y, x)
<1>1. \A x \in Row : x.at \in Int /\ x.id \in Int
  BY FeedAssumption DEF Row
<1>. QED
  BY <1>1 DEF Newer

(* A list that is not empty has a newest row, and an oldest one.            *)
LEMMA FirstAndLast ==
  ASSUME NEW rows, RowsOf(rows), rows # {}
  PROVE  /\ \E row \in rows : \A x \in rows : ~Newer(x, row)
         /\ \E row \in rows : \A x \in rows : ~Newer(row, x)
<1>1. IsWellFoundedOn(StrictSubsetOrdering(rows), FiniteSubsetsOf(rows))
  BY FS_StrictSubsetOrderingWellFounded
<1>2. FiniteSubsetsOf(rows) = SUBSET rows
  BY FS_FiniteSubsetsOfFinite DEF RowsOf
<1>3. \A T \in SUBSET SUBSET rows : T # {} =>
        \E s \in T : \A u \in T : ~(u \subseteq s /\ u # s)
  <2>. SUFFICES ASSUME NEW T \in SUBSET SUBSET rows, T # {}
                PROVE  \E s \in T : \A u \in T : ~(u \subseteq s /\ u # s)
    OBVIOUS
  <2>1. \E s \in T : \A u \in T : ~(<<u, s>> \in StrictSubsetOrdering(rows))
    BY <1>1, <1>2, WFMin
  <2>2. \A u, s \in T : u \subseteq s /\ u # s => <<u, s>> \in StrictSubsetOrdering(rows)
    BY DEF StrictSubsetOrdering
  <2>. QED
    BY <2>1, <2>2
<1>4. \E row \in rows : \A x \in rows : ~Newer(x, row)
  <2>. PICK T : T = {{x \in rows : Newer(x, row)} : row \in rows}
    OBVIOUS
  <2>1. T \in SUBSET SUBSET rows /\ T # {}
    OBVIOUS
  <2>2. PICK s \in T : \A u \in T : ~(u \subseteq s /\ u # s)
    BY <1>3, <2>1
  <2>. PICK row \in rows : s = {x \in rows : Newer(x, row)}
    OBVIOUS
  <2>3. ASSUME NEW y \in rows, Newer(y, row) PROVE FALSE
    <3>. {x \in rows : Newer(x, y)} \in T
      OBVIOUS
    <3>1. {x \in rows : Newer(x, y)} \subseteq {x \in rows : Newer(x, row)}
      BY <2>3, RowsAreOrdered DEF RowsOf
    <3>2. y \in {x \in rows : Newer(x, row)} /\ y \notin {x \in rows : Newer(x, y)}
      BY <2>3, RowsAreOrdered DEF RowsOf
    <3>. QED
      BY <2>2, <3>1, <3>2
  <2>. QED
    BY <2>3
<1>5. \E row \in rows : \A x \in rows : ~Newer(row, x)
  <2>. PICK T : T = {{x \in rows : Newer(row, x)} : row \in rows}
    OBVIOUS
  <2>1. T \in SUBSET SUBSET rows /\ T # {}
    OBVIOUS
  <2>2. PICK s \in T : \A u \in T : ~(u \subseteq s /\ u # s)
    BY <1>3, <2>1
  <2>. PICK row \in rows : s = {x \in rows : Newer(row, x)}
    OBVIOUS
  <2>3. ASSUME NEW y \in rows, Newer(row, y) PROVE FALSE
    <3>. {x \in rows : Newer(y, x)} \in T
      OBVIOUS
    <3>1. {x \in rows : Newer(y, x)} \subseteq {x \in rows : Newer(row, x)}
      BY <2>3, RowsAreOrdered DEF RowsOf
    <3>2. y \in {x \in rows : Newer(row, x)} /\ y \notin {x \in rows : Newer(y, x)}
      BY <2>3, RowsAreOrdered DEF RowsOf
    <3>. QED
      BY <2>2, <3>1, <3>2
  <2>. QED
    BY <2>3
<1>. QED
  BY <1>4, <1>5

(* A page has the newest rows after the cursor: what is left is older than  *)
(* all of it, and its cursor says where it begins, or that nothing is left. *)
LEMMA PageIsFirst ==
  ASSUME NEW rows, RowsOf(rows), NEW cursor, NEW n \in Limits, NEW page, page = PageAfter(rows, cursor, n)
  PROVE  /\ page.items \subseteq rows /\ \A x \in page.items : After(x, cursor)
         /\ page.cursor = {} => \A x \in rows : After(x, cursor) => x \in page.items
         /\ page.cursor # {} =>
              \E c \in page.items : /\ page.cursor = {c}
                                    /\ \A x \in page.items : x = c \/ Newer(x, c)
                                    /\ \A x \in rows : After(x, cursor) /\ x \notin page.items => Newer(c, x)
<1>. PICK rest : rest = {row \in rows : After(row, cursor)}
  OBVIOUS
<1>. PICK items : items = {row \in rest : Cardinality({x \in rest : Newer(x, row)}) < n}
  OBVIOUS
<1>. PICK last : last = {row \in items : \A x \in items : ~Newer(row, x)}
  OBVIOUS
<1>1. page.items = items /\ page.cursor = IF items = rest THEN {} ELSE last
  BY DEF PageAfter
<1>2. RowsOf(rest) /\ RowsOf(items) /\ items \subseteq rest /\ rest \subseteq rows
  BY FS_Subset DEF RowsOf
<1>3. \A row \in rest : LET above == {x \in rest : Newer(x, row)}
                        IN  IsFiniteSet(above) /\ Cardinality(above) \in Nat
  BY <1>2, FS_Subset, FS_CardinalityType DEF RowsOf
<1>4. ASSUME NEW x \in rest, x \notin items, NEW c \in items PROVE Newer(c, x)
  <2>1. ASSUME Newer(x, c) PROVE FALSE
    <3>1. {y \in rest : Newer(y, x)} \subseteq {y \in rest : Newer(y, c)}
      BY <1>2, <2>1, RowsAreOrdered DEF RowsOf
    <3>2. Cardinality({y \in rest : Newer(y, x)}) <= Cardinality({y \in rest : Newer(y, c)})
      BY <1>2, <1>3, <3>1, FS_Subset
    <3>3. Cardinality({y \in rest : Newer(y, x)}) \in Nat /\ Cardinality({y \in rest : Newer(y, c)}) \in Nat
      BY <1>2, <1>3
    <3>4. Cardinality({y \in rest : Newer(y, c)}) < n /\ ~(Cardinality({y \in rest : Newer(y, x)}) < n)
      BY <1>4
    <3>5. n \in Nat
      BY FeedAssumption
    <3>. QED
      BY <3>2, <3>3, <3>4, <3>5
  <2>2. x.id # c.id /\ x \in Row /\ c \in Row
    BY <1>2, <1>4 DEF RowsOf
  <2>. QED
    BY <2>1, <2>2, RowsAreOrdered
<1>5. CASE items = rest
  BY <1>1, <1>2, <1>5
<1>6. CASE items # rest
  <2>1. items # {}
    <3>1. PICK row \in rest : \A x \in rest : ~Newer(x, row)
      BY <1>2, <1>6, FirstAndLast
    <3>2. {x \in rest : Newer(x, row)} = {}
      BY <3>1
    <3>3. Cardinality({x \in rest : Newer(x, row)}) = 0
      BY <3>2, FS_EmptySet
    <3>4. 0 < n
      BY FeedAssumption
    <3>. QED
      BY <3>3, <3>4
  <2>2. PICK c \in items : \A x \in items : ~Newer(c, x)
    BY <1>2, <2>1, FirstAndLast
  <2>3. \A x \in items : x = c \/ Newer(x, c)
    BY <1>2, <2>2, RowsAreOrdered DEF RowsOf
  <2>4. last = {c}
    <3>1. \A x \in last : x \in items /\ ~Newer(x, c)
      OBVIOUS
    <3>. QED
      BY <2>2, <2>3, <3>1
  <2>. QED
    BY <1>1, <1>2, <1>4, <1>6, <2>3, <2>4
<1>. QED
  BY <1>5, <1>6

(* What a client has read: its pages, and that they end at the cursor.      *)
ReaderOK(r) ==
    /\ r \in [list : {"activity", "all", "unread"}, limit : Limits, first : SUBSET feed,
              seen : Seq(SUBSET feed), cursor : SUBSET feed]
    /\ r.cursor # {} =>
         \E c \in feed : /\ r.cursor = {c}
                         /\ \A i \in 1..Len(r.seen) : \A x \in r.seen[i] : x = c \/ Newer(x, c)
    /\ \A i, j \in 1..Len(r.seen) : i < j =>
         \A x \in r.seen[i], y \in r.seen[j] : Newer(x, y)
    /\ \A row \in r.first :
         \/ \E i \in 1..Len(r.seen) : row \in r.seen[i]
         \/ r.list = "unread" /\ row \in read
         \/ r.cursor # {} /\ After(row, r.cursor)

FeedInv ==
    /\ RowsOf(feed) /\ read \subseteq feed
    /\ reader # Closed => ReaderOK(reader)

(* A page of any of the lists.                                              *)
LEMMA PageOfList ==
  ASSUME FeedInv, NEW list, NEW cursor, NEW n \in Limits, NEW page, page = PageOf(list, cursor, n)
  PROVE  \E rows : /\ rows \subseteq feed /\ RowsOf(rows) /\ page = PageAfter(rows, cursor, n)
                   /\ \A x \in feed \ rows : list = "unread" /\ x \in read
<1>1. \A rows \in SUBSET feed : RowsOf(rows)
  BY FS_Subset DEF FeedInv, RowsOf
<1>2. CASE list = "unread"
  BY <1>1, <1>2 DEF PageOf, list_notifications
<1>3. CASE list # "unread"
  BY <1>1, <1>3 DEF PageOf, list_notifications, get_activity
<1>. QED
  BY <1>2, <1>3

(* The list is opened.                                                      *)
LEMMA OpenStep ==
  ASSUME FeedInv, OpenList
  PROVE  FeedInv'
<1>1. PICK list \in {"activity", "all", "unread"}, n \in Limits :
        LET page == PageOf(list, {}, n)
        IN  reader' = [list |-> list, limit |-> n, first |-> feed, seen |-> <<page.items>>, cursor |-> page.cursor]
  BY DEF OpenList
<1>. PICK page : page = PageOf(list, {}, n)
  OBVIOUS
<1>. PICK u : u = [list |-> list, limit |-> n, first |-> feed, seen |-> <<page.items>>, cursor |-> page.cursor]
  OBVIOUS
<1>2. PICK rows : /\ rows \subseteq feed /\ RowsOf(rows) /\ page = PageAfter(rows, {}, n)
                  /\ \A x \in feed \ rows : list = "unread" /\ x \in read
  BY PageOfList
<1>3. /\ page.items \subseteq rows
      /\ page.cursor = {} => \A x \in rows : After(x, {}) => x \in page.items
      /\ page.cursor # {} =>
           \E c \in page.items : /\ page.cursor = {c}
                                 /\ \A x \in page.items : x = c \/ Newer(x, c)
                                 /\ \A x \in rows : After(x, {}) /\ x \notin page.items => Newer(c, x)
  BY <1>2, PageIsFirst
<1>4. \A x : After(x, {})
  BY DEF After
<1>5. reader' = u /\ UNCHANGED <<feed, read>>
  BY <1>1 DEF OpenList
<1>6. ReaderOK(u)
  <2>1. /\ u.list = list /\ u.limit = n /\ u.first = feed /\ u.cursor = page.cursor
        /\ u.seen = <<page.items>> /\ Len(u.seen) = 1 /\ u.seen[1] = page.items
    OBVIOUS
  <2>2. page.items \subseteq feed /\ page.cursor \subseteq feed
    BY <1>2, <1>3
  <2>3. u \in [list : {"activity", "all", "unread"}, limit : Limits, first : SUBSET feed,
               seen : Seq(SUBSET feed), cursor : SUBSET feed]
    BY <2>2
  <2>4. u.cursor # {} =>
          \E c \in feed : /\ u.cursor = {c}
                          /\ \A i \in 1..Len(u.seen) : \A x \in u.seen[i] : x = c \/ Newer(x, c)
    BY <1>3, <2>1, <2>2
  <2>5. ASSUME NEW row \in feed
        PROVE  \/ row \in page.items
               \/ list = "unread" /\ row \in read
               \/ page.cursor # {} /\ After(row, page.cursor)
    BY <1>2, <1>3, <1>4, <2>5 DEF After
  <2>. QED
    BY <2>1, <2>3, <2>4, <2>5 DEF ReaderOK
<1>7. ReaderOK(u)'
  BY <1>5, <1>6 DEF ReaderOK
<1>. QED
  BY <1>5, <1>7 DEF FeedInv

(* The next page is read: it begins where the pages before end.             *)
LEMMA NextPageStep ==
  ASSUME FeedInv, NextPage
  PROVE  FeedInv'
<1>. PICK r : r = reader
  OBVIOUS
<1>. PICK page : page = PageOf(r.list, r.cursor, r.limit)
  OBVIOUS
<1>. PICK u : u = [r EXCEPT !.seen = Append(r.seen, page.items), !.cursor = page.cursor]
  OBVIOUS
<1>1. reader' = u /\ UNCHANGED <<feed, read>> /\ r.cursor # {} /\ ReaderOK(r)
  BY DEF NextPage, FeedInv
<1>2. r \in [list : {"activity", "all", "unread"}, limit : Limits, first : SUBSET feed,
             seen : Seq(SUBSET feed), cursor : SUBSET feed]
  BY <1>1 DEF ReaderOK
<1>3. PICK c \in feed : /\ r.cursor = {c}
                        /\ \A i \in 1..Len(r.seen) : \A x \in r.seen[i] : x = c \/ Newer(x, c)
  BY <1>1 DEF ReaderOK
<1>4. \A x : After(x, r.cursor) <=> Newer(c, x)
  BY <1>3 DEF After
<1>5. PICK rows : /\ rows \subseteq feed /\ RowsOf(rows) /\ page = PageAfter(rows, r.cursor, r.limit)
                  /\ \A x \in feed \ rows : r.list = "unread" /\ x \in read
  BY <1>2, PageOfList
<1>6. /\ page.items \subseteq rows /\ \A x \in page.items : Newer(c, x)
      /\ page.cursor = {} => \A x \in rows : Newer(c, x) => x \in page.items
      /\ page.cursor # {} =>
           \E d \in page.items : /\ page.cursor = {d}
                                 /\ \A x \in page.items : x = d \/ Newer(x, d)
                                 /\ \A x \in rows : Newer(c, x) /\ x \notin page.items => Newer(d, x)
  BY <1>2, <1>4, <1>5, PageIsFirst
<1>7. /\ u.list = r.list /\ u.limit = r.limit /\ u.first = r.first /\ u.cursor = page.cursor
      /\ u.seen = Append(r.seen, page.items)
  BY <1>2
<1>8. /\ r.seen \in Seq(SUBSET feed) /\ page.items \in SUBSET feed /\ page.cursor \in SUBSET feed
      /\ feed \subseteq Row
  BY <1>2, <1>5, <1>6 DEF FeedInv, RowsOf
<1>9. /\ u.seen \in Seq(SUBSET feed) /\ Len(u.seen) = Len(r.seen) + 1 /\ Len(r.seen) \in Nat
      /\ u.seen[Len(r.seen) + 1] = page.items
      /\ \A i \in 1..Len(r.seen) : u.seen[i] = r.seen[i]
  BY <1>7, <1>8
<1>10. u \in [list : {"activity", "all", "unread"}, limit : Limits, first : SUBSET feed,
              seen : Seq(SUBSET feed), cursor : SUBSET feed]
  BY <1>2, <1>7, <1>8, <1>9
<1>11. ASSUME NEW i \in 1..Len(r.seen), NEW x \in r.seen[i], NEW y \in page.items PROVE Newer(x, y)
  <2>1. x \in Row /\ y \in Row /\ c \in Row
    <3>1. r.seen[i] \in SUBSET feed
      BY <1>8
    <3>. QED
      BY <1>8, <3>1
  <2>2. Newer(c, y) /\ (x = c \/ Newer(x, c))
    BY <1>3, <1>6, <1>11
  <2>. QED
    BY <2>1, <2>2, RowsAreOrdered
<1>12. u.cursor # {} =>
         \E d \in feed : /\ u.cursor = {d}
                         /\ \A i \in 1..Len(u.seen) : \A x \in u.seen[i] : x = d \/ Newer(x, d)
  <2>. SUFFICES ASSUME u.cursor # {}
                PROVE  \E d \in feed : /\ u.cursor = {d}
                                       /\ \A i \in 1..Len(u.seen) : \A x \in u.seen[i] : x = d \/ Newer(x, d)
    OBVIOUS
  <2>1. PICK d \in page.items : page.cursor = {d} /\ \A x \in page.items : x = d \/ Newer(x, d)
    BY <1>6, <1>7
  <2>2. ASSUME NEW i \in 1..Len(u.seen), NEW x \in u.seen[i] PROVE x = d \/ Newer(x, d)
    <3>1. i \in 1..Len(r.seen) \/ i = Len(r.seen) + 1
      BY <1>9
    <3>. QED
      BY <1>9, <1>11, <2>1, <2>2, <3>1
  <2>. QED
    BY <1>7, <1>8, <2>1, <2>2
<1>13. ASSUME NEW i \in 1..Len(u.seen), NEW j \in 1..Len(u.seen), i < j,
              NEW x \in u.seen[i], NEW y \in u.seen[j]
       PROVE  Newer(x, y)
  <2>1. i \in 1..Len(r.seen) /\ (j \in 1..Len(r.seen) \/ j = Len(r.seen) + 1)
    BY <1>9, <1>13
  <2>2. CASE j \in 1..Len(r.seen)
    BY <1>1, <1>9, <1>13, <2>1, <2>2 DEF ReaderOK
  <2>3. CASE j = Len(r.seen) + 1
    BY <1>9, <1>11, <1>13, <2>1, <2>3
  <2>. QED
    BY <2>1, <2>2, <2>3
<1>14. ASSUME NEW row \in r.first
       PROVE  \/ \E i \in 1..Len(u.seen) : row \in u.seen[i]
              \/ u.list = "unread" /\ row \in read
              \/ u.cursor # {} /\ After(row, u.cursor)
  <2>1. CASE \E i \in 1..Len(r.seen) : row \in r.seen[i]
    BY <1>9, <2>1
  <2>2. CASE r.list = "unread" /\ row \in read
    BY <1>7, <2>2
  <2>3. CASE Newer(c, row) /\ ~(r.list = "unread" /\ row \in read)
    <3>1. row \in rows
      BY <1>2, <1>5, <1>14, <2>3
    <3>2. row \in page.items \/ (page.cursor # {} /\ After(row, page.cursor))
      BY <1>6, <2>3, <3>1 DEF After
    <3>3. Len(r.seen) + 1 \in 1..Len(u.seen)
      BY <1>9
    <3>. QED
      BY <1>7, <1>9, <3>2, <3>3
  <2>. QED
    BY <1>1, <1>4, <1>14, <2>1, <2>2, <2>3 DEF ReaderOK
<1>15. ReaderOK(u)
  BY <1>7, <1>10, <1>12, <1>13, <1>14 DEF ReaderOK
<1>16. ReaderOK(u)'
  BY <1>1, <1>15 DEF ReaderOK
<1>. QED
  BY <1>1, <1>16 DEF FeedInv

(* Rows are committed and notifications read between two pages.             *)
LEMMA RowsChange ==
  ASSUME FeedInv, write_activity \/ mark_read \/ mark_all_read
  PROVE  FeedInv'
<1>1. /\ UNCHANGED reader /\ feed \subseteq feed' /\ read \subseteq read' /\ read' \subseteq feed'
      /\ RowsOf(feed')
  <2>1. CASE write_activity
    <3>1. PICK row \in Row : row.id \notin {x.id : x \in feed} /\ feed' = feed \cup {row}
      BY <2>1 DEF write_activity
    <3>2. IsFiniteSet(feed')
      BY <3>1, FS_AddElement DEF FeedInv, RowsOf
    <3>. QED
      BY <2>1, <3>1, <3>2 DEF FeedInv, RowsOf, write_activity
  <2>2. CASE mark_read \/ mark_all_read
    BY <2>2 DEF FeedInv, mark_read, mark_all_read
  <2>. QED
    BY <2>1, <2>2
<1>. PICK r : r = reader
  OBVIOUS
<1>2. ASSUME ReaderOK(r) PROVE ReaderOK(r)'
  <2>1. r \in [list : {"activity", "all", "unread"}, limit : Limits, first : SUBSET feed,
               seen : Seq(SUBSET feed), cursor : SUBSET feed]
    BY <1>2 DEF ReaderOK
  <2>2. r.seen \in Seq(SUBSET feed')
    <3>1. Len(r.seen) \in Nat /\ r.seen \in [1..Len(r.seen) -> SUBSET feed]
      BY <2>1
    <3>2. r.seen \in [1..Len(r.seen) -> SUBSET feed']
      BY <1>1, <3>1
    <3>. QED
      BY <3>1, <3>2
  <2>3. r \in [list : {"activity", "all", "unread"}, limit : Limits, first : SUBSET feed',
               seen : Seq(SUBSET feed'), cursor : SUBSET feed']
    BY <1>1, <2>1, <2>2
  <2>. QED
    BY <1>1, <1>2, <2>3 DEF ReaderOK
<1>. QED
  BY <1>1, <1>2 DEF FeedInv

(* These hold from the first request on.                                    *)
LEMMA FeedInvariant == FeedSpec => []FeedInv
<1>1. FeedInit => FeedInv
  BY FS_EmptySet DEF FeedInit, FeedInv, RowsOf
<1>2. FeedInv /\ [FeedNext]_feedVars => FeedInv'
  <2>. SUFFICES ASSUME FeedInv, [FeedNext]_feedVars PROVE FeedInv'
    OBVIOUS
  <2>1. CASE FeedNext
    BY <2>1, OpenStep, NextPageStep, RowsChange DEF FeedNext
  <2>2. CASE UNCHANGED feedVars
    BY <2>2 DEF feedVars, FeedInv, ReaderOK
  <2>. QED
    BY <2>1, <2>2
<1>. QED
  BY <1>1, <1>2, PTL DEF FeedSpec

(* However rows tie, arrive and are read between two pages, no row is shown *)
(* twice or out of order, and what was there when the list was opened is    *)
(* shown once its place is past.                                            *)
THEOREM PagesCover == FeedSpec => []PagesCoverFeed
<1>1. FeedInv => PagesCoverFeed
  <2>. SUFFICES ASSUME FeedInv, reader # Closed PROVE PagesCoverFeed
    BY DEF PagesCoverFeed
  <2>1. ReaderOK(reader)
    BY DEF FeedInv
  <2>2. DOMAIN reader.seen = 1..Len(reader.seen)
    BY <2>1 DEF ReaderOK
  <2>. QED
    BY <2>1, <2>2 DEF ReaderOK, PagesCoverFeed
<1>. QED
  BY <1>1, FeedInvariant, PTL

(* What is read, and what a reader has been shown, are rows that are there. *)
THEOREM FeedTypes == FeedSpec => []FeedTypeOK
<1>1. FeedInv => FeedTypeOK
  BY DEF FeedInv, FeedTypeOK, RowsOf, ReaderOK
<1>. QED
  BY <1>1, FeedInvariant, PTL

-----------------------------------------------------------------------------
(* The journal (Journal): an entry and the mood of its day.                 *)

EntriesOK(rows) ==
    /\ DOMAIN rows \subseteq Days
    /\ \A k \in DOMAIN rows : /\ DOMAIN rows[k] = {"id", "content", "mood", "stress"}
                              /\ rows[k].content \in Contents

(* What a request is to write: a text that can be found, and what is not    *)
(* given as it was loaded.                                                  *)
ToWrite(t) ==
    /\ t.op \in {"create_entry", "created", "logged", "update_entry", "relogged",
                 "delete_entry", "deleted_entry"} => t.day \in Days
    /\ t.op \in {"create_entry", "created", "logged", "update_entry", "relogged"} =>
         t.data.content \in Contents
    /\ t.op \in {"update_entry", "relogged"} =>
         "mood" \in t.set \/ t.data["mood"] = t.was["mood"]

(* What a request that is alone has loaded is still there.                  *)
StillAsLoaded(t) ==
    /\ t.op \in {"update_entry", "relogged"} =>
         t.day \in DOMAIN entries /\ entries[t.day] = t.was
    /\ t.op \in {"delete_entry", "deleted_entry"} =>
         t.day \notin DOMAIN entries \/ entries[t.day].id = t.id
    /\ t.op = "deleted_entry" =>
         t.day \notin DOMAIN moodLogs \/ moodLogs[t.day].id = t.log

JournalInv ==
    /\ Table /\ DOMAIN alone = Requests
    /\ EntriesOK(entries) /\ DOMAIN moodLogs \subseteq Days
    /\ \A r \in Requests : ToWrite(txn[r])
    /\ \A r \in Requests : alone[r] => StillAsLoaded(txn[r])

(* A request begins, goes on or is rolled back.                             *)
LEMMA JournalGoes ==
  ASSUME JournalInv, NEW r \in Requests, NEW t, Begin(r, t) \/ Go(r, t) \/ (Rollback(r) /\ t = Idle),
         UNCHANGED journalVars, ToWrite(t), alone[r] \/ t.op = "idle" => StillAsLoaded(t)
  PROVE  JournalInv'
<1>1. /\ txn'[r] = t /\ Table' /\ (DOMAIN alone = Requests)'
      /\ \A q \in Requests \ {r} : txn'[q] = txn[q] /\ alone'[q] = alone[q]
      /\ alone'[r] => alone[r] \/ t.op = "idle"
  BY TableStep DEF Begin, Go, Rollback, JournalInv, Table, Idle
<1>2. entries' = entries /\ moodLogs' = moodLogs
  BY DEF journalVars
<1>3. \A q \in Requests : ToWrite(txn[q])'
  BY <1>1 DEF JournalInv, ToWrite
<1>4. \A q \in Requests : alone'[q] => StillAsLoaded(txn[q])'
  BY <1>1, <1>2 DEF JournalInv, StillAsLoaded
<1>. QED
  BY <1>1, <1>2, <1>3, <1>4 DEF JournalInv

(* A request commits, and nobody else is alone any more.                    *)
LEMMA JournalCommits ==
  ASSUME JournalInv, NEW r \in Requests, Commit(r),
         EntriesOK(entries'), DOMAIN moodLogs' \subseteq Days
  PROVE  JournalInv'
<1>1. /\ Table' /\ (DOMAIN alone = Requests)' /\ txn'[r] = Idle
      /\ \A q \in Requests \ {r} : txn'[q] = txn[q]
      /\ \A q \in Requests : alone'[q] => txn'[q] = Idle
  BY TableStep DEF Commit, JournalInv, Table
<1>2. Idle.op = "idle"
  BY DEF Idle
<1>3. \A q \in Requests : ToWrite(txn[q])'
  BY <1>1, <1>2 DEF JournalInv, ToWrite
<1>4. \A q \in Requests : alone'[q] => StillAsLoaded(txn[q])'
  BY <1>1, <1>2 DEF StillAsLoaded
<1>. QED
  BY <1>1, <1>3, <1>4 DEF JournalInv, EntriesOK

(* The text of an entry is one that the search can be for.                  *)
LEMMA GivenCanBeFound ==
  ASSUME NEW data \in Given
  PROVE  Scored(data).content \in Contents
<1>1. data \in [content : Contents, mood : {score_to_mood(n) : n \in Moods}, stress : Stress]
  BY DEF Given
<1>. QED
  BY <1>1 DEF Scored

(* An entry is asked to be written, changed or deleted, and the request     *)
(* goes on.                                                                 *)
LEMMA JournalBeginSteps ==
  ASSUME JournalInv, NEW r \in Requests,
         \/ create_journal_entry(r) \/ create_entry(r) \/ _upsert_mood_log(r)
         \/ update_journal_entry(r) \/ delete_journal_entry(r) \/ delete_entry(r)
         \/ (Rollback(r) /\ UNCHANGED journalVars)
  PROVE  JournalInv'
<1>. PICK u : u = txn[r]
  OBVIOUS
<1>1. UNCHANGED journalVars
  BY DEF create_journal_entry, create_entry, _upsert_mood_log, update_journal_entry,
         delete_journal_entry, delete_entry
<1>2. ToWrite(u) /\ (alone[r] => StillAsLoaded(u))
  BY DEF JournalInv
<1>3. CASE create_journal_entry(r)
  <2>1. PICK f \in Founders, date \in Dates, data \in Given :
          Begin(r, [op |-> "create_entry", id |-> served + 1, log |-> served + 1, day |-> <<f, date>>,
                    data |-> Scored(data)])
    BY <1>3 DEF create_journal_entry
  <2>. PICK given : given = Scored(data)
    OBVIOUS
  <2>2. given.content \in Contents
    BY GivenCanBeFound
  <2>. PICK t : t = [op |-> "create_entry", id |-> served + 1, log |-> served + 1, day |-> <<f, date>>,
                     data |-> given]
    OBVIOUS
  <2>3. Begin(r, t) /\ t.op = "create_entry" /\ t.day = <<f, date>> /\ t.data = given
    BY <2>1
  <2>4. t.day \in Days
    BY <2>3 DEF Days
  <2>. QED
    BY <1>1, <2>2, <2>3, <2>4, JournalGoes DEF ToWrite, StillAsLoaded
<1>4. CASE create_entry(r) \/ _upsert_mood_log(r)
  <2>1. PICK next \in {"created", "logged", "relogged"} :
          /\ Go(r, [u EXCEPT !.op = next])
          /\ next = "created" => u.op = "create_entry"
          /\ next = "logged" => u.op = "created"
          /\ next = "relogged" => u.op = "update_entry"
    <3>1. CASE create_entry(r)
      BY <3>1 DEF create_entry, Doing
    <3>2. CASE _upsert_mood_log(r)
      BY <3>2 DEF _upsert_mood_log
    <3>. QED
      BY <1>4, <3>1, <3>2
  <2>. PICK t : t = [u EXCEPT !.op = next]
    OBVIOUS
  <2>2. /\ Go(r, t) /\ t.op \in {next, u.op} /\ t.day = u.day /\ t.data = u.data /\ t.set = u.set
        /\ t.was = u.was
    BY <2>1
  <2>. QED
    BY <1>1, <1>2, <2>1, <2>2, JournalGoes DEF ToWrite, StillAsLoaded
<1>5. CASE update_journal_entry(r)
  <2>1. PICK f \in Founders : \E day \in _get_entry(f), set \in SUBSET {"content", "mood", "stress"}, data \in Given :
          LET old == entries[day]
              new == Scored(data)
              Pick(c) == IF c \in set THEN new[c] ELSE old[c]
          IN  Begin(r, [op |-> "update_entry", id |-> old.id, log |-> served + 1, day |-> day, set |-> set, was |-> old,
                        data |-> [content |-> Pick("content"), mood |-> Pick("mood"), stress |-> Pick("stress")]])
    BY <1>5 DEF update_journal_entry
  <2>2. PICK day \in _get_entry(f), set \in SUBSET {"content", "mood", "stress"}, given \in Given :
          LET old == entries[day]
              new == Scored(given)
              Pick(c) == IF c \in set THEN new[c] ELSE old[c]
          IN  Begin(r, [op |-> "update_entry", id |-> old.id, log |-> served + 1, day |-> day, set |-> set, was |-> old,
                        data |-> [content |-> Pick("content"), mood |-> Pick("mood"), stress |-> Pick("stress")]])
    BY <2>1
  <2>. PICK old, new : old = entries[day] /\ new = Scored(given)
    OBVIOUS
  <2>. PICK data : data = [content |-> IF "content" \in set THEN new["content"] ELSE old["content"],
                           mood |-> IF "mood" \in set THEN new["mood"] ELSE old["mood"],
                           stress |-> IF "stress" \in set THEN new["stress"] ELSE old["stress"]]
    OBVIOUS
  <2>. PICK t : t = [op |-> "update_entry", id |-> old.id, log |-> served + 1, day |-> day, set |-> set,
                     was |-> old, data |-> data]
    OBVIOUS
  <2>3. Begin(r, t)
    BY <2>2
  <2>4. /\ t.op = "update_entry" /\ t.day = day /\ t.set = set /\ t.was = old /\ t.data = data
    OBVIOUS
  <2>5. new.content \in Contents
    BY GivenCanBeFound
  <2>6. day \in DOMAIN entries /\ old.content \in Contents /\ day \in Days
    BY DEF _get_entry, JournalInv, EntriesOK
  <2>7. data.content \in Contents /\ ("mood" \in set \/ data["mood"] = old["mood"])
    BY <2>5, <2>6
  <2>. QED
    BY <1>1, <2>3, <2>4, <2>6, <2>7, JournalGoes DEF ToWrite, StillAsLoaded
<1>6. CASE delete_journal_entry(r)
  <2>1. PICK day \in DOMAIN entries :
          Begin(r, [op |-> "delete_entry", day |-> day, id |-> entries[day].id])
    BY <1>6 DEF delete_journal_entry, _get_entry
  <2>. PICK t : t = [op |-> "delete_entry", day |-> day, id |-> entries[day].id]
    OBVIOUS
  <2>2. /\ Begin(r, t) /\ t.op = "delete_entry" /\ t.day = day /\ t.id = entries[day].id /\ t.day \in Days
    BY <2>1 DEF JournalInv, EntriesOK
  <2>. QED
    BY <1>1, <2>2, JournalGoes DEF ToWrite, StillAsLoaded
<1>7. CASE delete_entry(r)
  <2>. PICK log : log = IF u.day \in DOMAIN moodLogs THEN moodLogs[u.day].id ELSE 0
    OBVIOUS
  <2>1. u.op = "delete_entry" /\ Go(r, [op |-> "deleted_entry", day |-> u.day, id |-> u.id, log |-> log])
    BY <1>7 DEF delete_entry, Doing
  <2>. PICK t : t = [op |-> "deleted_entry", day |-> u.day, id |-> u.id, log |-> log]
    OBVIOUS
  <2>2. Go(r, t) /\ t.op = "deleted_entry" /\ t.day = u.day /\ t.id = u.id /\ t.log = log
    BY <2>1
  <2>. QED
    BY <1>1, <1>2, <2>1, <2>2, JournalGoes DEF ToWrite, StillAsLoaded
<1>8. CASE Rollback(r) /\ UNCHANGED journalVars
  <2>. PICK t : t = Idle
    OBVIOUS
  <2>1. t.op = "idle"
    BY DEF Idle
  <2>. QED
    BY <1>1, <1>8, <2>1, JournalGoes DEF ToWrite, StillAsLoaded
<1>. QED
  BY <1>3, <1>4, <1>5, <1>6, <1>7, <1>8

(* Days differ, so a day is on the page that all of a founder's days fit,   *)
(* once and with its entry's mood, if it has an entry.                      *)
LEMMA ListedOnDay ==
  ASSUME NEW rows, EntriesOK(rows), NEW day \in Days
  PROVE  {item \in list_journal_entries(rows, day[1], Contents, 0, Cardinality(Dates)) : item[1] = day[2]}
           = IF day \in DOMAIN rows THEN {<<day[2], score_to_mood(rows[day].mood)>>} ELSE {}
<1>. DEFINE list == {k \in DaysOf(rows, day[1]) : rows[k].content \in Contents}
            newer(k) == {j \in list : j[2] > k[2]}
<1>1. list = DaysOf(rows, day[1])
  BY DEF DaysOf, EntriesOK
<1>2. /\ \A k \in list : k[1] = day[1] /\ k = <<day[1], k[2]>> /\ k[2] \in Dates
      /\ day = <<day[1], day[2]>>
      /\ day \in list <=> day \in DOMAIN rows
  BY <1>1 DEF DaysOf, EntriesOK, Days
<1>3. ASSUME NEW k \in list PROVE Cardinality(newer(k)) \in 0..0 + Cardinality(Dates) - 1
  <2>. DEFINE others == Dates \ {k[2]}
  <2>1. newer(k) \subseteq {day[1]} \X others
    BY <1>2, <1>3, DatesAssumption
  <2>2. IsFiniteSet(others) /\ Cardinality(others) = Cardinality(Dates) - 1
    BY <1>2, <1>3, DatesAssumption, FS_RemoveElement
  <2>3. IsFiniteSet({day[1]}) /\ Cardinality({day[1]}) = 1
    BY FS_Singleton
  <2>4. IsFiniteSet({day[1]} \X others) /\ Cardinality({day[1]} \X others) = 1 * Cardinality(others)
    BY <2>2, <2>3, FS_Product
  <2>5. IsFiniteSet(newer(k)) /\ Cardinality(newer(k)) <= Cardinality({day[1]} \X others)
    BY <2>1, <2>4, FS_Subset
  <2>6. Cardinality(newer(k)) \in Nat /\ Cardinality(others) \in Nat /\ Cardinality(Dates) \in Nat
    BY <2>2, <2>5, DatesAssumption, FS_CardinalityType
  <2>. HIDE DEF others, newer
  <2>. QED
    BY <2>2, <2>4, <2>5, <2>6
<1>4. Page(list, 0, Cardinality(Dates)) = list
  BY <1>3 DEF Page
<1>5. list_journal_entries(rows, day[1], Contents, 0, Cardinality(Dates))
        = {_entry_list_item(rows, k) : k \in list}
  BY <1>1, <1>4 DEF list_journal_entries, search_entries, list_entries
<1>6. \A k \in list : _entry_list_item(rows, k)[1] = day[2] <=> k = day
  <2>1. \A k : _entry_list_item(rows, k)[1] = k[2]
    BY DEF _entry_list_item
  <2>2. ASSUME NEW k \in list, k[2] = day[2] PROVE k = day
    <3>1. k = <<day[1], k[2]>> /\ day = <<day[1], day[2]>>
      BY <1>2, <2>2
    <3>. QED
      BY <2>2, <3>1
  <2>. QED
    BY <2>1, <2>2
<1>. HIDE DEF list
<1>7. {item \in {_entry_list_item(rows, k) : k \in list} : item[1] = day[2]}
        = IF day \in list THEN {_entry_list_item(rows, day)} ELSE {}
  BY <1>6
<1>. QED
  BY <1>2, <1>5, <1>7 DEF _entry_list_item

(* The trend of one day.                                                    *)
LEMMA TrendOnDay ==
  ASSUME NEW logs, DOMAIN logs \subseteq Days, NEW day \in Days
  PROVE  get_mood_trend(logs, day[1], day[2], day[2])
           = IF day \in DOMAIN logs THEN {<<day[2], score_to_mood(logs[day].mood)>>} ELSE {}
<1>1. \A k \in DOMAIN logs : k[1] = day[1] /\ k[2] \in day[2]..day[2] <=> k = day
  BY DatesAssumption DEF Days
<1>2. {j \in DaysOf(logs, day[1]) : j[2] \in day[2]..day[2]} = IF day \in DOMAIN logs THEN {day} ELSE {}
  BY <1>1 DEF DaysOf
<1>. QED
  BY <1>2 DEF get_mood_trend

(* What a commit leaves of its day: entry and log agree, or neither is left.*)
DayAgrees(day) ==
    /\ day \in DOMAIN entries <=> day \in DOMAIN moodLogs
    /\ day \in DOMAIN entries => entries[day].mood = moodLogs[day].mood

(* Every commit of the journal leaves its day so, unless something raced.  *)
LEMMA JournalCommitSteps ==
  ASSUME JournalInv, NEW r \in Requests, CommitEntry(r) \/ update_entry(r) \/ CommitDelete(r),
         NEW day, day = txn[r].day
  PROVE  /\ JournalInv' /\ Commit(r) /\ day \in Days
         /\ alone[r] => DayAgrees(day)'
<1>. PICK t : t = txn[r]
  OBVIOUS
<1>0. t.day = day
  OBVIOUS
<1>1. ToWrite(t) /\ (alone[r] => StillAsLoaded(t)) /\ EntriesOK(entries) /\ DOMAIN moodLogs \subseteq Days
  BY DEF JournalInv
<1>2. CASE CommitEntry(r)
  <2>. PICK row : row = EntryRow(t)
    OBVIOUS
  <2>. PICK log : log = LogRow(t)
    OBVIOUS
  <2>1. /\ t.op = "logged" /\ Commit(r) /\ entries' = Put(entries, day, row) /\ moodLogs' = Put(moodLogs, day, log)
    BY <1>0, <1>2 DEF CommitEntry, Doing
  <2>2. day \in Days /\ t.data.content \in Contents
    BY <1>0, <1>1, <2>1 DEF ToWrite
  <2>3. /\ DOMAIN row = {"id", "content", "mood", "stress"} /\ row.content \in Contents
        /\ row.mood = t.data.mood /\ log.mood = t.data.mood
    BY <2>2 DEF EntryRow, LogRow
  <2>4. EntriesOK(entries') /\ DOMAIN moodLogs' \subseteq Days /\ DayAgrees(day)'
    BY <1>1, <2>1, <2>2, <2>3 DEF EntriesOK, DayAgrees, Put
  <2>. QED
    BY <2>1, <2>2, <2>4, JournalCommits
<1>3. CASE update_entry(r)
  <2>. PICK cols : cols = Written_columns(t)
    OBVIOUS
  <2>. PICK old : old = entries[day]
    OBVIOUS
  <2>. PICK row : row = [c \in DOMAIN old |-> IF c \in cols THEN t.data[c] ELSE old[c]]
    OBVIOUS
  <2>. PICK log : log = LogRow(t)
    OBVIOUS
  <2>1. /\ t.op = "relogged" /\ Commit(r) /\ moodLogs' = Put(moodLogs, day, log)
        /\ cols # {} => day \in DOMAIN entries
        /\ entries' = IF cols = {} THEN entries ELSE [entries EXCEPT ![day] = row]
    BY <1>0, <1>3 DEF update_entry, Doing, There
  <2>2. day \in Days /\ t.data.content \in Contents
    BY <1>0, <1>1, <2>1 DEF ToWrite
  <2>3. DOMAIN moodLogs' = DOMAIN moodLogs \cup {day} /\ moodLogs'[day].mood = t.data.mood
    BY <2>1 DEF Put, LogRow
  <2>4. day \in DOMAIN entries => /\ DOMAIN row = {"id", "content", "mood", "stress"} /\ row.content \in Contents
                                    /\ row["mood"] = IF "mood" \in cols THEN t.data["mood"] ELSE old["mood"]
    BY <1>1, <2>2 DEF EntriesOK
  <2>5. EntriesOK(entries') /\ DOMAIN moodLogs' \subseteq Days
    BY <1>1, <2>1, <2>2, <2>3, <2>4 DEF EntriesOK
  <2>6. ASSUME alone[r] PROVE DayAgrees(day)'
    <3>1. day \in DOMAIN entries /\ old = t.was
      BY <1>0, <1>1, <2>1, <2>6 DEF StillAsLoaded
    <3>2. "mood" \notin cols => old["mood"] = t.data["mood"]
      BY <1>0, <1>1, <2>1, <3>1 DEF ToWrite, Written_columns
    <3>3. day \in DOMAIN entries' /\ entries'[day].mood = t.data.mood
      BY <2>1, <2>4, <3>1, <3>2
    <3>. QED
      BY <2>3, <3>3 DEF DayAgrees
  <2>. QED
    BY <2>1, <2>2, <2>5, <2>6, JournalCommits
<1>4. CASE CommitDelete(r)
  <2>1. /\ t.op = "deleted_entry" /\ Commit(r)
        /\ entries' = Without(entries, day, t.id) /\ moodLogs' = Without(moodLogs, day, t.log)
    BY <1>0, <1>4 DEF CommitDelete, Doing
  <2>2. day \in Days
    BY <1>0, <1>1, <2>1 DEF ToWrite
  <2>3. EntriesOK(entries') /\ DOMAIN moodLogs' \subseteq Days
    BY <1>1, <2>1 DEF EntriesOK, Without
  <2>4. alone[r] => day \notin DOMAIN entries' /\ day \notin DOMAIN moodLogs'
    BY <1>0, <1>1, <2>1 DEF StillAsLoaded, Without, There
  <2>. QED
    BY <2>1, <2>2, <2>3, <2>4, JournalCommits DEF DayAgrees
<1>. QED
  BY <1>2, <1>3, <1>4

(* The journal's rows are of its founders and days from the first request   *)
(* on.                                                                      *)
LEMMA JournalInvariant == JournalSpec => []JournalInv
<1>1. TransactionsInit /\ JournalInit => JournalInv
  <2>. SUFFICES ASSUME TransactionsInit, JournalInit PROVE JournalInv
    OBVIOUS
  <2>1. DOMAIN entries = {} /\ DOMAIN moodLogs = {}
    BY DEF JournalInit
  <2>2. Table /\ DOMAIN alone = Requests /\ \A r \in Requests : txn[r].op = "idle"
    BY DEF TransactionsInit, Table, Idle
  <2>. QED
    BY <2>1, <2>2 DEF JournalInv, EntriesOK, ToWrite, StillAsLoaded
<1>2. JournalInv /\ [JournalNext]_<<journalVars, txnVars>> => JournalInv'
  <2>. SUFFICES ASSUME JournalInv, [JournalNext]_<<journalVars, txnVars>> PROVE JournalInv'
    OBVIOUS
  <2>1. ASSUME NEW r \in Requests, JournalStep(r) \/ (Rollback(r) /\ UNCHANGED journalVars)
        PROVE  JournalInv'
    BY <2>1, JournalBeginSteps, JournalCommitSteps DEF JournalStep
  <2>2. CASE UNCHANGED <<journalVars, txnVars>>
    <3>1. UNCHANGED <<entries, moodLogs, txn, alone, served>>
      BY <2>2 DEF journalVars, txnVars
    <3>. QED
      BY <3>1 DEF JournalInv, Table, EntriesOK, ToWrite, StillAsLoaded
  <2>. QED
    BY <2>1, <2>2 DEF JournalNext
<1>. QED
  BY <1>1, <1>2, PTL DEF JournalSpec

(* A request that no other commit raced leaves its day with the same mood   *)
(* in the list of entries as in the trend, and with neither where the entry *)
(* is deleted, however many requests write the journal, and whatever races  *)
(* left there before.                                                       *)
THEOREM MoodsFollow == JournalSpec => MoodFollowsEntry
<1>1. ASSUME JournalInv, JournalNext, NEW r \in Requests, journalVars' # journalVars,
             txn'[r] # txn[r], alone[r]
      PROVE  LET day == txn[r].day
                 listed == list_journal_entries(entries', day[1], Contents, 0, Cardinality(Dates))
             IN  {item \in listed : item[1] = day[2]}
                   = get_mood_trend(moodLogs', day[1], day[2], day[2])
  <2>1. PICK q \in Requests : CommitEntry(q) \/ update_entry(q) \/ CommitDelete(q)
    BY <1>1 DEF JournalNext, JournalStep, create_journal_entry, create_entry, _upsert_mood_log,
                update_journal_entry, delete_journal_entry, delete_entry
  <2>. PICK day : day = txn[q].day
    OBVIOUS
  <2>2. JournalInv' /\ Commit(q) /\ day \in Days /\ (alone[q] => DayAgrees(day)')
    BY <1>1, <2>1, JournalCommitSteps
  <2>3. q = r /\ day = txn[r].day
    BY <1>1, <2>2, TableStep DEF JournalInv
  <2>4. DayAgrees(day)' /\ EntriesOK(entries') /\ DOMAIN moodLogs' \subseteq Days
    BY <1>1, <2>2, <2>3 DEF JournalInv, EntriesOK
  <2>5. {item \in list_journal_entries(entries', day[1], Contents, 0, Cardinality(Dates)) : item[1] = day[2]}
          = IF day \in DOMAIN entries' THEN {<<day[2], score_to_mood(entries'[day].mood)>>} ELSE {}
    BY <2>2, <2>4, ListedOnDay
  <2>6. get_mood_trend(moodLogs', day[1], day[2], day[2])
          = IF day \in DOMAIN moodLogs' THEN {<<day[2], score_to_mood(moodLogs'[day].mood)>>} ELSE {}
    BY <2>2, <2>4, TrendOnDay
  <2>. QED
    BY <2>3, <2>4, <2>5, <2>6 DEF DayAgrees
<1>2. JournalInv /\ [JournalNext]_<<journalVars, txnVars>> =>
        [\A r \in Requests :
         txn[r].op \in {"logged", "relogged", "deleted_entry"} /\ journalVars' # journalVars
         /\ txn'[r] # txn[r] /\ alone[r] =>
           LET day == txn[r].day
               listed == list_journal_entries(entries', day[1], Contents, 0, Cardinality(Dates))
           IN  {item \in listed : item[1] = day[2]}
                 = get_mood_trend(moodLogs', day[1], day[2], day[2])]_journalVars
  BY <1>1
<1>. QED
  BY <1>2, JournalInvariant, PTL DEF JournalSpec, MoodFollowsEntry

(* What is written of an entry, and what a request is to write.             *)
EntryData == [content : Contents, mood : 1..5, stress : 1..10]
EntryTyped(t) ==
    /\ t.op \in {"create_entry", "created", "logged", "update_entry", "relogged"} =>
         t.data \in EntryData /\ t.id \in Nat /\ t.log \in Nat /\ t.day \in Days
    /\ t.op \in {"update_entry", "relogged"} => "id" \notin t.set

EntryRowsInv ==
    /\ Table /\ JournalTypeOK
    /\ \A r \in Requests : EntryTyped(txn[r])

(* Words for moods are told apart by their scores.                          *)
LEMMA ScoreOfWord == \A n \in 1..5 : mood_to_score[score_to_mood(n)] \in 1..5
<1>. SUFFICES ASSUME NEW n \in 1..5 PROVE mood_to_score[score_to_mood(n)] = n
  OBVIOUS
<1>1. DOMAIN mood_to_score = {"rough", "meh", "okay", "good", "great"}
  BY DEF mood_to_score
<1>2. \E m \in DOMAIN mood_to_score : mood_to_score[m] = n
  <2>1. /\ mood_to_score["rough"] = 1 /\ mood_to_score["meh"] = 2 /\ mood_to_score["okay"] = 3
        /\ mood_to_score["good"] = 4 /\ mood_to_score["great"] = 5
    BY DEF mood_to_score
  <2>2. n = 1 \/ n = 2 \/ n = 3 \/ n = 4 \/ n = 5
    OBVIOUS
  <2>. QED
    BY <1>1, <2>1, <2>2
<1>. QED
  BY <1>2 DEF score_to_mood

(* What a client gives is scored.                                           *)
LEMMA GivenIsTyped == ASSUME NEW data \in Given PROVE Scored(data) \in EntryData
<1>1. PICK n \in Moods : data.mood = score_to_mood(n)
  BY DEF Given
<1>2. mood_to_score[data.mood] \in 1..5
  BY <1>1, ScoreOfWord, MoodsAssumption
<1>3. data = [content |-> data.content, mood |-> data.mood, stress |-> data.stress]
      /\ data.content \in Contents /\ data.stress \in 1..10
  BY MoodsAssumption DEF Given
<1>. QED
  BY <1>2, <1>3 DEF Scored, EntryData

(* A request begins, goes on or is rolled back.                             *)
LEMMA EntryRowsGo ==
  ASSUME EntryRowsInv, NEW r \in Requests, NEW t, Begin(r, t) \/ Go(r, t) \/ (Rollback(r) /\ t = Idle),
         UNCHANGED journalVars, EntryTyped(t)
  PROVE  EntryRowsInv'
<1>1. Table' /\ txn'[r] = t /\ \A q \in Requests \ {r} : txn'[q] = txn[q]
  BY TableStep DEF Begin, Go, Rollback, EntryRowsInv, Table
<1>2. UNCHANGED journalVars => JournalTypeOK' = JournalTypeOK
  BY DEF journalVars, JournalTypeOK
<1>. QED
  BY <1>1, <1>2 DEF EntryRowsInv, EntryTyped

(* Every step but a commit.                                                 *)
LEMMA EntryBegins ==
  ASSUME EntryRowsInv, NEW r \in Requests,
         \/ create_journal_entry(r) \/ create_entry(r) \/ _upsert_mood_log(r)
         \/ update_journal_entry(r) \/ delete_journal_entry(r) \/ delete_entry(r)
         \/ (Rollback(r) /\ UNCHANGED journalVars)
  PROVE  EntryRowsInv'
<1>. PICK u : u = txn[r]
  OBVIOUS
<1>1. UNCHANGED journalVars
  BY DEF create_journal_entry, create_entry, _upsert_mood_log, update_journal_entry,
         delete_journal_entry, delete_entry
<1>2. EntryTyped(u) /\ served + 1 \in Nat
  BY DEF EntryRowsInv, Table
<1>3. CASE create_journal_entry(r)
  <2>1. PICK f \in Founders, date \in Dates, given \in Given :
          Begin(r, [op |-> "create_entry", id |-> served + 1, log |-> served + 1, day |-> <<f, date>>,
                    data |-> Scored(given)])
    BY <1>3 DEF create_journal_entry
  <2>. PICK data : data = Scored(given)
    OBVIOUS
  <2>2. data \in EntryData
    BY GivenIsTyped
  <2>. PICK t : t = [op |-> "create_entry", id |-> served + 1, log |-> served + 1, day |-> <<f, date>>,
                     data |-> data]
    OBVIOUS
  <2>3. Begin(r, t) /\ t.day = <<f, date>> /\ t.data = data /\ t.id = served + 1 /\ t.log = served + 1
    BY <2>1
  <2>4. t.day \in Days
    BY <2>3 DEF Days
  <2>. QED
    BY <1>1, <1>2, <2>2, <2>3, <2>4, EntryRowsGo DEF EntryTyped
<1>4. CASE create_entry(r) \/ _upsert_mood_log(r)
  <2>1. PICK next \in {"created", "logged", "relogged"} :
          /\ Go(r, [u EXCEPT !.op = next]) /\ u.op \in {"create_entry", "created", "update_entry"}
          /\ next = "relogged" => u.op = "update_entry"
    <3>1. CASE create_entry(r)
      BY <3>1 DEF create_entry, Doing
    <3>2. CASE _upsert_mood_log(r)
      BY <3>2 DEF _upsert_mood_log
    <3>. QED
      BY <1>4, <3>1, <3>2
  <2>. PICK t : t = [u EXCEPT !.op = next]
    OBVIOUS
  <2>2. /\ Go(r, t) /\ t.op \in {next, u.op} /\ t.day = u.day /\ t.data = u.data /\ t.id = u.id
        /\ t.log = u.log /\ t.set = u.set
    BY <2>1
  <2>. QED
    BY <1>1, <1>2, <2>1, <2>2, EntryRowsGo DEF EntryTyped
<1>5. CASE update_journal_entry(r)
  <2>1. PICK day \in DOMAIN entries, set \in SUBSET {"content", "mood", "stress"}, given \in Given :
          LET old == entries[day]
              new == Scored(given)
              Pick(c) == IF c \in set THEN new[c] ELSE old[c]
          IN  Begin(r, [op |-> "update_entry", id |-> old.id, log |-> served + 1, day |-> day, set |-> set, was |-> old,
                        data |-> [content |-> Pick("content"), mood |-> Pick("mood"), stress |-> Pick("stress")]])
    <3>1. PICK f \in Founders : \E day \in _get_entry(f), set \in SUBSET {"content", "mood", "stress"}, data \in Given :
            LET old == entries[day]
                new == Scored(data)
                Pick(c) == IF c \in set THEN new[c] ELSE old[c]
            IN  Begin(r, [op |-> "update_entry", id |-> old.id, log |-> served + 1, day |-> day, set |-> set, was |-> old,
                          data |-> [content |-> Pick("content"), mood |-> Pick("mood"), stress |-> Pick("stress")]])
      BY <1>5 DEF update_journal_entry
    <3>2. _get_entry(f) \subseteq DOMAIN entries
      BY DEF _get_entry
    <3>. QED
      BY <3>1, <3>2
  <2>. PICK old, new : old = entries[day] /\ new = Scored(given)
    OBVIOUS
  <2>. PICK data : data = [content |-> IF "content" \in set THEN new["content"] ELSE old["content"],
                           mood |-> IF "mood" \in set THEN new["mood"] ELSE old["mood"],
                           stress |-> IF "stress" \in set THEN new["stress"] ELSE old["stress"]]
    OBVIOUS
  <2>. PICK t : t = [op |-> "update_entry", id |-> old.id, log |-> served + 1, day |-> day, set |-> set,
                     was |-> old, data |-> data]
    OBVIOUS
  <2>2. Begin(r, t)
    BY <2>1
  <2>3. t.op = "update_entry" /\ t.id = old.id /\ t.log = served + 1 /\ t.day = day /\ t.data = data
        /\ "id" \notin t.set
    OBVIOUS
  <2>4. old \in JournalEntry /\ day \in Days
    BY DEF EntryRowsInv, JournalTypeOK
  <2>5. new \in EntryData
    BY GivenIsTyped
  <2>6. data \in EntryData /\ old.id \in Nat
    BY <2>4, <2>5 DEF EntryData, JournalEntry
  <2>. QED
    BY <1>1, <1>2, <2>2, <2>3, <2>4, <2>6, EntryRowsGo DEF EntryTyped
<1>6. CASE delete_journal_entry(r) \/ delete_entry(r)
  <2>1. PICK t : (Begin(r, t) \/ Go(r, t)) /\ t.op \in {"delete_entry", "deleted_entry"}
    <3>1. CASE delete_journal_entry(r)
      <4>1. PICK f, day : Begin(r, [op |-> "delete_entry", day |-> day, id |-> entries[day].id])
        BY <3>1 DEF delete_journal_entry
      <4>. PICK t : t = [op |-> "delete_entry", day |-> day, id |-> entries[day].id]
        OBVIOUS
      <4>2. Begin(r, t) /\ t.op = "delete_entry"
        BY <4>1
      <4>. QED
        BY <4>2
    <3>2. CASE delete_entry(r)
      <4>. PICK log : log = IF u.day \in DOMAIN moodLogs THEN moodLogs[u.day].id ELSE 0
        OBVIOUS
      <4>. PICK t : t = [op |-> "deleted_entry", day |-> u.day, id |-> u.id, log |-> log]
        OBVIOUS
      <4>1. Go(r, t) /\ t.op = "deleted_entry"
        BY <3>2 DEF delete_entry
      <4>. QED
        BY <4>1
    <3>. QED
      BY <1>6, <3>1, <3>2
  <2>. QED
    BY <1>1, <2>1, EntryRowsGo DEF EntryTyped
<1>7. CASE Rollback(r) /\ UNCHANGED journalVars
  <2>. PICK t : t = Idle
    OBVIOUS
  <2>1. t.op = "idle"
    BY DEF Idle
  <2>. QED
    BY <1>7, <2>1, EntryRowsGo DEF EntryTyped
<1>. QED
  BY <1>3, <1>4, <1>5, <1>6, <1>7

(* The entry and the log that a request writes have their types.            *)
LEMMA RowsOfEntry ==
  ASSUME EntryRowsInv, NEW t, EntryTyped(t),
         t.op \in {"create_entry", "created", "logged", "update_entry", "relogged"}
  PROVE  LogRow(t) \in MoodLog /\ EntryRow(t) \in JournalEntry
<1>1. t.data \in EntryData /\ t.id \in Nat /\ t.log \in Nat
  BY DEF EntryTyped
<1>2. t.data.content \in Contents /\ t.data.mood \in 1..5 /\ t.data.stress \in 1..10
  BY <1>1 DEF EntryData
<1>3. IdOf(moodLogs, t, t.log) \in Nat /\ IdOf(entries, t, t.id) \in Nat
  BY <1>1 DEF IdOf, EntryRowsInv, JournalTypeOK, MoodLog, JournalEntry
<1>. QED
  BY <1>2, <1>3 DEF LogRow, EntryRow, MoodLog, JournalEntry

(* Every commit.                                                            *)
LEMMA EntryCommits ==
  ASSUME EntryRowsInv, NEW r \in Requests, CommitEntry(r) \/ update_entry(r) \/ CommitDelete(r)
  PROVE  EntryRowsInv'
<1>. PICK t : t = txn[r]
  OBVIOUS
<1>1. EntryTyped(t) /\ JournalTypeOK
  BY DEF EntryRowsInv
<1>2. Commit(r)
  BY DEF CommitEntry, update_entry, CommitDelete
<1>3. Table' /\ txn'[r] = Idle /\ \A q \in Requests \ {r} : txn'[q] = txn[q]
  BY <1>2, TableStep DEF Commit, EntryRowsInv, Table
<1>4. \A q \in Requests : EntryTyped(txn[q])'
  BY <1>3 DEF EntryRowsInv, EntryTyped, Idle
<1>5. CASE CommitEntry(r)
  <2>1. /\ t.op = "logged"
        /\ entries' = Put(entries, t.day, EntryRow(t)) /\ moodLogs' = Put(moodLogs, t.day, LogRow(t))
    BY <1>5 DEF CommitEntry, Doing
  <2>2. LogRow(t) \in MoodLog /\ EntryRow(t) \in JournalEntry /\ t.day \in Days
    BY <1>1, <2>1, RowsOfEntry DEF EntryTyped
  <2>3. JournalTypeOK'
    BY <1>1, <2>1, <2>2 DEF JournalTypeOK, Put
  <2>. QED
    BY <1>3, <1>4, <2>3 DEF EntryRowsInv
<1>6. CASE update_entry(r)
  <2>. PICK cols : cols = Written_columns(t)
    OBVIOUS
  <2>1. /\ t.op = "relogged" /\ (cols # {} => t.day \in DOMAIN entries)
        /\ entries' = (IF cols = {} THEN entries
                       ELSE [entries EXCEPT ![t.day] = [c \in DOMAIN @ |-> IF c \in cols THEN t.data[c] ELSE @[c]]])
        /\ moodLogs' = Put(moodLogs, t.day, LogRow(t))
    BY <1>6 DEF update_entry, Doing, There
  <2>2. LogRow(t) \in MoodLog /\ t.day \in Days /\ t.data \in EntryData /\ "id" \notin t.set
    BY <1>1, <2>1, RowsOfEntry DEF EntryTyped
  <2>3. \A k \in DOMAIN moodLogs' : moodLogs'[k] \in MoodLog /\ k \in Days
    BY <1>1, <2>1, <2>2 DEF JournalTypeOK, Put
  <2>4. DOMAIN entries' = DOMAIN entries
    BY <2>1
  <2>5. ASSUME NEW k \in DOMAIN entries PROVE entries'[k] \in JournalEntry
    <3>1. entries[k] \in JournalEntry
      BY <1>1 DEF JournalTypeOK
    <3>2. CASE entries'[k] = entries[k]
      BY <3>1, <3>2
    <3>3. CASE entries'[k] = [c \in DOMAIN entries[k] |-> IF c \in cols THEN t.data[c] ELSE entries[k][c]]
      <4>. PICK row, new : row = entries[k] /\ new = entries'[k]
        OBVIOUS
      <4>1. /\ row.id \in Nat /\ row.content \in Contents /\ row.mood \in 1..5 /\ row.stress \in 1..10
            /\ DOMAIN row = {"id", "content", "mood", "stress"}
        BY <3>1 DEF JournalEntry
      <4>2. "id" \notin cols
        BY <2>2 DEF Written_columns
      <4>3. new = [c \in DOMAIN row |-> IF c \in cols THEN t.data[c] ELSE row[c]]
        BY <3>3
      <4>4. /\ t.data.content \in Contents /\ t.data.mood \in 1..5 /\ t.data.stress \in 1..10
        BY <2>2 DEF EntryData
      <4>5. /\ new.id \in Nat /\ new.content \in Contents /\ new.mood \in 1..5 /\ new.stress \in 1..10
        BY <4>1, <4>2, <4>3, <4>4
      <4>6. new = [id |-> new.id, content |-> new.content, mood |-> new.mood, stress |-> new.stress]
        BY <4>1, <4>3
      <4>. QED
        BY <4>5, <4>6 DEF JournalEntry
    <3>. QED
      BY <2>1, <3>2, <3>3
  <2>6. JournalTypeOK'
    BY <1>1, <2>3, <2>4, <2>5 DEF JournalTypeOK
  <2>. QED
    BY <1>3, <1>4, <2>6 DEF EntryRowsInv
<1>7. CASE CommitDelete(r)
  <2>1. entries' = Without(entries, t.day, t.id) /\ moodLogs' = Without(moodLogs, t.day, t.log)
    BY <1>7 DEF CommitDelete
  <2>2. JournalTypeOK'
    BY <1>1, <2>1 DEF JournalTypeOK, Without
  <2>. QED
    BY <1>3, <1>4, <2>2 DEF EntryRowsInv
<1>. QED
  BY <1>5, <1>6, <1>7

(* However updates, deletions and the mood log race, every entry and log    *)
(* has its type: no score out of range, no entry without a text.            *)
THEOREM JournalTypes == JournalSpec => []JournalTypeOK
<1>1. TransactionsInit /\ JournalInit => EntryRowsInv
  <2>. SUFFICES ASSUME TransactionsInit, JournalInit PROVE EntryRowsInv
    OBVIOUS
  <2>1. DOMAIN entries = {} /\ DOMAIN moodLogs = {}
    BY DEF JournalInit
  <2>2. Table /\ \A r \in Requests : txn[r].op = "idle"
    BY DEF TransactionsInit, Table, Idle
  <2>. QED
    BY <2>1, <2>2 DEF EntryRowsInv, JournalTypeOK, EntryTyped
<1>2. EntryRowsInv /\ [JournalNext]_<<journalVars, txnVars>> => EntryRowsInv'
  <2>. SUFFICES ASSUME EntryRowsInv, [JournalNext]_<<journalVars, txnVars>> PROVE EntryRowsInv'
    OBVIOUS
  <2>1. CASE JournalNext
    BY <2>1, EntryBegins, EntryCommits DEF JournalNext, JournalStep
  <2>2. CASE UNCHANGED <<journalVars, txnVars>>
    BY <2>2 DEF journalVars, txnVars, EntryRowsInv, Table, JournalTypeOK, EntryTyped
  <2>. QED
    BY <2>1, <2>2
<1>3. EntryRowsInv => JournalTypeOK
  BY DEF EntryRowsInv
<1>. QED
  BY <1>1, <1>2, <1>3, PTL DEF JournalSpec

-----------------------------------------------------------------------------
(* The academy (Learning): what is shown of a course is that of its rows.   *)

Catalog == {ALL_COURSES[i].id : i \in 1..6}

(* The catalog's courses have two lessons or three, and names of their own. *)
LEMMA CatalogIsKnown ==
  /\ DOMAIN ALL_COURSES = 1..6
  /\ \A i \in 1..6 :
       /\ get_course(ALL_COURSES[i].id) = ALL_COURSES[i]
       /\ Len(ALL_COURSES[i].minutes) \in {2, 3}
       /\ DOMAIN ALL_COURSES[i].minutes = 1..Len(ALL_COURSES[i].minutes)
  /\ Studied \subseteq Catalog
  /\ \A l \in LESSONS : \E i \in 1..6 : \E n \in 1..Len(ALL_COURSES[i].minutes) : l = <<ALL_COURSES[i].id, n>>
<1>1. DOMAIN ALL_COURSES = 1..6 /\ ToSet(ALL_COURSES) = {ALL_COURSES[i] : i \in 1..6}
  BY DEF ALL_COURSES, ToSet
<1>2. \A i \in 1..6 : /\ Len(ALL_COURSES[i].minutes) \in {2, 3}
                      /\ DOMAIN ALL_COURSES[i].minutes = 1..Len(ALL_COURSES[i].minutes)
  BY DEF ALL_COURSES, _course
<1>3. \A i, j \in 1..6 : ALL_COURSES[i].id = ALL_COURSES[j].id => i = j
  BY DEF ALL_COURSES, _course
<1>4. ASSUME NEW i \in 1..6 PROVE get_course(ALL_COURSES[i].id) = ALL_COURSES[i]
  <2>1. \A c \in ToSet(ALL_COURSES) : c.id = ALL_COURSES[i].id => c = ALL_COURSES[i]
    BY <1>1, <1>3
  <2>2. ALL_COURSES[i] \in ToSet(ALL_COURSES)
    BY <1>1
  <2>. QED
    BY <2>1, <2>2 DEF get_course
<1>5. Studied \subseteq Catalog
  BY <1>1, StudiedAssumption DEF Catalog
<1>6. ASSUME NEW l \in LESSONS
      PROVE  \E i \in 1..6 : \E n \in 1..Len(ALL_COURSES[i].minutes) : l = <<ALL_COURSES[i].id, n>>
  <2>1. PICK c \in ToSet(ALL_COURSES) : l \in {<<c.id, n>> : n \in DOMAIN c.minutes}
    BY DEF LESSONS
  <2>2. PICK i \in 1..6 : c = ALL_COURSES[i]
    BY <1>1
  <2>3. PICK n \in DOMAIN c.minutes : l = <<c.id, n>>
    BY <2>1
  <2>. QED
    BY <1>2, <2>2, <2>3
<1>. QED
  BY <1>1, <1>2, <1>4, <1>5, <1>6

(* How Python rounds the share of two or three lessons.                     *)
LEMMA Shares ==
  ASSUME NEW n \in {2, 3}, NEW k \in 0..n
  PROVE  /\ Pct(k, n) \in 0..100
         /\ Pct(k, n) = 0 <=> k = 0
         /\ Pct(k, n) = 100 <=> k = n
<1>1. CASE n = 2 /\ k = 0
  BY <1>1 DEF Pct, Round
<1>2. CASE n = 2 /\ k = 1
  BY <1>2 DEF Pct, Round
<1>3. CASE n = 2 /\ k = 2
  BY <1>3 DEF Pct, Round
<1>4. CASE n = 3 /\ k = 0
  BY <1>4 DEF Pct, Round
<1>5. CASE n = 3 /\ k = 1
  BY <1>5 DEF Pct, Round
<1>6. CASE n = 3 /\ k = 2
  BY <1>6 DEF Pct, Round
<1>7. CASE n = 3 /\ k = 3
  BY <1>7 DEF Pct, Round
<1>. QED
  BY <1>1, <1>2, <1>3, <1>4, <1>5, <1>6, <1>7

(* What is done of a course are lessons of it.                              *)
LEMMA LessonsOfCourse ==
  ASSUME NEW done, done \subseteq LESSONS, NEW i \in 1..6
  PROVE  completed_lesson_ids(done, ALL_COURSES[i].id) \subseteq DOMAIN get_course(ALL_COURSES[i].id).minutes
<1>. DEFINE id == ALL_COURSES[i].id
<1>1. ASSUME NEW m \in completed_lesson_ids(done, id)
      PROVE  m \in DOMAIN get_course(id).minutes
  <2>1. <<id, m>> \in LESSONS
    BY <1>1 DEF completed_lesson_ids
  <2>2. PICK j \in 1..6 : \E k \in 1..Len(ALL_COURSES[j].minutes) : <<id, m>> = <<ALL_COURSES[j].id, k>>
    BY <2>1, CatalogIsKnown
  <2>3. ALL_COURSES[j] = ALL_COURSES[i]
    BY <2>2, CatalogIsKnown
  <2>. QED
    BY <2>2, <2>3, CatalogIsKnown
<1>. QED
  BY <1>1

(* A course's progress is 100 when all its lessons are done, and only then. *)
LEMMA ProgressOfLessons ==
  ASSUME NEW done, done \subseteq LESSONS, NEW i \in 1..6
  PROVE  LET id == ALL_COURSES[i].id IN
         /\ course_progress(done, id) \in 0..100
         /\ course_progress(done, id) = 0 <=> completed_lesson_ids(done, id) = {}
         /\ course_progress(done, id) = 100 <=>
              completed_lesson_ids(done, id) = DOMAIN get_course(id).minutes
<1>. DEFINE id == ALL_COURSES[i].id
            n == Len(ALL_COURSES[i].minutes)
            ids == completed_lesson_ids(done, id)
<1>1. n \in {2, 3} /\ get_course(id) = ALL_COURSES[i] /\ DOMAIN get_course(id).minutes = 1..n
  BY CatalogIsKnown
<1>2. ids \subseteq 1..n
  BY <1>1, LessonsOfCourse
<1>3. IsFiniteSet(1..n) /\ Cardinality(1..n) = n
  BY <1>1, FS_Interval
<1>4. /\ Cardinality(ids) \in 0..n
      /\ Cardinality(ids) = n <=> ids = 1..n
      /\ Cardinality(ids) = 0 <=> ids = {}
  BY <1>1, <1>2, <1>3, FS_Subset, FS_EmptySet, FS_CardinalityType
<1>5. course_progress(done, id) = Pct(Cardinality(ids), n)
  BY <1>1 DEF course_progress
<1>. HIDE DEF ids, n
<1>6. \A k \in 0..n : /\ Pct(k, n) \in 0..100
                      /\ Pct(k, n) = 0 <=> k = 0
                      /\ Pct(k, n) = 100 <=> k = n
  BY <1>1, Shares
<1>7. /\ course_progress(done, id) \in 0..100
      /\ course_progress(done, id) = 0 <=> ids = {}
      /\ course_progress(done, id) = 100 <=> ids = DOMAIN get_course(id).minutes
  BY <1>1, <1>4, <1>5, <1>6
<1>. QED
  BY <1>7 DEF ids

(* The same of a course that is named.                                      *)
LEMMA ProgressOfCourse ==
  ASSUME NEW done, done \subseteq LESSONS, NEW c \in Catalog
  PROVE  /\ course_progress(done, c) \in 0..100
         /\ course_progress(done, c) = 0 <=> completed_lesson_ids(done, c) = {}
         /\ course_progress(done, c) = 100 <=>
              completed_lesson_ids(done, c) = DOMAIN get_course(c).minutes
         /\ completed_lesson_ids(done, c) \subseteq DOMAIN get_course(c).minutes
<1>1. PICK i \in 1..6 : ALL_COURSES[i].id = c
  BY DEF Catalog
<1>2. /\ course_progress(done, ALL_COURSES[i].id) \in 0..100
      /\ course_progress(done, ALL_COURSES[i].id) = 0 <=> completed_lesson_ids(done, ALL_COURSES[i].id) = {}
      /\ course_progress(done, ALL_COURSES[i].id) = 100 <=>
           completed_lesson_ids(done, ALL_COURSES[i].id) = DOMAIN get_course(ALL_COURSES[i].id).minutes
  BY ProgressOfLessons
<1>3. completed_lesson_ids(done, c) \subseteq DOMAIN get_course(c).minutes
  BY <1>1, LessonsOfCourse
<1>. QED
  BY <1>1, <1>2, <1>3

(* The row of a course that is studied: its progress is counted over the    *)
(* lessons, it is completed and certified when that is 100, and it has no   *)
(* lessons before it is there.                                              *)
CourseCounted(id) ==
    IF id \in DOMAIN enrollments
    THEN /\ enrollments[id].progress = course_progress(lessonProgress, id)
         /\ enrollments[id].completed <=> enrollments[id].progress = 100
         /\ id \in certificates <=> enrollments[id].progress = 100
    ELSE completed_lesson_ids(lessonProgress, id) = {} /\ id \notin certificates

(* What a request is to write of a course.                                  *)
Studies(t) ==
    /\ t.op \in {"enroll", "found", "enrolled", "complete_lesson", "studied"} => t.course \in Catalog
    /\ t.op = "found" => t.course \in DOMAIN enrollments
    /\ t.op = "enrolled" => t.course \notin DOMAIN enrollments
    /\ t.op \in {"complete_lesson", "studied"} => t.lesson \in LESSONS /\ t.lesson[1] = t.course
    /\ t.op = "studied" => t = Studying(t)

(* One request at most has a course's row.                                  *)
OneStudies ==
    \A q, r \in Requests, c \in Catalog : Holds(q, c) /\ Holds(r, c) => q = r

LearningInv ==
    /\ Table
    /\ lessonProgress \subseteq LESSONS /\ DOMAIN enrollments \subseteq Catalog
    /\ \A id \in Catalog : CourseCounted(id)
    /\ \A r \in Requests : Studies(txn[r])
    /\ OneStudies

(* A request begins, goes on with a course that nobody else has, or fails.  *)
LEMMA LearningGoes ==
  ASSUME LearningInv, NEW r \in Requests, NEW t,
         Begin(r, t) \/ Go(r, t) \/ (Rollback(r) /\ t = Idle),
         UNCHANGED learningVars, Studies(t),
         t.op \in {"enrolled", "studied"} => ~\E q \in Requests : Holds(q, t.course)
  PROVE  LearningInv'
<1>1. /\ txn'[r] = t /\ Table'
      /\ \A q \in Requests \ {r} : txn'[q] = txn[q]
  BY TableStep DEF Begin, Go, Rollback, LearningInv, Table
<1>2. /\ lessonProgress' = lessonProgress /\ enrollments' = enrollments /\ certificates' = certificates
  BY DEF learningVars
<1>3. ASSUME NEW q \in Requests PROVE Studies(txn[q])'
  <2>1. \A x : Studies(x) => Studies(x)'
    BY <1>2 DEF Studies, Studying
  <2>2. Studies(txn'[q])
    BY <1>1 DEF LearningInv
  <2>. QED
    BY <2>1, <2>2
<1>4. OneStudies'
  BY <1>1 DEF LearningInv, OneStudies, Holds
<1>5. \A id \in Catalog : CourseCounted(id)'
  BY <1>2 DEF LearningInv, CourseCounted, completed_lesson_ids, course_progress
<1>. QED
  BY <1>1, <1>2, <1>3, <1>4, <1>5 DEF LearningInv

(* A request commits what it has counted, or nothing.                       *)
LEMMA LearningCommits ==
  ASSUME LearningInv, NEW r \in Requests, Commit(r), NEW c \in Catalog, Holds(r, c),
         \A id \in Catalog \ {c} :
           /\ id \in DOMAIN enrollments' <=> id \in DOMAIN enrollments
           /\ id \in DOMAIN enrollments => enrollments'[id] = enrollments[id]
           /\ id \in certificates' <=> id \in certificates
           /\ completed_lesson_ids(lessonProgress', id) = completed_lesson_ids(lessonProgress, id),
         DOMAIN enrollments \subseteq DOMAIN enrollments', DOMAIN enrollments' \subseteq Catalog,
         lessonProgress \subseteq lessonProgress', lessonProgress' \subseteq LESSONS,
         CourseCounted(c)'
  PROVE  LearningInv'
<1>1. /\ txn'[r] = Idle /\ Table' /\ Idle.op = "idle"
      /\ \A q \in Requests \ {r} : txn'[q] = txn[q]
  BY TableStep DEF Commit, LearningInv, Table, Idle
<1>2. \A id \in Catalog : CourseCounted(id)'
  <2>1. ASSUME NEW id \in Catalog \ {c} PROVE CourseCounted(id)'
    BY DEF LearningInv, CourseCounted, course_progress
  <2>. QED
    BY <2>1
<1>3. ASSUME NEW q \in Requests PROVE Studies(txn[q])'
  <2>. PICK t : t = txn[q]
    OBVIOUS
  <2>1. CASE q = r
    BY <1>1, <2>1 DEF Studies
  <2>2. CASE q # r /\ t.op # "studied"
    BY <1>1, <2>2 DEF LearningInv, Studies, OneStudies, Holds
  <2>3. CASE q # r /\ t.op = "studied"
    <3>1. /\ t.course \in Catalog \ {c} /\ t.lesson \in LESSONS /\ t.lesson[1] = t.course
          /\ t = Studying(t)
      BY <2>3 DEF LearningInv, Studies, OneStudies, Holds
    <3>2. completed_lesson_ids(lessonProgress' \cup {t.lesson}, t.course)
            = completed_lesson_ids(lessonProgress \cup {t.lesson}, t.course)
      BY <3>1 DEF completed_lesson_ids
    <3>3. t = Studying(t)'
      BY <3>1, <3>2 DEF Studying, course_progress
    <3>. QED
      BY <1>1, <2>3, <3>1, <3>3 DEF Studies
  <2>. QED
    BY <2>1, <2>2, <2>3
<1>4. OneStudies'
  BY <1>1 DEF LearningInv, OneStudies, Holds
<1>. QED
  BY <1>1, <1>2, <1>3, <1>4 DEF LearningInv

(* An enrolment is new and nothing of it is done, or was found and stays.   *)
LEMMA EnrollmentStep ==
  ASSUME LearningInv, NEW r \in Requests, CommitEnrollment(r)
  PROVE  LearningInv'
<1>. PICK t : t = txn[r]
  OBVIOUS
<1>1. /\ Commit(r) /\ UNCHANGED <<lessonProgress, certificates>>
      /\ t.course \in Catalog /\ Studies(t) /\ t.op \in {"found", "enrolled"}
      /\ enrollments' = IF t.op = "found" THEN enrollments
                        ELSE Put(enrollments, t.course, [progress |-> 0, completed |-> FALSE])
  BY DEF CommitEnrollment, Doing, LearningInv, Studies
<1>2. CASE t.op = "found"
  <2>1. UNCHANGED <<enrollments, lessonProgress, certificates>>
    BY <1>1, <1>2
  <2>2. /\ txn'[r] = Idle /\ Table' /\ Idle.op = "idle"
        /\ \A q \in Requests \ {r} : txn'[q] = txn[q]
    BY <1>1, TableStep DEF Commit, LearningInv, Table, Idle
  <2>3. \A q \in Requests : Studies(txn[q])'
    BY <2>1, <2>2 DEF LearningInv, Studies, Studying
  <2>4. OneStudies' /\ \A id \in Catalog : CourseCounted(id)'
    BY <2>1, <2>2 DEF LearningInv, OneStudies, Holds, CourseCounted
  <2>. QED
    BY <2>1, <2>2, <2>3, <2>4 DEF LearningInv
<1>3. CASE t.op = "enrolled"
  <2>. DEFINE c == t.course
  <2>. PICK row : row = [progress |-> 0, completed |-> FALSE]
    OBVIOUS
  <2>1. /\ DOMAIN enrollments' = DOMAIN enrollments \cup {c}
        /\ \A id \in DOMAIN enrollments' : enrollments'[id] = IF id = c THEN row ELSE enrollments[id]
    BY <1>1, <1>3 DEF Put
  <2>2. row.progress = 0 /\ row.completed = FALSE
    OBVIOUS
  <2>3. completed_lesson_ids(lessonProgress, c) = {} /\ c \notin certificates
    BY <1>1, <1>3 DEF LearningInv, Studies, CourseCounted
  <2>4. course_progress(lessonProgress, c) = 0
    BY <1>1, <2>3, ProgressOfLessons DEF Catalog, LearningInv
  <2>5. CourseCounted(c)'
    BY <1>1, <2>1, <2>2, <2>3, <2>4 DEF CourseCounted
  <2>6. Holds(r, c)
    BY <1>3 DEF Holds
  <2>. QED
    BY <1>1, <2>1, <2>5, <2>6, LearningCommits DEF LearningInv
<1>. QED
  BY <1>1, <1>2, <1>3

(* A lesson is done, and the course counted with it.                        *)
LEMMA LessonStep ==
  ASSUME LearningInv, NEW r \in Requests, CommitLesson(r)
  PROVE  LearningInv'
<1>. PICK t : t = txn[r]
  OBVIOUS
<1>. DEFINE c == t.course
            done == lessonProgress \cup {t.lesson}
            before == c \in DOMAIN enrollments /\ enrollments[c].completed
<1>1. /\ Commit(r) /\ t.op = "studied" /\ lessonProgress' = done
      /\ enrollments' = Put(enrollments, c, [progress |-> t.progress, completed |-> before \/ t.issue])
      /\ certificates' = certificates \cup _issue_certificate(t)
  BY DEF CommitLesson, Doing
<1>2. c \in Catalog /\ t.lesson \in LESSONS /\ t.lesson[1] = c /\ t = Studying(t) /\ CourseCounted(c)
  BY <1>1 DEF LearningInv, Studies
<1>3. /\ t.progress = course_progress(done, c)
      /\ t.issue = (t.progress = 100 /\ ~before)
  BY <1>2 DEF Studying
<1>4. before => t.progress = 100
  <2>1. SUFFICES ASSUME before PROVE t.progress = 100
    OBVIOUS
  <2>2. done \subseteq LESSONS /\ lessonProgress \subseteq LESSONS
    BY <1>2 DEF LearningInv
  <2>3. course_progress(lessonProgress, c) = 100
    BY <1>2, <2>1 DEF CourseCounted
  <2>4. completed_lesson_ids(lessonProgress, c) \subseteq completed_lesson_ids(done, c)
    BY DEF completed_lesson_ids
  <2>. HIDE DEF done, c
  <2>5. completed_lesson_ids(lessonProgress, c) = DOMAIN get_course(c).minutes
    BY <1>2, <2>2, <2>3, ProgressOfCourse
  <2>6. completed_lesson_ids(done, c) = DOMAIN get_course(c).minutes
    <3>1. completed_lesson_ids(done, c) \subseteq DOMAIN get_course(c).minutes
      BY <1>2, <2>2, ProgressOfCourse
    <3>. QED
      BY <2>4, <2>5, <3>1
  <2>7. course_progress(done, c) = 100
    BY <1>2, <2>2, <2>6, ProgressOfCourse
  <2>. QED
    BY <1>3, <2>7
<1>. PICK row : row = [progress |-> t.progress, completed |-> before \/ t.issue]
  OBVIOUS
<1>5. row.progress = t.progress /\ row.completed = (before \/ t.issue)
  OBVIOUS
<1>6. /\ DOMAIN enrollments' = DOMAIN enrollments \cup {c}
      /\ \A id \in DOMAIN enrollments' : enrollments'[id] = IF id = c THEN row ELSE enrollments[id]
  BY <1>1 DEF Put
<1>7. \A id : id \in certificates' <=> id \in certificates \/ (id = c /\ t.issue)
  BY <1>1 DEF _issue_certificate
<1>8. CourseCounted(c)'
  <2>1. c \in certificates <=> before
    BY <1>2 DEF CourseCounted
  <2>2. c \in certificates' <=> before \/ t.issue
    BY <1>7, <2>1
  <2>3. before \/ t.issue <=> t.progress = 100
    BY <1>3, <1>4
  <2>4. c \in DOMAIN enrollments' /\ enrollments'[c] = row /\ lessonProgress' = done
    BY <1>1, <1>6
  <2>5. row.progress = course_progress(done, c) /\ (row.completed <=> row.progress = 100)
    BY <1>3, <1>5, <2>3
  <2>6. c \in certificates' <=> row.progress = 100
    BY <1>5, <2>2, <2>3
  <2>. HIDE DEF c, done, before
  <2>. QED
    BY <2>4, <2>5, <2>6 DEF CourseCounted
<1>9. \A id \in Catalog \ {c} :
        completed_lesson_ids(lessonProgress', id) = completed_lesson_ids(lessonProgress, id)
  BY <1>1, <1>2 DEF completed_lesson_ids
<1>10. Holds(r, c) /\ DOMAIN enrollments' \subseteq Catalog /\ lessonProgress' \subseteq LESSONS
  BY <1>1, <1>2, <1>6 DEF LearningInv, Holds
<1>11. lessonProgress \subseteq lessonProgress' /\ DOMAIN enrollments \subseteq DOMAIN enrollments'
  BY <1>1, <1>6
<1>. HIDE DEF c, done, before
<1>. QED
  BY <1>1, <1>2, <1>6, <1>7, <1>8, <1>9, <1>10, <1>11, LearningCommits

(* Requests of the academy begin and go on.                                 *)
LEMMA LearningBeginSteps ==
  ASSUME LearningInv, NEW r \in Requests,
         \/ create_enrollment(r) \/ get_or_create_enrollment(r) \/ update_lesson_progress(r)
         \/ complete_lesson(r) \/ (Rollback(r) /\ UNCHANGED learningVars)
  PROVE  LearningInv'
<1>1. UNCHANGED learningVars
  BY DEF create_enrollment, get_or_create_enrollment, update_lesson_progress, complete_lesson
<1>. PICK u : u = txn[r]
  OBVIOUS
<1>2. CASE create_enrollment(r)
  <2>1. PICK c \in Studied : Begin(r, [op |-> "enroll", course |-> c])
    BY <1>2 DEF create_enrollment
  <2>. PICK t : t = [op |-> "enroll", course |-> c]
    OBVIOUS
  <2>2. Begin(r, t) /\ t.op = "enroll" /\ t.course \in Catalog
    BY <2>1, CatalogIsKnown
  <2>. QED
    BY <1>1, <2>2, LearningGoes DEF Studies
<1>3. CASE get_or_create_enrollment(r)
  <2>. DEFINE c == u.course
  <2>1. /\ u.op = "enroll" /\ c \notin DOMAIN enrollments => ~\E q \in Requests : Holds(q, c)
        /\ Go(r, [op |-> IF c \in DOMAIN enrollments THEN "found" ELSE "enrolled", course |-> c])
    BY <1>3 DEF get_or_create_enrollment, Doing
  <2>2. c \in Catalog
    BY <1>3 DEF LearningInv, Studies, get_or_create_enrollment, Doing
  <2>. PICK t : t = [op |-> IF c \in DOMAIN enrollments THEN "found" ELSE "enrolled", course |-> c]
    OBVIOUS
  <2>3. /\ Go(r, t) /\ t.course = c
        /\ t.op = IF c \in DOMAIN enrollments THEN "found" ELSE "enrolled"
    BY <2>1
  <2>. QED
    BY <1>1, <1>3, <2>1, <2>2, <2>3, LearningGoes DEF Studies, get_or_create_enrollment, Doing
<1>4. CASE update_lesson_progress(r)
  <2>1. PICK l \in LESSONS : l[1] \in Studied /\ Begin(r, [op |-> "complete_lesson", course |-> l[1], lesson |-> l])
    BY <1>4 DEF update_lesson_progress
  <2>. PICK t : t = [op |-> "complete_lesson", course |-> l[1], lesson |-> l]
    OBVIOUS
  <2>2. Begin(r, t) /\ t.op = "complete_lesson" /\ t.course \in Catalog /\ t.lesson \in LESSONS /\ t.lesson[1] = t.course
    BY <2>1, CatalogIsKnown
  <2>. QED
    BY <1>1, <2>2, LearningGoes DEF Studies
<1>5. CASE complete_lesson(r)
  <2>1. u.op = "complete_lesson" /\ Go(r, Studying(u)) /\ ~\E q \in Requests : Holds(q, u.course)
    BY <1>5 DEF complete_lesson, Doing
  <2>2. u.course \in Catalog /\ u.lesson \in LESSONS /\ u.lesson[1] = u.course
    BY <2>1 DEF LearningInv, Studies
  <2>. PICK t : t = Studying(u)
    OBVIOUS
  <2>3. t.op = "studied" /\ t.course = u.course /\ t.lesson = u.lesson
    BY DEF Studying
  <2>4. t = Studying(t)
    BY <2>3 DEF Studying
  <2>. QED
    BY <1>1, <2>1, <2>2, <2>3, <2>4, LearningGoes DEF Studies
<1>6. CASE Rollback(r) /\ UNCHANGED learningVars
  <2>. PICK t : t = Idle
    OBVIOUS
  <2>1. t.op = "idle"
    BY DEF Idle
  <2>. QED
    BY <1>1, <1>6, <2>1, LearningGoes DEF Studies
<1>. QED
  BY <1>2, <1>3, <1>4, <1>5, <1>6

(* The pages read the rows of the course, and agree as these do.            *)
LEMMA CountedCoursesAgree ==
  ASSUME LearningInv
  PROVE  PagesAgree
<1>1. ASSUME NEW i \in 1..6, NEW c, c = list_courses[i], NEW page, page = get_course_detail(c.id),
             NEW finished, finished <=> page.completed = page.lessons
      PROVE  /\ c.progress = course_progress(lessonProgress, c.id)
             /\ c.id \in list_my_certificates <=> finished
             /\ c.completed <=> finished
             /\ finished => c.id \in DOMAIN enrollments /\ enrollments[c.id].completed
  <2>. DEFINE id == ALL_COURSES[i].id
  <2>1. c = course_summary(ALL_COURSES[i])
    BY <1>1, CatalogIsKnown DEF list_courses
  <2>2. /\ c.id = id
        /\ c.progress = IF id \in DOMAIN enrollments THEN enrollments[id].progress ELSE 0
        /\ c.completed = (id \in DOMAIN enrollments /\ enrollments[id].completed)
    BY <2>1 DEF course_summary
  <2>3. /\ page.completed = completed_lesson_ids(lessonProgress, id)
        /\ page.lessons = DOMAIN get_course(id).minutes
    BY <1>1, <2>2, CatalogIsKnown DEF get_course_detail, course_detail
  <2>4. /\ course_progress(lessonProgress, id) = 0 <=> completed_lesson_ids(lessonProgress, id) = {}
        /\ course_progress(lessonProgress, id) = 100 <=> page.completed = page.lessons
    BY <2>3, ProgressOfLessons DEF LearningInv
  <2>5. id \in Catalog /\ CourseCounted(id)
    BY DEF LearningInv, Catalog
  <2>6. CASE id \in DOMAIN enrollments
    BY <1>1, <2>2, <2>4, <2>5, <2>6 DEF CourseCounted, list_my_certificates
  <2>7. CASE id \notin DOMAIN enrollments
    <3>1. /\ completed_lesson_ids(lessonProgress, id) = {} /\ id \notin certificates
          /\ c.progress = 0 /\ ~c.completed
      BY <2>2, <2>5, <2>7 DEF CourseCounted
    <3>2. course_progress(lessonProgress, id) = 0
      BY <2>4, <3>1
    <3>3. ~finished
      BY <1>1, <2>4, <3>2
    <3>. QED
      BY <2>2, <3>1, <3>2, <3>3 DEF list_my_certificates
  <2>. QED
    BY <2>6, <2>7
<1>2. ASSUME NEW c \in DOMAIN enrollments, enrollments[c].completed, NEW stage
      PROVE  LET shelf == get_recommendations(stage)
             IN  /\ c \notin shelf.watching
                 /\ c \notin {ALL_COURSES[key[2]].id : key \in shelf.recommended}
  <2>1. c \notin continue_watching
    BY <1>2 DEF continue_watching
  <2>2. c \in DOMAIN enrollments \ continue_watching
    BY <2>1
  <2>3. \A key \in recommended_courses(stage, DOMAIN enrollments \ continue_watching) :
          ALL_COURSES[key[2]].id # c
    BY <2>2 DEF recommended_courses, RECOMMENDATION_SORT_KEYS
  <2>. QED
    BY <2>1, <2>3 DEF get_recommendations
<1>3. DOMAIN list_courses = 1..6
  BY CatalogIsKnown DEF list_courses
<1>. QED
  BY <1>1, <1>2, <1>3 DEF PagesAgree

(* The invariant holds of every behaviour.                                  *)
LEMMA LearningInvariant == LearningSpec => []LearningInv
<1>1. TransactionsInit /\ LearningInit => LearningInv
  <2>. SUFFICES ASSUME TransactionsInit, LearningInit PROVE LearningInv
    OBVIOUS
  <2>1. /\ Table /\ \A r \in Requests : txn[r].op = "idle"
    BY DEF TransactionsInit, Table, Idle
  <2>2. DOMAIN enrollments = {} /\ lessonProgress = {} /\ certificates = {}
    BY DEF LearningInit
  <2>3. \A id \in Catalog : CourseCounted(id)
    BY <2>2 DEF CourseCounted, completed_lesson_ids
  <2>. QED
    BY <2>1, <2>2, <2>3 DEF LearningInv, Studies, OneStudies, Holds
<1>2. LearningInv /\ [LearningNext]_<<learningVars, txnVars>> => LearningInv'
  <2>. SUFFICES ASSUME LearningInv, [LearningNext]_<<learningVars, txnVars>> PROVE LearningInv'
    OBVIOUS
  <2>1. ASSUME NEW r \in Requests, LearningStep(r) \/ (Rollback(r) /\ UNCHANGED learningVars)
        PROVE  LearningInv'
    BY <2>1, LearningBeginSteps, EnrollmentStep, LessonStep DEF LearningStep
  <2>2. CASE UNCHANGED <<learningVars, txnVars>>
    <3>1. UNCHANGED <<enrollments, lessonProgress, certificates, txn, served>>
      BY <2>2 DEF learningVars, txnVars
    <3>. QED
      BY <3>1 DEF LearningInv, Table, CourseCounted, Studies, Studying, OneStudies, Holds
  <2>. QED
    BY <2>1, <2>2 DEF LearningNext
<1>. QED
  BY <1>1, <1>2, PTL DEF LearningSpec

(* Every page shows the same of a course, of any that are studied and by    *)
(* any number of requests: its progress is that of the lessons done, it is  *)
(* certified and completed when all are, and what is completed is not       *)
(* recommended and not to be continued.                                     *)
THEOREM PagesShowTheSame == LearningSpec => []PagesAgree
  BY LearningInvariant, CountedCoursesAgree, PTL

(* Who studies studies what can be.                                         *)
StudiesOffered(t) ==
    t.op \in {"enroll", "found", "enrolled", "complete_lesson", "studied"} => t.course \in Studied

EnrollmentsInv ==
    /\ \A c \in DOMAIN enrollments : c \in Studied /\ enrollments[c] \in Enrollment
    /\ certificateJobs = certificates
    /\ \A r \in Requests : StudiesOffered(txn[r])

(* A request begins, goes on, commits or fails, and leaves rows of a type.  *)
LEMMA EnrollmentsGo ==
  ASSUME LearningInv, EnrollmentsInv, NEW r \in Requests, NEW t,
         Begin(r, t) \/ Go(r, t) \/ (Commit(r) /\ t = Idle) \/ (Rollback(r) /\ t = Idle),
         StudiesOffered(t), certificateJobs' = certificates',
         \A c \in DOMAIN enrollments' : c \in Studied /\ enrollments'[c] \in Enrollment
  PROVE  EnrollmentsInv'
<1>1. txn'[r] = t /\ \A q \in Requests \ {r} : txn'[q] = txn[q]
  BY TableStep DEF Begin, Go, Commit, Rollback, LearningInv, Table
<1>. QED
  BY <1>1 DEF EnrollmentsInv, StudiesOffered

(* Every step of a request.                                                 *)
LEMMA EnrollmentsStep ==
  ASSUME LearningInv, EnrollmentsInv, NEW r \in Requests,
         LearningStep(r) \/ (Rollback(r) /\ UNCHANGED learningVars)
  PROVE  EnrollmentsInv'
<1>. PICK u : u = txn[r]
  OBVIOUS
<1>1. /\ StudiesOffered(u) /\ Studies(u) /\ certificateJobs = certificates
      /\ \A c \in DOMAIN enrollments : c \in Studied /\ enrollments[c] \in Enrollment
  BY DEF EnrollmentsInv, LearningInv
<1>2. StudiesOffered(Idle)
  BY DEF StudiesOffered, Idle
<1>3. CASE create_enrollment(r) \/ update_lesson_progress(r)
  <2>1. UNCHANGED learningVars /\ \E t : Begin(r, t) /\ t.course \in Studied
    <3>1. CASE create_enrollment(r)
      <4>1. PICK c \in Studied : Begin(r, [op |-> "enroll", course |-> c])
        BY <3>1 DEF create_enrollment
      <4>. PICK t : t = [op |-> "enroll", course |-> c]
        OBVIOUS
      <4>2. Begin(r, t) /\ t.course = c
        BY <4>1
      <4>. QED
        BY <3>1, <4>2 DEF create_enrollment
    <3>2. CASE update_lesson_progress(r)
      <4>1. PICK l \in LESSONS :
              l[1] \in Studied /\ Begin(r, [op |-> "complete_lesson", course |-> l[1], lesson |-> l])
        BY <3>2 DEF update_lesson_progress
      <4>. PICK t : t = [op |-> "complete_lesson", course |-> l[1], lesson |-> l]
        OBVIOUS
      <4>2. Begin(r, t) /\ t.course = l[1]
        BY <4>1
      <4>. QED
        BY <3>2, <4>1, <4>2 DEF update_lesson_progress
    <3>. QED
      BY <1>3, <3>1, <3>2
  <2>. PICK t : Begin(r, t) /\ t.course \in Studied
    BY <2>1
  <2>. QED
    BY <1>1, <2>1, EnrollmentsGo DEF StudiesOffered, learningVars
<1>4. CASE get_or_create_enrollment(r)
  <2>. PICK op : op = IF u.course \in DOMAIN enrollments THEN "found" ELSE "enrolled"
    OBVIOUS
  <2>1. u.op = "enroll" /\ Go(r, [op |-> op, course |-> u.course]) /\ UNCHANGED learningVars
    BY <1>4 DEF get_or_create_enrollment, Doing
  <2>. PICK t : t = [op |-> op, course |-> u.course]
    OBVIOUS
  <2>2. Go(r, t) /\ t.course = u.course
    BY <2>1
  <2>. QED
    BY <1>1, <2>1, <2>2, EnrollmentsGo DEF StudiesOffered, learningVars
<1>5. CASE complete_lesson(r)
  <2>1. u.op = "complete_lesson" /\ Go(r, Studying(u)) /\ UNCHANGED learningVars
    BY <1>5 DEF complete_lesson, Doing
  <2>. PICK t : t = Studying(u)
    OBVIOUS
  <2>2. Go(r, t) /\ t.course = u.course
    BY <2>1 DEF Studying
  <2>. QED
    BY <1>1, <2>1, <2>2, EnrollmentsGo DEF StudiesOffered, learningVars
<1>6. CASE CommitEnrollment(r)
  <2>. PICK row : row = [progress |-> 0, completed |-> FALSE]
    OBVIOUS
  <2>1. /\ Commit(r) /\ certificateJobs' = certificates' /\ u.op \in {"found", "enrolled"}
        /\ \/ enrollments' = enrollments
           \/ enrollments' = Put(enrollments, u.course, row)
    BY <1>1, <1>6 DEF CommitEnrollment
  <2>2. row \in Enrollment /\ u.course \in Studied
    BY <1>1, <2>1 DEF Enrollment, StudiesOffered
  <2>3. ASSUME NEW c \in DOMAIN enrollments' PROVE c \in Studied /\ enrollments'[c] \in Enrollment
    <3>1. CASE enrollments' = enrollments
      BY <1>1, <3>1
    <3>2. CASE enrollments' = Put(enrollments, u.course, row)
      <4>1. /\ c \in DOMAIN enrollments \cup {u.course}
            /\ enrollments'[c] = IF c = u.course THEN row ELSE enrollments[c]
        BY <3>2 DEF Put
      <4>. QED
        BY <1>1, <2>2, <4>1
    <3>. QED
      BY <2>1, <3>1, <3>2
  <2>. QED
    BY <1>2, <2>1, <2>3, EnrollmentsGo
<1>7. CASE CommitLesson(r)
  <2>. DEFINE c == u.course
              done == lessonProgress \cup {u.lesson}
              before == c \in DOMAIN enrollments /\ enrollments[c].completed
  <2>1. /\ Commit(r) /\ certificateJobs' = certificates' /\ u.op = "studied"
        /\ enrollments' = Put(enrollments, c, [progress |-> u.progress, completed |-> before \/ u.issue])
    BY <1>1, <1>7 DEF CommitLesson, Doing
  <2>2. c \in Studied /\ c \in Catalog /\ done \subseteq LESSONS
    <3>1. c \in Studied
      BY <1>1, <2>1 DEF StudiesOffered
    <3>2. c \in Catalog /\ u.lesson \in LESSONS
      BY <1>1, <2>1 DEF Studies
    <3>3. lessonProgress \subseteq LESSONS
      BY DEF LearningInv
    <3>. QED
      BY <3>1, <3>2, <3>3
  <2>3. u.progress = course_progress(done, c) /\ u.issue = (u.progress = 100 /\ ~before)
    <3>1. u = Studying(u)
      BY <1>1, <2>1 DEF Studies
    <3>2. u.progress = course_progress(done, c)
      BY <3>1 DEF Studying
    <3>. PICK p : p = course_progress(done, c)
      OBVIOUS
    <3>3. u.issue = (p = 100 /\ ~before)
      BY <3>1 DEF Studying
    <3>. QED
      BY <3>2, <3>3
  <2>4. course_progress(done, c) \in 0..100
    BY <2>2, ProgressOfCourse
  <2>5. u.progress \in 0..100
    BY <2>3, <2>4
  <2>6. (before \/ u.issue) \in BOOLEAN
    BY <2>3
  <2>. HIDE DEF c, done, before
  <2>. PICK row : row = [progress |-> u.progress, completed |-> before \/ u.issue]
    OBVIOUS
  <2>7. row \in Enrollment
    BY <2>5, <2>6 DEF Enrollment
  <2>8. \A k \in DOMAIN enrollments' : k \in Studied /\ enrollments'[k] \in Enrollment
    BY <1>1, <2>1, <2>2, <2>7 DEF Put
  <2>. QED
    BY <1>2, <2>1, <2>8, EnrollmentsGo
<1>8. CASE Rollback(r) /\ UNCHANGED learningVars
  BY <1>1, <1>2, <1>8, EnrollmentsGo DEF learningVars
<1>. QED
  BY <1>3, <1>4, <1>5, <1>6, <1>7, <1>8 DEF LearningStep

(* Only courses that are offered are enrolled in, progress is a percentage, *)
(* and with every certificate goes its job, however lessons interleave.     *)
THEOREM EnrollmentsAreTyped ==
  LearningSpec => []( /\ \A c \in DOMAIN enrollments : c \in Studied /\ enrollments[c] \in Enrollment
                      /\ lessonProgress \subseteq LESSONS /\ certificateJobs = certificates )
<1>1. TransactionsInit /\ LearningInit => EnrollmentsInv
  <2>. SUFFICES ASSUME TransactionsInit, LearningInit PROVE EnrollmentsInv
    OBVIOUS
  <2>1. DOMAIN enrollments = {} /\ certificateJobs = certificates
    BY DEF LearningInit
  <2>2. \A r \in Requests : txn[r].op = "idle"
    BY DEF TransactionsInit, Idle
  <2>. QED
    BY <2>1, <2>2 DEF EnrollmentsInv, StudiesOffered
<1>2. LearningInv /\ EnrollmentsInv /\ [LearningNext]_<<learningVars, txnVars>> => EnrollmentsInv'
  <2>. SUFFICES ASSUME LearningInv, EnrollmentsInv, [LearningNext]_<<learningVars, txnVars>>
                PROVE  EnrollmentsInv'
    OBVIOUS
  <2>1. CASE LearningNext
    BY <2>1, EnrollmentsStep DEF LearningNext
  <2>2. CASE UNCHANGED <<learningVars, txnVars>>
    BY <2>2 DEF learningVars, txnVars, EnrollmentsInv, StudiesOffered
  <2>. QED
    BY <2>1, <2>2
<1>3. LearningInv /\ EnrollmentsInv =>
        /\ \A c \in DOMAIN enrollments : c \in Studied /\ enrollments[c] \in Enrollment
        /\ lessonProgress \subseteq LESSONS /\ certificateJobs = certificates
  BY DEF LearningInv, EnrollmentsInv
<1>. QED
  BY <1>1, <1>2, <1>3, LearningInvariant, PTL DEF LearningSpec
=============================================================================
