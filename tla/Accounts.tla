------------------------------ MODULE Accounts ------------------------------
(***************************************************************************)
(* One e-mail address from sign-up on: the links it is mailed to verify    *)
(* itself and to reset the password (src/app/services/auth/tokens.py and   *)
(* the endpoints of src/app/api/v1/endpoints/auth), and its failed logins. *)
(* A link is a row; the statement that claims it or makes it void locks    *)
(* it.  The refresh sessions are in Sessions.                              *)
(***************************************************************************)
EXTENDS Transactions, Sequences, SequencesExt, FiniteSetsExt, Functions, TLC

CONSTANTS
    LOGIN_MAX_FAILS,
    Spellings   \* of the address, in upper and lower case; the user's row knows them as one

ASSUME LockoutAssumption == LOGIN_MAX_FAILS \in Nat \ {0}

VARIABLES
    account,    \* the user's row, NoAccount before sign-up
    authTokens, \* id -> link
    issued,     \* links made, by rolled back requests too
    mailed,     \* links the address was sent
    cooldown,   \* purpose and spelling for which Redis holds a mail back
    uses,       \* links committed requests were let in by
    older       \* link -> links that were stored when it was asked for

accountVars == <<account, authTokens, issued, mailed, cooldown, uses, older>>

Purposes == {"email_verification", "password_reset"}
NoAccount == [status |-> "none"]
Account ==
    [status : {"pending_verification", "active"}, fails : 0..LOGIN_MAX_FAILS - 1,
     locked : {"no", "until", "past"}]
AuthToken == [purpose : Purposes, state : {"live", "consumed", "expired"}]

AccountInit ==
    /\ account = NoAccount /\ authTokens = << >> /\ issued = 0
    /\ mailed = {} /\ cooldown = {} /\ uses = << >> /\ older = << >>

-----------------------------------------------------------------------------
Live(purpose) ==
    {t \in DOMAIN authTokens : authTokens[t].purpose = purpose /\ authTokens[t].state = "live"}

(* Rows that requests in progress have written.                             *)
HeldTokens == UNION {IF txn[q].op \in {"claimed", "linked"} THEN txn[q].tokens ELSE {} : q \in Requests}

(* issue_auth_token, and the mail, which is out before the commit.          *)
issue_auth_token(r, purpose, void, before) ==
    /\ issued' = issued + 1
    /\ mailed' = mailed \cup {issued'}
    /\ Go(r, [op |-> "linked", purpose |-> purpose, tokens |-> void, older |-> before, new |-> issued'])

(* An address that is taken is refused; of two requests that insert it, the *)
(* second waits for the first and fails when that one commits.              *)
signup(r) ==
    /\ account = NoAccount
    /\ Begin(r, [op |-> "signup"])
    /\ UNCHANGED accountVars

InsertUser(r) ==
    /\ Doing(r, "signup") /\ account = NoAccount
    /\ ~\E q \in Requests : Doing(q, "linked")
    /\ issue_auth_token(r, "email_verification", {}, {})
    /\ UNCHANGED <<account, authTokens, cooldown, uses, older>>

(* Redis lets one request per minute through, of those that spell the       *)
(* address alike.                                                           *)
Throttled(purpose, spelling) == <<purpose, spelling>> \in cooldown

(* For an address without a user who may have the link, nothing follows.    *)
LetThrough(r, purpose, found) ==
    /\ \E s \in Spellings : ~Throttled(purpose, s) /\ cooldown' = cooldown \cup {<<purpose, s>>}
    /\ Begin(r, [op |-> IF found THEN "link" ELSE "nobody", purpose |-> purpose,
                 older |-> DOMAIN authTokens])
    /\ UNCHANGED <<account, authTokens, issued, mailed, uses, older>>

resend(r) == LetThrough(r, "email_verification", account.status = "pending_verification")

forgot(r) == LetThrough(r, "password_reset", account # NoAccount)

(* Mutant of invalidate_unconsumed_tokens: it skips what others hold.       *)
invalidate_unlocked_tokens(r) ==
    /\ Doing(r, "link")
    /\ Go(r, [op |-> "voiding", purpose |-> txn[r].purpose,
              tokens |-> Live(txn[r].purpose) \ HeldTokens, older |-> txn[r].older])
    /\ UNCHANGED accountVars

(* One statement: it finds the links that are live when it starts, ...      *)
invalidate_unconsumed_tokens(r) ==
    /\ Doing(r, "link")
    /\ Go(r, [op |-> "voiding", purpose |-> txn[r].purpose, tokens |-> Live(txn[r].purpose),
              older |-> txn[r].older])
    /\ UNCHANGED accountVars

(* ... waits for those that others hold, and makes void what is live then;  *)
(* a link that was committed meanwhile is none of them.                     *)
_send_verification(r) ==
    LET t == txn[r] IN
    /\ Doing(r, "voiding") /\ t.tokens \cap HeldTokens = {}
    /\ issue_auth_token(r, t.purpose, t.tokens \cap Live(t.purpose), t.older)
    /\ UNCHANGED <<account, authTokens, cooldown, uses, older>>

CommitLink(r) ==
    LET t == txn[r] IN
    /\ Doing(r, "linked")
    /\ account' = IF account # NoAccount THEN account
                  ELSE [status |-> "pending_verification", fails |-> 0, locked |-> "no"]
    /\ authTokens' = Put([i \in DOMAIN authTokens |->
                            IF i \in t.tokens THEN [authTokens[i] EXCEPT !.state = "consumed"]
                                              ELSE authTokens[i]],
                          t.new, [purpose |-> t.purpose, state |-> "live"])
    /\ older' = Put(older, t.new, t.older)
    /\ Commit(r)
    /\ UNCHANGED <<issued, mailed, cooldown, uses>>

CooldownOver ==
    /\ \E key \in cooldown : cooldown' = cooldown \ {key}
    /\ UNCHANGED <<account, authTokens, issued, mailed, uses, older, txnVars>>

LinkExpired ==
    /\ \E t \in DOMAIN authTokens :
         /\ authTokens[t].state = "live" /\ t \notin HeldTokens
         /\ authTokens' = [authTokens EXCEPT ![t].state = "expired"]
    /\ UNCHANGED <<account, issued, mailed, cooldown, uses, older, txnVars>>

-----------------------------------------------------------------------------
(* A mailed link is clicked, or clicked again.                              *)
Click(r) ==
    /\ \E t \in mailed : Begin(r, [op |-> "click", tokens |-> {t}])
    /\ UNCHANGED accountVars

Claimable(tokens) ==
    \A t \in tokens : t \in DOMAIN authTokens /\ authTokens[t].state = "live"

(* Mutant of consume_auth_token: read, and written without a look.          *)
consume_as_read(r) ==
    /\ Doing(r, "click") /\ Claimable(txn[r].tokens)
    /\ Go(r, [op |-> "claimed", tokens |-> txn[r].tokens])
    /\ UNCHANGED accountVars

(* One statement: it waits for the row and then finds it live, or fails.    *)
consume_auth_token(r) ==
    /\ Doing(r, "click") /\ txn[r].tokens \cap HeldTokens = {} /\ Claimable(txn[r].tokens)
    /\ Go(r, [op |-> "claimed", tokens |-> txn[r].tokens])
    /\ UNCHANGED accountVars

CommitUse(r, purpose) ==
    LET t == CHOOSE i \in txn[r].tokens : TRUE IN
    /\ Doing(r, "claimed") /\ authTokens[t].purpose = purpose
    /\ authTokens' = [authTokens EXCEPT ![t].state = "consumed"]
    /\ uses' = Append(uses, t)
    /\ Commit(r)
    /\ UNCHANGED <<issued, mailed, cooldown, older>>

verify(r) ==
    /\ CommitUse(r, "email_verification")
    /\ account' = [account EXCEPT !.status = "active"]

reset(r) == CommitUse(r, "password_reset") /\ UNCHANGED account

-----------------------------------------------------------------------------
(* A login loads the row; what it commits is what it has changed in it.  A  *)
(* lockout keeps everyone out until it is past.                             *)
login(r) ==
    /\ account # NoAccount /\ account.locked # "until"
    /\ \E ok \in BOOLEAN : Begin(r, [op |-> "login", ok |-> ok, loaded |-> account])
    /\ UNCHANGED accountVars

LoggedIn(loaded) == [loaded EXCEPT !.fails = 0, !.locked = "no"]

LoginFailed(loaded) ==
    IF loaded.fails + 1 >= LOGIN_MAX_FAILS
    THEN [loaded EXCEPT !.fails = 0, !.locked = "until"]
    ELSE [loaded EXCEPT !.fails = @ + 1]

CommitLogin(r) ==
    LET was == txn[r].loaded
        is == IF txn[r].ok THEN LoggedIn(was) ELSE LoginFailed(was)
    IN  /\ Doing(r, "login")
        /\ account' = [account EXCEPT !.fails = IF is.fails = was.fails THEN @ ELSE is.fails,
                                      !.locked = IF is.locked = was.locked THEN @ ELSE is.locked]
        /\ Commit(r)
        /\ UNCHANGED <<authTokens, issued, mailed, cooldown, uses, older>>

LockoutOver ==
    /\ account # NoAccount /\ account.locked = "until"
    /\ account' = [account EXCEPT !.locked = "past"]
    /\ UNCHANGED <<authTokens, issued, mailed, cooldown, uses, older, txnVars>>

AccountStep(r) ==
    \/ signup(r) \/ InsertUser(r) \/ resend(r) \/ forgot(r)
    \/ invalidate_unconsumed_tokens(r) \/ _send_verification(r) \/ CommitLink(r)
    \/ Click(r) \/ consume_auth_token(r) \/ verify(r) \/ reset(r)
    \/ login(r) \/ CommitLogin(r)

AccountNext ==
    \/ \E r \in Requests : AccountStep(r) \/ (Rollback(r) /\ UNCHANGED accountVars)
    \/ CooldownOver \/ LinkExpired \/ LockoutOver

AccountSpec == TransactionsInit /\ AccountInit /\ [][AccountNext]_<<accountVars, txnVars>>

-----------------------------------------------------------------------------
AccountTypeOK ==
    /\ account = NoAccount \/ account \in Account
    /\ \A t \in DOMAIN authTokens : authTokens[t] \in AuthToken /\ t \in mailed

(* However links are asked for and clicked side by side, a link lets one    *)
(* request in and is then good for none.                                    *)
LinksWorkOnce ==
    /\ IsInjective(uses)
    /\ \A p \in Purposes : Live(p) \cap ToSet(uses) = {}

(* A new link makes void what was there when it was asked for, whoever held *)
(* or claimed it and whatever committed meanwhile.                          *)
OldLinksVoid ==
    \A t \in DOMAIN older : \A u \in older[t] :
      authTokens[u].purpose = authTokens[t].purpose => authTokens[u].state # "live"

(* What invalidate_unconsumed_tokens says it is for: only the newest link   *)
(* of a purpose remains valid.  Two spellings of the address that are let   *)
(* through side by side void nothing of each other.                         *)
OnlyNewestLive ==
    \A p \in Purposes : \A t \in Live(p) :
      \A u \in DOMAIN authTokens : authTokens[u].purpose = p => u <= t
=============================================================================
