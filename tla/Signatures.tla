----------------------------- MODULE Signatures -----------------------------
(***************************************************************************)
(* One signature request and its signers                                   *)
(* (src/app/services/documents/signatures.py), with the transactions of    *)
(* the endpoints that sign, cancel and remind.  A transaction loads the    *)
(* request once and keeps that copy; what it flushes is visible to others  *)
(* only when it commits, and an UPDATE of a row waits for the row's lock.  *)
(***************************************************************************)
EXTENDS Integers, FiniteSets

CONSTANTS
    Signers,
    Visitors,   \* HTTP requests of signers and editors, served at the same time
    MaxMints,   \* bound: links minted by reminders
    NoSigner

ASSUME SignaturesAssumption ==
    Signers # {} /\ IsFiniteSet(Signers) /\ MaxMints \in Nat /\ NoSigner \notin Signers

VARIABLES
    status,     \* signature_requests.status
    expired,    \* expires_at has passed
    signed,     \* signers with signed_at
    token,      \* signer -> the link whose hash is stored
    delivered,  \* signer -> links that reached the signer
    minted,     \* links minted so far
    undone,     \* links of reminders that were rolled back
    completed,  \* document.signature.completed events of committed requests
    at, who,    \* what a request's transaction is doing, and for whom
    todo, link  \* signers a reminder found unsigned, the link it minted

row == <<status, expired, signed, token>>
mailbox == <<delivered, minted, undone>>
visitVars == <<at, who, todo, link>>
signatureVars == <<row, mailbox, completed, visitVars>>

(* The links of the creation are mailed and handed to the editor as well.   *)
SignatureInit ==
    /\ status = "awaiting" /\ expired = FALSE
    /\ signed = {}
    /\ token = [i \in Signers |-> 0]
    /\ delivered = [i \in Signers |-> {0}]
    /\ minted = 0 /\ undone = {} /\ completed = 0
    /\ at = [r \in Visitors |-> "idle"]
    /\ who = [r \in Visitors |-> NoSigner]
    /\ todo = [r \in Visitors |-> {}]
    /\ link = [r \in Visitors |-> 0]

Active == status = "awaiting" /\ ~expired

SignerLocked(i) ==
    \E r \in Visitors : \/ at[r] \in {"signing", "looked", "completing"} /\ who[r] = i
                        \/ at[r] = "reminding" /\ i \in todo[r]
RequestLocked == \E r \in Visitors : at[r] \in {"completing", "cancelling"}

Enter(r, o) == at' = [at EXCEPT ![r] = o]
Leave(r) ==
    /\ at' = [at EXCEPT ![r] = "idle"]
    /\ who' = [who EXCEPT ![r] = NoSigner]
    /\ todo' = [todo EXCEPT ![r] = {}]
    /\ link' = [link EXCEPT ![r] = 0]

-----------------------------------------------------------------------------
(* open_for_signing: by a link the signer was sent, not yet used.           *)
Open(r) ==
    /\ at[r] = "idle" /\ Active
    /\ \E i \in Signers \ signed :
         /\ token[i] \in delivered[i]
         /\ who' = [who EXCEPT ![r] = i]
    /\ Enter(r, "opened")
    /\ UNCHANGED <<row, mailbox, completed, todo, link>>

(* record_signature looks at its own copies again, and at the clock, and    *)
(* flushes signed_at.                                                       *)
WriteSignature(r) ==
    /\ at[r] = "opened" /\ ~expired
    /\ ~SignerLocked(who[r])
    /\ Enter(r, "signing")
    /\ UNCHANGED <<row, mailbox, completed, who, todo, link>>

(* Are all signers signed, as far as is committed and flushed here?         *)
LookIncomplete(r) ==
    /\ at[r] = "signing"
    /\ signed \cup {who[r]} # Signers
    /\ Enter(r, "looked")
    /\ UNCHANGED <<row, mailbox, completed, who, todo, link>>

(* Mutant of LookComplete: one signature short.                             *)
LookAlmostComplete(r) ==
    /\ at[r] = "signing" /\ ~RequestLocked
    /\ Cardinality(signed \cup {who[r]}) >= Cardinality(Signers) - 1
    /\ Enter(r, "completing")
    /\ UNCHANGED <<row, mailbox, completed, who, todo, link>>

LookComplete(r) ==
    /\ at[r] = "signing" /\ ~RequestLocked
    /\ signed \cup {who[r]} = Signers
    /\ Enter(r, "completing")
    /\ UNCHANGED <<row, mailbox, completed, who, todo, link>>

CommitSignature(r) ==
    /\ at[r] \in {"looked", "completing"}
    /\ signed' = signed \cup {who[r]}
    /\ IF at[r] = "completing"
       THEN status' = "complete" /\ completed' = completed + 1
       ELSE UNCHANGED <<status, completed>>
    /\ Leave(r)
    /\ UNCHANGED <<expired, token, mailbox>>

(* cancel_request: reads the status, flushes, and is committed.             *)
BeginCancel(r) ==
    /\ at[r] = "idle" /\ status = "awaiting"
    /\ Enter(r, "cancel")
    /\ UNCHANGED <<row, mailbox, completed, who, todo, link>>

WriteCancel(r) ==
    /\ at[r] = "cancel" /\ ~RequestLocked
    /\ Enter(r, "cancelling")
    /\ UNCHANGED <<row, mailbox, completed, who, todo, link>>

CommitCancel(r) ==
    /\ at[r] = "cancelling"
    /\ status' = "cancelled"
    /\ Leave(r)
    /\ UNCHANGED <<expired, signed, token, mailbox, completed>>

(* reissue_unsigned: a fresh link for every unsigned signer.                *)
BeginRemind(r) ==
    /\ at[r] = "idle" /\ Active /\ minted < MaxMints
    /\ todo' = [todo EXCEPT ![r] = Signers \ signed]
    /\ Enter(r, "remind")
    /\ UNCHANGED <<row, mailbox, completed, who, link>>

(* Mail is best effort: it gets through to some of them, and the reminder   *)
(* goes on.                                                                 *)
_signature_email(signers, new) ==
    \E reached \in SUBSET signers :
      delivered' = [i \in Signers |-> delivered[i] \cup IF i \in reached THEN {new} ELSE {}]

(* Mutant of WriteRemind: mails before the flush that waits for the rows.   *)
RemindBeforeFlush(r) ==
    /\ at[r] = "remind" /\ minted < MaxMints
    /\ minted' = minted + 1
    /\ link' = [link EXCEPT ![r] = minted']
    /\ _signature_email(todo[r], minted')
    /\ Enter(r, "reminding")
    /\ UNCHANGED <<row, undone, completed, who, todo>>

(* The hashes are flushed and the links mailed, before the commit.          *)
WriteRemind(r) ==
    /\ at[r] = "remind" /\ minted < MaxMints
    /\ \A i \in todo[r] : ~SignerLocked(i)
    /\ minted' = minted + 1
    /\ link' = [link EXCEPT ![r] = minted']
    /\ _signature_email(todo[r], minted')
    /\ Enter(r, "reminding")
    /\ UNCHANGED <<row, undone, completed, who, todo>>

CommitRemind(r) ==
    /\ at[r] = "reminding"
    /\ token' = [i \in Signers |-> IF i \in todo[r] THEN link[r] ELSE token[i]]
    /\ Leave(r)
    /\ UNCHANGED <<status, expired, signed, mailbox, completed>>

(* The request fails and is rolled back: what was mailed stays mailed.      *)
Abort(r) ==
    /\ at[r] # "idle"
    /\ undone' = undone \cup IF at[r] = "reminding" THEN {link[r]} ELSE {}
    /\ Leave(r)
    /\ UNCHANGED <<row, delivered, minted, completed>>

Expire ==
    /\ ~expired /\ expired' = TRUE
    /\ UNCHANGED <<status, signed, token, mailbox, completed, visitVars>>

Step(r) ==
    \/ Open(r) \/ WriteSignature(r)
    \/ LookIncomplete(r) \/ LookComplete(r) \/ CommitSignature(r)
    \/ BeginCancel(r) \/ WriteCancel(r) \/ CommitCancel(r)
    \/ BeginRemind(r) \/ WriteRemind(r) \/ CommitRemind(r)
    \/ Abort(r)

SignatureNext == Expire \/ \E r \in Visitors : Step(r)

SignatureSpec == SignatureInit /\ [][SignatureNext]_signatureVars

-----------------------------------------------------------------------------
(* Types; a signer is signed by one transaction at a time.                  *)
SignatureTypeOK ==
    /\ status \in {"awaiting", "complete", "cancelled"} /\ expired \in BOOLEAN
    /\ signed \subseteq Signers
    /\ token \in [Signers -> 0..minted] /\ delivered \in [Signers -> SUBSET (0..minted)]
    /\ minted \in 0..MaxMints /\ undone \subseteq 0..minted /\ completed \in Nat
    /\ at \in [Visitors -> {"idle", "opened", "signing", "looked", "completing",
                            "cancel", "cancelling", "remind", "reminding"}]
    /\ who \in [Visitors -> Signers \cup {NoSigner}]
    /\ todo \in [Visitors -> SUBSET Signers]
    /\ link \in [Visitors -> 0..minted]
    /\ \A r, q \in Visitors :
         r # q /\ who[r] # NoSigner /\ who[r] = who[q] =>
            {at[r], at[q]} \cap {"opened"} # {}

(* Whatever is signed, cancelled and reminded at once, a request is never   *)
(* complete, and its completion never announced, with a signature missing.  *)
CompleteMeansSigned ==
    status = "complete" \/ completed > 0 => signed = Signers

(* Of several reminders at once, any of whose mails may be lost, the last   *)
(* link that an unsigned signer received is never newer than the one        *)
(* stored, unless its reminder is still under way or was rolled back.       *)
LastLinkCounts ==
    \A i \in Signers \ signed : \A l \in delivered[i] :
      l > token[i] => l \in undone \/ \E r \in Visitors : at[r] = "reminding" /\ link[r] = l

=============================================================================
