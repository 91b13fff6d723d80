-------------------------- MODULE SignaturesProofs --------------------------
(***************************************************************************)
(* Types, completion and reminders of a signature request, proved for any  *)
(* set of signers and any number of requests at once.  The invariants that *)
(* carry the proofs are about transactions on their way to commit: one     *)
(* that has decided on completion saw all other signatures committed, and  *)
(* none is ever undone; one that is about to store a link holds the rows   *)
(* of its signers, who were sent no later one.                             *)
(***************************************************************************)
EXTENDS Signatures, TLAPS

Shape ==
    /\ signed \subseteq Signers
    /\ at \in [Visitors -> {"idle", "opened", "signing", "looked", "completing",
                            "cancel", "cancelling", "remind", "reminding"}]
    /\ who \in [Visitors -> Signers \cup {NoSigner}]
    /\ todo \in [Visitors -> SUBSET Signers]
    /\ completed \in Nat

Named == \A r \in Visitors :
            at[r] \in {"opened", "signing", "looked", "completing"} => who[r] \in Signers

Decided == \A r \in Visitors : at[r] = "completing" => signed \cup {who[r]} = Signers

IInv == Shape /\ Named /\ Decided /\ CompleteMeansSigned

(* Every step keeps the shape, and a transaction that signs has a signer.   *)
LEMMA ShapeStep == Shape /\ Named /\ [SignatureNext]_signatureVars => Shape' /\ Named'
PROOF
<1> SUFFICES ASSUME Shape, Named, [SignatureNext]_signatureVars PROVE Shape' /\ Named'
    OBVIOUS
<1>1. ASSUME NEW r \in Visitors, Step(r) PROVE Shape' /\ Named'
  <2>1. CASE Open(r)
    BY <2>1 DEF Open, Enter, Shape, Named, row
  <2>2. CASE WriteSignature(r) \/ LookIncomplete(r) \/ LookComplete(r)
    BY <2>2 DEF WriteSignature, LookIncomplete, LookComplete, Enter, Shape, Named, row
  <2>3. CASE CommitSignature(r)
    BY <2>3 DEF CommitSignature, Leave, Shape, Named
  <2>4. CASE BeginCancel(r) \/ WriteCancel(r) \/ BeginRemind(r) \/ WriteRemind(r)
    BY <2>4 DEF BeginCancel, WriteCancel, BeginRemind, WriteRemind, Enter, Shape, Named, row
  <2>5. CASE CommitCancel(r) \/ CommitRemind(r) \/ Abort(r)
    BY <2>5 DEF CommitCancel, CommitRemind, Abort, Leave, Shape, Named, row
  <2> QED BY <1>1, <2>1, <2>2, <2>3, <2>4, <2>5 DEF Step
<1>2. CASE Expire \/ UNCHANGED signatureVars
  BY <1>2 DEF Expire, signatureVars, row, visitVars, Shape, Named
<1> QED BY <1>1, <1>2 DEF SignatureNext

(* Only a step that commits a signature touches what was decided, and it    *)
(* only adds to it.                                                         *)
LEMMA DecidedStep == Shape /\ Named /\ Decided /\ [SignatureNext]_signatureVars => Decided'
PROOF
<1> SUFFICES ASSUME Shape, Named, Decided, [SignatureNext]_signatureVars PROVE Decided'
    OBVIOUS
<1>1. ASSUME NEW r \in Visitors, Step(r) PROVE Decided'
  <2>1. CASE LookComplete(r)
    BY <2>1 DEF LookComplete, Enter, Decided, Shape, row
  <2>2. CASE CommitSignature(r)
    <3>1. signed' = signed \cup {who[r]} /\ who[r] \in Signers
      BY <2>2 DEF CommitSignature, Named
    <3>2. \A q \in Visitors : at'[q] = "completing" => at[q] = "completing" /\ who'[q] = who[q]
      BY <2>2 DEF CommitSignature, Leave, Shape
    <3> QED BY <3>1, <3>2 DEF Decided, Shape
  <2>3. CASE Open(r) \/ WriteSignature(r) \/ LookIncomplete(r) \/ BeginCancel(r)
             \/ WriteCancel(r) \/ BeginRemind(r) \/ WriteRemind(r)
    BY <2>3 DEF Open, WriteSignature, LookIncomplete, BeginCancel, WriteCancel,
       BeginRemind, WriteRemind, Enter, Decided, Shape, row
  <2>4. CASE CommitCancel(r) \/ CommitRemind(r) \/ Abort(r)
    BY <2>4 DEF CommitCancel, CommitRemind, Abort, Leave, Decided, Shape, row
  <2> QED BY <1>1, <2>1, <2>2, <2>3, <2>4 DEF Step
<1>2. CASE Expire \/ UNCHANGED signatureVars
  BY <1>2 DEF Expire, signatureVars, row, visitVars, Decided
<1> QED BY <1>1, <1>2 DEF SignatureNext

(* Only a transaction that saw every signature makes the request complete.  *)
LEMMA CompleteStep ==
    Shape /\ Named /\ Decided /\ CompleteMeansSigned /\ [SignatureNext]_signatureVars => CompleteMeansSigned'
PROOF
<1> SUFFICES ASSUME Shape, Named, Decided, CompleteMeansSigned, [SignatureNext]_signatureVars
             PROVE  CompleteMeansSigned'
    OBVIOUS
<1>1. ASSUME NEW r \in Visitors, CommitSignature(r) PROVE CompleteMeansSigned'
  <2>1. signed' = signed \cup {who[r]} /\ who[r] \in Signers
    BY <1>1 DEF CommitSignature, Named
  <2>2. CASE at[r] = "completing"
    BY <2>1, <2>2 DEF Decided, CompleteMeansSigned
  <2>3. CASE at[r] # "completing"
    BY <1>1, <2>1, <2>3 DEF CommitSignature, CompleteMeansSigned, Shape
  <2> QED BY <2>2, <2>3
<1>2. ASSUME NEW r \in Visitors, CommitCancel(r) PROVE CompleteMeansSigned'
  BY <1>2 DEF CommitCancel, CompleteMeansSigned
<1>3. CASE UNCHANGED <<status, signed, completed>>
  BY <1>3 DEF CompleteMeansSigned
<1>4. \/ \E r \in Visitors : CommitSignature(r)
      \/ \E r \in Visitors : CommitCancel(r)
      \/ UNCHANGED <<status, signed, completed>>
  BY DEF SignatureNext, Step, Expire, Open, WriteSignature, LookIncomplete, LookComplete, BeginCancel,
     WriteCancel, BeginRemind, WriteRemind, CommitRemind, Abort, signatureVars, row
<1> QED BY <1>1, <1>2, <1>3, <1>4

(* A request is complete, and announced as complete, only with every        *)
(* signature there.                                                         *)
THEOREM CompletionIsEarned == SignatureSpec => []CompleteMeansSigned
PROOF
<1>1. SignatureInit => IInv
  BY SignaturesAssumption DEF SignatureInit, IInv, Shape, Named, Decided, CompleteMeansSigned
<1>2. IInv /\ [SignatureNext]_signatureVars => IInv'
  BY ShapeStep, DecidedStep, CompleteStep DEF IInv
<1>3. IInv => CompleteMeansSigned
  BY DEF IInv
<1> QED BY <1>1, <1>2, <1>3, PTL DEF SignatureSpec

-----------------------------------------------------------------------------
(* Reminders.                                                               *)

(* Two reminders on their way to commit hold the rows of different signers. *)
RemindersApart ==
    \A r, q \in Visitors : r # q /\ at[r] = "reminding" /\ at[q] = "reminding" =>
                              todo[r] \cap todo[q] = {}

(* No signer whose row a reminder holds has, or was sent, a later link.     *)
LastMinted ==
    \A r \in Visitors : at[r] = "reminding" =>
      \A i \in todo[r] : token[i] <= link[r] /\ \A l \in delivered[i] : l <= link[r]

Underway(i, l) == \E r \in Visitors : at[r] = "reminding" /\ i \in todo[r] /\ link[r] = l

(* A later link that reached a signer is of a reminder that failed, or that *)
(* holds the signer's row.                                                  *)
LaterLinks ==
    \A i \in Signers : \A l \in delivered[i] : l > token[i] => l \in undone \/ Underway(i, l)

LinkTypes ==
    /\ minted \in Nat
    /\ token \in [Signers -> Nat] /\ delivered \in [Signers -> SUBSET Nat]
    /\ at \in [Visitors -> {"idle", "opened", "signing", "looked", "completing",
                            "cancel", "cancelling", "remind", "reminding"}]
    /\ todo \in [Visitors -> SUBSET Signers] /\ link \in [Visitors -> Nat]

Numbered ==
    /\ \A i \in Signers : token[i] <= minted /\ \A l \in delivered[i] : l <= minted
    /\ \A r \in Visitors : at[r] = "reminding" => link[r] <= minted

LinkInv == LinkTypes /\ Numbered /\ RemindersApart /\ LastMinted /\ LaterLinks

(* The flush waits for the rows, so the link is the last each of its        *)
(* signers has, and it is mailed to some of them.                           *)
LEMMA RemindersWait ==
  ASSUME LinkInv, NEW r \in Visitors, WriteRemind(r)
  PROVE  LinkInv'
<1> USE DEF LinkInv
<1>1. /\ minted' = minted + 1 /\ minted \in Nat
      /\ link' = [link EXCEPT ![r] = minted']
      /\ at' = [at EXCEPT ![r] = "reminding"]
      /\ at[r] = "remind" /\ UNCHANGED <<token, todo, undone>>
  BY DEF WriteRemind, Enter, row, LinkTypes
<1>2. PICK reached \in SUBSET todo[r] :
        delivered' = [i \in Signers |-> delivered[i] \cup IF i \in reached THEN {minted'} ELSE {}]
  BY DEF WriteRemind, _signature_email
<1>3. /\ at'[r] = "reminding" /\ link'[r] = minted + 1
      /\ \A q \in Visitors \ {r} : at'[q] = at[q] /\ link'[q] = link[q]
  BY <1>1 DEF LinkTypes
<1>4. \A i \in Signers : \A l \in delivered'[i] :
        l \in delivered[i] \/ (l = minted + 1 /\ i \in todo[r])
  BY <1>1, <1>2
<1>5. \A i \in todo[r] : \A q \in Visitors : at[q] = "reminding" => i \notin todo[q]
  BY DEF WriteRemind, SignerLocked
<1>6. todo[r] \subseteq Signers
  BY DEF LinkTypes
<1>7. LinkTypes'
  BY <1>1, <1>2 DEF LinkTypes
<1>8. Numbered'
  <2>1. ASSUME NEW i \in Signers
        PROVE  token[i] <= minted + 1 /\ \A l \in delivered'[i] : l <= minted + 1
    <3>1. token[i] \in Nat /\ delivered[i] \subseteq Nat
      BY DEF LinkTypes
    <3>. QED
      BY <1>1, <1>4, <3>1 DEF Numbered
  <2>2. ASSUME NEW q \in Visitors, at'[q] = "reminding" PROVE link'[q] <= minted + 1
    BY <1>1, <1>3, <2>2 DEF Numbered, LinkTypes
  <2>. QED
    BY <1>1, <2>1, <2>2 DEF Numbered
<1>9. RemindersApart'
  BY <1>1, <1>3, <1>5 DEF RemindersApart
<1>10. LastMinted'
  <2>. SUFFICES ASSUME NEW q \in Visitors, at'[q] = "reminding", NEW i \in todo[q]
                PROVE  token[i] <= link'[q] /\ \A l \in delivered'[i] : l <= link'[q]
    BY <1>1 DEF LastMinted
  <2>0. i \in Signers /\ token[i] \in Nat /\ delivered[i] \subseteq Nat
    BY DEF LinkTypes
  <2>1. CASE q = r
    BY <1>1, <1>3, <1>4, <2>0, <2>1 DEF Numbered
  <2>2. CASE q # r
    <3>1. at[q] = "reminding" /\ link'[q] = link[q] /\ i \notin todo[r]
      BY <1>3, <1>5, <2>2
    <3>2. \A l \in delivered'[i] : l \in delivered[i]
      BY <1>4, <2>0, <3>1
    <3>. QED
      BY <3>1, <3>2 DEF LastMinted
  <2>. QED
    BY <2>1, <2>2
<1>11. LaterLinks'
  <2>. SUFFICES ASSUME NEW i \in Signers, NEW l \in delivered'[i], l > token[i], l \notin undone
                PROVE  Underway(i, l)'
    BY <1>1 DEF LaterLinks
  <2>1. CASE l \in delivered[i]
    <3>1. PICK q \in Visitors : at[q] = "reminding" /\ i \in todo[q] /\ link[q] = l
      BY <2>1 DEF LaterLinks, Underway
    <3>. QED
      BY <1>1, <1>3, <3>1 DEF Underway
  <2>2. CASE l = minted + 1 /\ i \in todo[r]
    BY <1>1, <1>3, <2>2 DEF Underway
  <2>. QED
    BY <1>4, <2>1, <2>2
<1>. QED
  BY <1>7, <1>8, <1>9, <1>10, <1>11

(* A reminder that ends is no longer under way: what it mailed is stored    *)
(* now, or was rolled back.                                                 *)
LEMMA RemindersEnd ==
  ASSUME LinkInv, NEW r \in Visitors, CommitRemind(r) \/ Abort(r)
  PROVE  LinkInv'
<1> USE DEF LinkInv
<1>1. /\ at' = [at EXCEPT ![r] = "idle"] /\ todo' = [todo EXCEPT ![r] = {}]
      /\ link' = [link EXCEPT ![r] = 0] /\ UNCHANGED <<delivered, minted>>
  BY DEF CommitRemind, Abort, Leave, mailbox
<1>2. /\ at'[r] = "idle"
      /\ \A q \in Visitors \ {r} : at'[q] = at[q] /\ todo'[q] = todo[q] /\ link'[q] = link[q]
  BY <1>1 DEF LinkTypes
<1>3. /\ CommitRemind(r) =>
           /\ at[r] = "reminding"
           /\ \A i \in Signers : token'[i] = IF i \in todo[r] THEN link[r] ELSE token[i]
      /\ ~CommitRemind(r) => token' = token
  BY DEF CommitRemind, Abort, row, LinkTypes
<1>4. ~CommitRemind(r) /\ at[r] = "reminding" => undone' = undone \cup {link[r]}
  BY DEF Abort
<1>5. undone \subseteq undone'
  BY DEF CommitRemind, Abort, mailbox
<1>6. LinkTypes'
  <2>1. token' \in [Signers -> Nat]
    BY DEF CommitRemind, Abort, row, LinkTypes
  <2>. QED
    BY <1>1, <2>1 DEF LinkTypes
<1>7. Numbered'
  <2>1. \A q \in Visitors : at'[q] = "reminding" => link'[q] <= minted
    BY <1>2 DEF Numbered
  <2>. QED
    BY <1>1, <1>3, <2>1 DEF Numbered
<1>8. RemindersApart'
  BY <1>2 DEF RemindersApart
<1>9. LastMinted'
  <2>. SUFFICES ASSUME NEW q \in Visitors, at'[q] = "reminding", NEW i \in todo'[q]
                PROVE  token'[i] <= link'[q] /\ \A l \in delivered'[i] : l <= link'[q]
    BY DEF LastMinted
  <2>1. q # r /\ at[q] = "reminding" /\ i \in todo[q] /\ link'[q] = link[q] /\ i \in Signers
    BY <1>2 DEF LinkTypes
  <2>2. token'[i] = token[i]
    BY <1>3, <2>1 DEF RemindersApart
  <2>. QED
    BY <1>1, <2>1, <2>2 DEF LastMinted
<1>10. LaterLinks'
  <2>. SUFFICES ASSUME NEW i \in Signers, NEW l \in delivered[i], l > token'[i], l \notin undone'
                PROVE  Underway(i, l)'
    BY <1>1 DEF LaterLinks
  <2>1. CASE CommitRemind(r) /\ i \in todo[r]
    <3>1. l <= link[r] /\ token'[i] = link[r] /\ l \in Nat /\ link[r] \in Nat
      BY <1>3, <2>1 DEF LastMinted, LinkTypes
    <3>. QED
      BY <3>1
  <2>2. CASE ~(CommitRemind(r) /\ i \in todo[r])
    <3>1. token'[i] = token[i] /\ l \notin undone
      BY <1>3, <1>5, <2>2
    <3>2. PICK q \in Visitors : at[q] = "reminding" /\ i \in todo[q] /\ link[q] = l
      BY <3>1 DEF LaterLinks, Underway
    <3>3. q # r
      BY <1>4, <2>2, <3>2
    <3>. QED
      BY <1>2, <3>2, <3>3 DEF Underway
  <2>. QED
    BY <2>1, <2>2
<1>. QED
  BY <1>6, <1>7, <1>8, <1>9, <1>10

(* Requests that remind nobody, and one that only begins to, leave links    *)
(* and reminders under way as they are.                                     *)
LEMMA OthersLeaveLinks ==
  ASSUME LinkInv, LinkTypes', UNCHANGED <<token, delivered, minted, undone>>,
         \A q \in Visitors : /\ at'[q] = "reminding" <=> at[q] = "reminding"
                             /\ at[q] = "reminding" => todo'[q] = todo[q] /\ link'[q] = link[q]
  PROVE  LinkInv'
<1> USE DEF LinkInv
<1>1. Numbered'
  BY DEF Numbered
<1>2. RemindersApart'
  BY DEF RemindersApart
<1>3. LastMinted'
  BY DEF LastMinted
<1>4. LaterLinks'
  <2>. SUFFICES ASSUME NEW i \in Signers, NEW l \in delivered[i], l > token[i], l \notin undone
                PROVE  Underway(i, l)'
    BY DEF LaterLinks
  <2>1. PICK q \in Visitors : at[q] = "reminding" /\ i \in todo[q] /\ link[q] = l
    BY DEF LaterLinks, Underway
  <2>. QED
    BY <2>1 DEF Underway
<1>. QED
  BY <1>1, <1>2, <1>3, <1>4

(* However reminders, signatures and failures are ordered, and whichever    *)
(* mails are lost, the last link a signer received is the stored one or     *)
(* older, unless its reminder is not over or was rolled back                *)
(* (reissue_unsigned flushes, and so waits for the rows, before it mails).  *)
THEOREM LastReminderWins == SignatureSpec => []LastLinkCounts
<1>1. SignatureInit => LinkInv
  BY DEF SignatureInit, LinkInv, LinkTypes, Numbered, RemindersApart, LastMinted, LaterLinks
<1>2. LinkInv /\ [SignatureNext]_signatureVars => LinkInv'
  <2> SUFFICES ASSUME LinkInv, [SignatureNext]_signatureVars PROVE LinkInv'
    OBVIOUS
  <2>1. ASSUME NEW r \in Visitors, WriteRemind(r) PROVE LinkInv'
    BY <2>1, RemindersWait
  <2>2. ASSUME NEW r \in Visitors, CommitRemind(r) \/ Abort(r) PROVE LinkInv'
    BY <2>2, RemindersEnd
  <2>3. ASSUME NEW r \in Visitors, BeginRemind(r) PROVE LinkInv'
    <3>1. LinkTypes'
      BY <2>3 DEF BeginRemind, Enter, row, mailbox, LinkInv, LinkTypes
    <3>. QED
      BY <2>3, <3>1, OthersLeaveLinks DEF BeginRemind, Enter, row, mailbox, LinkInv, LinkTypes
  <2>4. ASSUME NEW r \in Visitors, \/ Open(r) \/ WriteSignature(r) \/ LookIncomplete(r)
                                   \/ LookComplete(r) \/ BeginCancel(r) \/ WriteCancel(r)
        PROVE LinkInv'
    <3>1. LinkTypes'
      BY <2>4 DEF Open, WriteSignature, LookIncomplete, LookComplete, BeginCancel, WriteCancel,
                  Enter, row, mailbox, LinkInv, LinkTypes
    <3>. QED
      BY <2>4, <3>1, OthersLeaveLinks
      DEF Open, WriteSignature, LookIncomplete, LookComplete, BeginCancel, WriteCancel,
          Enter, row, mailbox, LinkInv, LinkTypes
  <2>5. ASSUME NEW r \in Visitors, CommitSignature(r) \/ CommitCancel(r) PROVE LinkInv'
    <3>1. LinkTypes'
      BY <2>5 DEF CommitSignature, CommitCancel, Leave, row, mailbox, LinkInv, LinkTypes
    <3>. QED
      BY <2>5, <3>1, OthersLeaveLinks
      DEF CommitSignature, CommitCancel, Leave, row, mailbox, LinkInv, LinkTypes
  <2>6. CASE Expire \/ UNCHANGED signatureVars
    <3>1. LinkTypes'
      BY <2>6 DEF Expire, signatureVars, row, mailbox, visitVars, LinkInv, LinkTypes
    <3>. QED
      BY <2>6, <3>1, OthersLeaveLinks DEF Expire, signatureVars, row, mailbox, visitVars
  <2> QED
    BY <2>1, <2>2, <2>3, <2>4, <2>5, <2>6 DEF SignatureNext, Step
<1>3. LinkInv => LastLinkCounts
  BY DEF LinkInv, LaterLinks, Underway, LastLinkCounts
<1> QED
  BY <1>1, <1>2, <1>3, PTL DEF SignatureSpec

-----------------------------------------------------------------------------
(* Types, and one signing transaction per signer.                           *)

(* A request that signs, or has looked, names the signer it holds; one that *)
(* does something else names nobody.                                        *)
WhoFits ==
    \A r \in Visitors : at[r] \in {"opened", "signing", "looked", "completing"}
                          <=> who[r] # NoSigner

TypeInv == SignatureTypeOK /\ WhoFits

(* Two transactions never sign for one signer at the same time, and every   *)
(* variable keeps its type (record_signature waits for the signer's row).   *)
THEOREM SignerSignedOnce == SignatureSpec => []SignatureTypeOK
<1>1. SignatureInit => TypeInv
  <2> SUFFICES ASSUME SignatureInit PROVE TypeInv
    OBVIOUS
  <2>1. /\ minted \in 0..MaxMints /\ 0 \in 0..minted /\ undone \subseteq 0..minted
        /\ token \in [Signers -> 0..minted] /\ delivered \in [Signers -> SUBSET (0..minted)]
        /\ link \in [Visitors -> 0..minted]
    BY SignaturesAssumption DEF SignatureInit
  <2> QED
    BY <2>1, SignaturesAssumption DEF SignatureInit, TypeInv, SignatureTypeOK, WhoFits
<1>2. TypeInv /\ [SignatureNext]_signatureVars => TypeInv'
  <2> SUFFICES ASSUME TypeInv, [SignatureNext]_signatureVars PROVE TypeInv'
    OBVIOUS
  <2> USE SignaturesAssumption DEF TypeInv, SignatureTypeOK, WhoFits
  <2>1. ASSUME NEW r \in Visitors, Open(r) PROVE TypeInv'
    BY ZenonT(60), <2>1 DEF Open, Enter, row, mailbox
  <2>2. ASSUME NEW r \in Visitors, WriteSignature(r) PROVE TypeInv'
    BY <2>2 DEF WriteSignature, SignerLocked, Enter, row, mailbox
  <2>3. ASSUME NEW r \in Visitors, LookIncomplete(r) \/ LookComplete(r) PROVE TypeInv'
    <3>1. PICK o \in {"looked", "completing"} :
            /\ at[r] = "signing" /\ at' = [at EXCEPT ![r] = o]
            /\ UNCHANGED <<row, mailbox, completed, who, todo, link>>
      BY <2>3 DEF LookIncomplete, LookComplete, Enter
    <3>2. \A q \in Visitors : at'[q] = IF q = r THEN o ELSE at[q]
      BY <3>1
    <3> QED
      BY <3>1, <3>2 DEF row, mailbox
  <2>4. ASSUME NEW r \in Visitors, CommitSignature(r) PROVE TypeInv'
    BY <2>4 DEF CommitSignature, Leave, mailbox
  <2>5. ASSUME NEW r \in Visitors, BeginCancel(r) \/ WriteCancel(r) PROVE TypeInv'
    <3>1. PICK o \in {"cancel", "cancelling"} :
            /\ at[r] \in {"idle", "cancel"} /\ at' = [at EXCEPT ![r] = o]
            /\ UNCHANGED <<row, mailbox, completed, who, todo, link>>
      BY <2>5 DEF BeginCancel, WriteCancel, Enter
    <3>2. \A q \in Visitors : at'[q] = IF q = r THEN o ELSE at[q]
      BY <3>1
    <3> QED
      BY <3>1, <3>2 DEF row, mailbox
  <2>9. ASSUME NEW r \in Visitors, BeginRemind(r) PROVE TypeInv'
    BY <2>9 DEF BeginRemind, Enter, row, mailbox
  <2>6. ASSUME NEW r \in Visitors, WriteRemind(r) PROVE TypeInv'
    <3>1. minted' = minted + 1 /\ minted' \in 0..MaxMints /\ 0..minted \subseteq 0..minted'
      BY <2>6 DEF WriteRemind
    <3>2. delivered' \in [Signers -> SUBSET (0..minted')]
      <4>1. PICK reached \in SUBSET todo[r] :
              delivered' = [i \in Signers |-> delivered[i] \cup IF i \in reached THEN {minted'} ELSE {}]
        BY <2>6 DEF WriteRemind, _signature_email
      <4>2. minted' \in 0..minted'
        BY <3>1
      <4>3. \A i \in Signers : delivered[i] \subseteq 0..minted'
        BY <3>1
      <4> QED
        BY <4>1, <4>2, <4>3
    <3>3. /\ token \in [Signers -> 0..minted'] /\ undone \subseteq 0..minted'
          /\ link' \in [Visitors -> 0..minted']
      BY <2>6, <3>1 DEF WriteRemind
    <3> QED
      BY <2>6, <3>1, <3>2, <3>3 DEF WriteRemind, Enter, row
  <2>7. ASSUME NEW r \in Visitors, CommitCancel(r) \/ CommitRemind(r)
        PROVE TypeInv'
    <3>1. CASE CommitCancel(r)
      BY <3>1 DEF CommitCancel, Leave, mailbox
    <3>2. CASE CommitRemind(r)
      <4>1. token' \in [Signers -> 0..minted]
        BY <3>2 DEF CommitRemind
      <4> QED
        BY <3>2, <4>1 DEF CommitRemind, Leave, mailbox
    <3> QED
      BY <2>7, <3>1, <3>2
  <2>10. ASSUME NEW r \in Visitors, Abort(r) PROVE TypeInv'
    <3>1. undone' \subseteq 0..minted /\ UNCHANGED <<row, delivered, minted, completed>>
      BY <2>10 DEF Abort
    <3> QED
      BY <2>10, <3>1 DEF Abort, Leave, row
  <2>8. CASE Expire \/ UNCHANGED signatureVars
    BY <2>8 DEF Expire, signatureVars, row, mailbox, visitVars
  <2> QED
    BY <2>1, <2>2, <2>3, <2>4, <2>5, <2>6, <2>7, <2>8, <2>9, <2>10 DEF SignatureNext, Step
<1>3. TypeInv => SignatureTypeOK
  BY DEF TypeInv
<1> QED
  BY <1>1, <1>2, <1>3, PTL DEF SignatureSpec
=============================================================================
