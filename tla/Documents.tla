----------------------------- MODULE Documents ------------------------------
(***************************************************************************)
(* The documents of one workspace, the links they are shared by and the    *)
(* files beside them (src/app/services/documents: service, shares, files,  *)
(* template_defs, and their endpoints).  Titles, folders and section texts *)
(* are left out: a document is its kind, its headings, its status and its  *)
(* version.  Rows are named by the number of the request that made them.   *)
(***************************************************************************)
EXTENDS Transactions, Sequences, TLC

CONSTANTS
    DocumentTemplateKeys,  \* the templates that documents are made of
    Headings,              \* what clients write
    ExpiryDays             \* days a link is to last, 0 for ever

VARIABLES
    documents,  \* id -> document
    shares,     \* id -> link to a document
    files,      \* id -> content type of a listed file
    storage     \* ids of the files whose object is stored

documentVars == <<documents, shares, files, storage>>

DocumentKinds == {"business_plan", "pitch_deck", "financial_model", "meeting_notes", "one_pager", "custom"}
Document ==
    [kind : DocumentKinds, sections : Seq(STRING), status : {"draft", "final"}, version : Nat \ {0}]
DocumentShare ==
    [document : Nat, expires : {"never", "later", "past"}, revoked : BOOLEAN, viewed : Nat]
DocumentFile == {"application/pdf", "image/png"}
EXT_BY_CONTENT_TYPE == DocumentFile

DOCUMENT_TEMPLATES ==
    [business_plan |-> <<"Executive Summary", "Problem", "Solution", "Market & Customer",
                         "Business Model", "Go-to-Market", "Team", "Financials", "The Ask">>,
     pitch_deck |-> <<"Hook", "Problem", "Solution", "Why Now", "Market", "Product", "Team", "The Ask">>,
     financial_model |-> <<"Assumptions", "Revenue", "Costs", "Runway", "Projections">>,
     meeting_notes |-> <<"Attendees", "Agenda", "Discussion", "Decisions", "Action Items">>,
     one_pager |-> <<"Overview", "Problem", "Solution", "Traction", "The Ask">>]

(* Templates are of a kind that there is, and their headings are texts.     *)
ASSUME ContentAssumption ==
    /\ DocumentTemplateKeys \subseteq DocumentKinds
    /\ \A k \in DocumentTemplateKeys : DOCUMENT_TEMPLATES[k] \in Seq(STRING)
    /\ \A h \in Headings : <<h>> \in Seq(STRING)

(* A template is named after its kind.                                      *)
instantiate(key) == [kind |-> key, sections |-> DOCUMENT_TEMPLATES[key]]

DocumentInit == documents = << >> /\ shares = << >> /\ files = << >> /\ storage = {}

Drop(rows, ids) == [i \in DOMAIN rows \ ids |-> rows[i]]

-----------------------------------------------------------------------------
create_document(content) ==
    [kind |-> content.kind, sections |-> content.sections, status |-> "draft", version |-> 1]

create_document_endpoint(r) ==
    /\ \E content \in {instantiate(k) : k \in DocumentTemplateKeys}
                      \cup {[kind |-> "custom", sections |-> <<h>>] : h \in Headings} :
         Begin(r, [op |-> "create_document", id |-> served + 1, row |-> create_document(content)])
    /\ UNCHANGED documentVars

CommitCreateDocument(r) ==
    /\ Doing(r, "create_document")
    /\ documents' = Put(documents, txn[r].id, txn[r].row)
    /\ Commit(r)
    /\ UNCHANGED <<shares, files, storage>>

get_document == DOMAIN documents

EditOf(doc, heading, status) ==
    [doc EXCEPT !.sections = <<heading>>, !.status = status, !.version = doc.version + 1]

(* The client names the version it read, and it is checked against the row  *)
(* that this request loaded.                                                *)
update_document(doc, expected) ==
    {EditOf(doc, h, s) : h \in {g \in Headings : expected = doc.version}, s \in {"draft", "final"}}

update_document_endpoint(r) ==
    /\ \E d \in get_document, expected \in 1..MaxServed : \E row \in update_document(documents[d], expected) :
         Begin(r, [op |-> "update_document", id |-> d, was |-> documents[d], row |-> row])
    /\ UNCHANGED documentVars

(* The columns that differ from what was loaded are written.  A row deleted *)
(* meanwhile cannot be, and the request fails.                              *)
CommitUpdateDocument(r) ==
    LET t == txn[r] IN
    /\ Doing(r, "update_document") /\ t.id \in DOMAIN documents
    /\ documents' = [documents EXCEPT ![t.id] =
                       [c \in DOMAIN @ |-> IF t.row[c] # t.was[c] THEN t.row[c] ELSE @[c]]]
    /\ Commit(r)
    /\ UNCHANGED <<shares, files, storage>>

delete_document_endpoint(r) ==
    /\ \E d \in get_document : Begin(r, [op |-> "delete_document", id |-> d])
    /\ UNCHANGED documentVars

SharesOf(d) == {s \in DOMAIN shares : shares[s].document = d}

(* The links of the document go with it.                                    *)
delete_document(d) == documents' = Drop(documents, {d}) /\ shares' = Drop(shares, SharesOf(d))

CommitDeleteDocument(r) ==
    /\ Doing(r, "delete_document")
    /\ delete_document(txn[r].id)
    /\ Commit(r)
    /\ UNCHANGED <<files, storage>>

-----------------------------------------------------------------------------
_is_expired(share) == share.expires = "past"
_status(share) ==
    IF share.revoked THEN "revoked" ELSE IF _is_expired(share) THEN "expired" ELSE "active"

share_document(d) == d \in DOMAIN documents

(* Without a number of days, or with 0 of them, a link never expires.       *)
create_share(d, days) ==
    [document |-> d, expires |-> IF days = 0 THEN "never" ELSE "later", revoked |-> FALSE, viewed |-> 0]

create_share_endpoint(r) ==
    /\ \E d \in DOMAIN documents, days \in ExpiryDays :
         share_document(d) /\ Begin(r, [op |-> "create_share", id |-> served + 1, row |-> create_share(d, days)])
    /\ UNCHANGED documentVars

(* The link is mailed, or not, before it is there; it cannot be made for a  *)
(* document deleted meanwhile.                                              *)
CommitShare(r) ==
    /\ Doing(r, "create_share") /\ share_document(txn[r].row.document)
    /\ shares' = Put(shares, txn[r].id, txn[r].row)
    /\ Commit(r)
    /\ UNCHANGED <<documents, files, storage>>

_share == DOMAIN shares

revoke_share_endpoint(r) ==
    /\ \E s \in _share : Begin(r, [op |-> "revoke", id |-> s])
    /\ UNCHANGED documentVars

revoke_share(r) ==
    /\ Doing(r, "revoke") /\ txn[r].id \in DOMAIN shares
    /\ shares' = [shares EXCEPT ![txn[r].id].revoked = TRUE]
    /\ Commit(r)
    /\ UNCHANGED <<documents, files, storage>>

open_shared(s) == s \in DOMAIN shares /\ _status(shares[s]) = "active"

open_shared_endpoint(r) ==
    /\ \E s \in DOMAIN shares :
         open_shared(s) /\ Begin(r, [op |-> "open", id |-> s, row |-> [shares[s] EXCEPT !.viewed = served + 1]])
    /\ UNCHANGED documentVars

(* Mutant of Viewed: the whole row is written as it was loaded.             *)
ViewedWhole(t) == [shares EXCEPT ![t.id] = t.row]

(* Only the time of the viewing is written.                                 *)
Viewed(t) == [shares EXCEPT ![t.id].viewed = t.row.viewed]

CommitOpen(r) ==
    /\ Doing(r, "open") /\ txn[r].id \in DOMAIN shares
    /\ shares' = Viewed(txn[r])
    /\ Commit(r)
    /\ UNCHANGED <<documents, files, storage>>

LinkExpires ==
    /\ \E s \in DOMAIN shares :
         shares[s].expires = "later" /\ shares' = [shares EXCEPT ![s].expires = "past"]
    /\ UNCHANGED <<documents, files, storage, txnVars>>

-----------------------------------------------------------------------------
upload_document_file(r) ==
    /\ \E type \in EXT_BY_CONTENT_TYPE : Begin(r, [op |-> "upload", id |-> served + 1, row |-> type])
    /\ UNCHANGED documentVars

(* Mutant of upload_file: listed without its object.                        *)
upload_unsaved(r) ==
    /\ Doing(r, "upload") /\ Go(r, [txn[r] EXCEPT !.op = "uploaded"])
    /\ UNCHANGED documentVars

(* The object is stored before the row is there,                            *)
upload_file(r) ==
    /\ Doing(r, "upload") /\ Go(r, [txn[r] EXCEPT !.op = "uploaded"])
    /\ storage' = storage \cup {txn[r].id}
    /\ UNCHANGED <<documents, shares, files>>

CommitUpload(r) ==
    /\ Doing(r, "uploaded") /\ Commit(r)
    /\ files' = Put(files, txn[r].id, txn[r].row)
    /\ UNCHANGED <<documents, shares, storage>>

get_file == DOMAIN files

delete_document_file(r) ==
    /\ \E f \in get_file : Begin(r, [op |-> "delete_file", id |-> f])
    /\ UNCHANGED documentVars

(* and goes before the row does.                                            *)
delete_file(r) ==
    /\ Doing(r, "delete_file") /\ Go(r, [txn[r] EXCEPT !.op = "deleted_file"])
    /\ storage' = storage \ {txn[r].id}
    /\ UNCHANGED <<documents, shares, files>>

CommitDeleteFile(r) ==
    /\ Doing(r, "deleted_file") /\ Commit(r)
    /\ files' = Drop(files, {txn[r].id})
    /\ UNCHANGED <<documents, shares, storage>>

-----------------------------------------------------------------------------
DocumentStep(r) ==
    \/ create_document_endpoint(r) \/ CommitCreateDocument(r)
    \/ update_document_endpoint(r) \/ CommitUpdateDocument(r)
    \/ delete_document_endpoint(r) \/ CommitDeleteDocument(r)
    \/ create_share_endpoint(r) \/ CommitShare(r) \/ revoke_share_endpoint(r) \/ revoke_share(r)
    \/ open_shared_endpoint(r) \/ CommitOpen(r)
    \/ upload_document_file(r) \/ upload_file(r) \/ CommitUpload(r)
    \/ delete_document_file(r) \/ delete_file(r) \/ CommitDeleteFile(r)

DocumentNext ==
    \/ \E r \in Requests : DocumentStep(r) \/ (Rollback(r) /\ UNCHANGED documentVars)
    \/ LinkExpires

DocumentSpec == TransactionsInit /\ DocumentInit /\ [][DocumentNext]_<<documentVars, txnVars>>

-----------------------------------------------------------------------------
(* Types, and a link opens a document that is there.                        *)
DocumentTypeOK ==
    /\ \A d \in DOMAIN documents : documents[d] \in Document
    /\ \A s \in DOMAIN shares :
         shares[s] \in DocumentShare /\ shares[s].document \in DOMAIN documents
    /\ \A f \in DOMAIN files : files[f] \in DocumentFile

(* A revoked link stays revoked though an opening that began before commits *)
(* after, and an opening that nothing raced is of a link that is not.       *)
RevocationSticks ==
    [][\A s \in DOMAIN shares : s \in DOMAIN shares' /\ shares[s].revoked =>
         /\ _status(shares'[s]) = "revoked"
         /\ \A r \in Requests : txn'[r] # txn[r] /\ alone[r] => shares'[s].viewed = shares[s].viewed
      ]_documentVars

(* A listed file has its object, until a request that deletes the file has  *)
(* removed it; only one that then fails leaves the row without it.          *)
FilesKeepObjects ==
    [][\A f \in DOMAIN files' : f \notin storage' =>
         /\ f \in DOMAIN files
         /\ f \notin storage \/ \E r \in Requests : txn[r] = [op |-> "delete_file", id |-> f]
      ]_documentVars
=============================================================================
