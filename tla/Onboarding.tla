----------------------------- MODULE Onboarding -----------------------------
(***************************************************************************)
(* A founder's way to a workspace (src/app/services/onboarding and its     *)
(* endpoints): the draft that the first request makes, the answers of the  *)
(* steps, the invitations, and the completion, which also makes the        *)
(* roadmap.  Mail leaves before the commit.                                *)
(***************************************************************************)
EXTENDS Transactions, Sequences, SequencesExt, FiniteSetsExt, Functions, TLC

CONSTANTS
    Required,   \* answers without which onboarding is not complete
    Addresses,  \* spellings of the addresses that are invited
    Mailbox     \* spelling -> mailbox; the database compares mailboxes

VARIABLES
    startups,     \* the founder's startups, the newest last
    memberships,  \* <<mailbox, startup>> -> role
    invitations,  \* id -> invitation
    invited,      \* numbers given to invitations, by rolled back requests too
    initialized   \* startup -> health scores queued to be initialised

onboardingVars == <<startups, memberships, invitations, invited, initialized>>

Roles == {"co_founder", "team_member"}
Startup == [answers : SUBSET Required, step : 1..2, completed : BOOLEAN, roadmap : BOOLEAN]
Draft == [answers |-> {}, step |-> 1, completed |-> FALSE, roadmap |-> FALSE]
Invitation == [startup : Nat, email : Addresses, role : Roles, status : {"pending", "accepted"},
               expired : BOOLEAN]

OnboardingInit ==
    /\ startups = << >> /\ memberships = << >> /\ invitations = << >> /\ invited = 0
    /\ initialized = << >>

-----------------------------------------------------------------------------
(* resolve_or_create_workspace: the newest startup, or a draft of its own,  *)
(* which other requests do not see.                                         *)
Mine == IF startups = << >> THEN [id |-> 0, row |-> Draft]
        ELSE [id |-> Len(startups), row |-> Last(startups)]

(* Mutant of ensure_draft: a completed workspace is edited too.             *)
ensure_nothing(startup) == TRUE

ensure_draft(startup) == ~startup.completed

(* What a request writes to its startup: another's writes stay but for what *)
(* it has changed.                                                          *)
CurrentRow(t) == IF t.id = 0 THEN Draft ELSE startups[t.id]

resolve_or_create_workspace(t, row) ==
    IF t.id = 0
    THEN /\ startups' = Append(startups, row)
         /\ memberships' = Put(memberships, <<"founder", Len(startups')>>, "founder")
    ELSE startups' = [startups EXCEPT ![t.id] = row] /\ UNCHANGED memberships

get_state(r) ==
    /\ startups = << >>
    /\ Begin(r, [op |-> "state", id |-> 0]) /\ UNCHANGED onboardingVars

(* A step's answers are given, or cleared; its number never goes back.      *)
patch_state(r) ==
    /\ ensure_draft(Mine.row)
    /\ \E a \in Required, given \in BOOLEAN, step \in 1..2 :
         Begin(r, [op |-> "patch", id |-> Mine.id, answer |-> a,
                   writes |-> given # (a \in Mine.row.answers), given |-> given,
                   step |-> Max({step, Mine.row.step}), wasStep |-> Mine.row.step])
    /\ UNCHANGED onboardingVars

apply_step(t, startup) ==
    [startup EXCEPT
       !.answers = IF ~t.writes THEN @ ELSE IF t.given THEN @ \cup {t.answer} ELSE @ \ {t.answer},
       !.step = IF t.step = t.wasStep THEN @ ELSE t.step]

CommitState(r) ==
    /\ txn[r].op \in {"state", "patch"}
    /\ resolve_or_create_workspace(txn[r],
         IF Doing(r, "patch") THEN apply_step(txn[r], CurrentRow(txn[r])) ELSE CurrentRow(txn[r]))
    /\ Commit(r)
    /\ UNCHANGED <<invitations, invited, initialized>>

-----------------------------------------------------------------------------
Pending(invs, id, box) ==
    {i \in DOMAIN invs : invs[i].startup = id /\ invs[i].status = "pending" /\ Mailbox[invs[i].email] = box}

(* The founder is a member of a draft that others do not see yet, too.      *)
_is_active_member_email(id, box) == box = "founder" \/ <<box, id>> \in DOMAIN memberships

(* Mutant of Skipped: what the request itself has invited is not looked at. *)
SkippedInTable(id, items, n) ==
    LET box == Mailbox[items[n].email]
    IN  Pending(invitations, id, box) # {} \/ _is_active_member_email(id, box)

(* Skipped are addresses with a pending invitation, past its time or not,   *)
(* members, and what comes earlier in the request: that was invited, which  *)
(* no query would find before the flush, or skipped for the same reason.    *)
Skipped(id, items, n) ==
    LET box == Mailbox[items[n].email]
    IN  \/ Pending(invitations, id, box) # {}
        \/ _is_active_member_email(id, box)
        \/ \E m \in 1..n - 1 : Mailbox[items[m].email] = box

(* The items that get an invitation.                                        *)
create_invitations(id, items) == {n \in 1..Len(items) : ~Skipped(id, items, n)}

Items == {<<[email |-> a, role |-> x]>> : a \in Addresses, x \in Roles}
         \cup {<<[email |-> a, role |-> "co_founder"], [email |-> b, role |-> "team_member"]>> : a, b \in Addresses}

post_invites(r) ==
    /\ ensure_draft(Mine.row)
    /\ \E items \in Items :
         /\ Begin(r, [op |-> "invite", id |-> Mine.id, last |-> invited, items |-> items,
                      new |-> create_invitations(Mine.id, items)])
         /\ invited' = invited + Len(items)
    /\ UNCHANGED <<startups, memberships, invitations, initialized>>

invitation(t, id, n) ==
    [startup |-> id, email |-> t.items[n].email, role |-> t.items[n].role,
     status |-> "pending", expired |-> FALSE]

CommitInvites(r) ==
    LET t == txn[r] IN
    /\ Doing(r, "invite")
    /\ resolve_or_create_workspace(t, CurrentRow(t))
    /\ invitations' = PutAll(invitations,
          [i \in {t.last + n : n \in t.new} |->
             invitation(t, IF t.id = 0 THEN Len(startups') ELSE t.id, i - t.last)])
    /\ Commit(r)
    /\ UNCHANGED <<invited, initialized>>

preview_invitation(i) ==
    i \in DOMAIN invitations /\ invitations[i].status = "pending" /\ ~invitations[i].expired

(* The invited user opens the link; the membership's insert waits for       *)
(* another's of the same user and startup and fails when that committed.    *)
accept(r) ==
    /\ \E i \in 1..invited :
         /\ preview_invitation(i)
         /\ LET m == <<Mailbox[invitations[i].email], invitations[i].startup>>
            IN  Begin(r, [op |-> "accept", invitation |-> i, member |-> m, joins |-> m \notin DOMAIN memberships])
    /\ UNCHANGED onboardingVars

accept_invitation(r) ==
    LET t == txn[r] IN
    /\ Doing(r, "accept")
    /\ t.joins => t.member \notin DOMAIN memberships
                  /\ \A q \in Requests : Doing(q, "joined") => txn[q].member # t.member
    /\ \A q \in Requests : Doing(q, "joined") => txn[q].invitation # t.invitation
    /\ Go(r, [t EXCEPT !.op = "joined"])
    /\ UNCHANGED onboardingVars

CommitAccept(r) ==
    LET t == txn[r] IN
    /\ Doing(r, "joined")
    /\ memberships' = IF t.joins THEN Put(memberships, t.member, invitations[t.invitation].role) ELSE memberships
    /\ invitations' = [invitations EXCEPT ![t.invitation].status = "accepted"]
    /\ Commit(r)
    /\ UNCHANGED <<startups, invited, initialized>>

InvitationExpires ==
    /\ \E i \in DOMAIN invitations :
         /\ preview_invitation(i)
         /\ invitations' = [invitations EXCEPT ![i].expired = TRUE]
    /\ UNCHANGED <<startups, memberships, invited, initialized, txnVars>>

-----------------------------------------------------------------------------
_gate(startup) == Required \subseteq startup.answers

(* A completed workspace is answered as it is.  The completion's write to   *)
(* the profile is flushed by the roadmap's savepoint and so waits for       *)
(* another's; the roadmap is made unless one is found then.                 *)
post_complete(r) ==
    /\ ~Mine.row.completed /\ _gate(Mine.row)
    /\ Begin(r, [op |-> "complete", id |-> Mine.id])
    /\ UNCHANGED onboardingVars

complete_onboarding(r) ==
    /\ Doing(r, "complete")
    /\ ~\E q \in Requests : Doing(q, "completed") /\ txn[q].id = txn[r].id
    /\ Go(r, [txn[r] EXCEPT !.op = "completed"])
    /\ UNCHANGED onboardingVars

CommitComplete(r) ==
    /\ Doing(r, "completed")
    /\ resolve_or_create_workspace(txn[r],
         [CurrentRow(txn[r]) EXCEPT !.completed = TRUE, !.roadmap = TRUE])
    /\ initialized' = [i \in DOMAIN startups |->
          (IF i \in DOMAIN initialized THEN initialized[i] ELSE 0) + IF i = txn[r].id THEN 1 ELSE 0]
    /\ Commit(r)
    /\ UNCHANGED <<invitations, invited>>

(* Any member's first look at the roadmap makes it as well, as in Roadmaps. *)
get_roadmap_ep(r) ==
    /\ \E i \in DOMAIN startups :
         ~startups[i].roadmap /\ startups' = [startups EXCEPT ![i].roadmap = TRUE]
    /\ Serve(r)
    /\ UNCHANGED <<memberships, invitations, invited, initialized>>

OnboardingStep(r) ==
    \/ get_state(r) \/ patch_state(r) \/ CommitState(r)
    \/ post_invites(r) \/ CommitInvites(r)
    \/ accept(r) \/ accept_invitation(r) \/ CommitAccept(r)
    \/ post_complete(r) \/ complete_onboarding(r) \/ CommitComplete(r) \/ get_roadmap_ep(r)

OnboardingNext ==
    \/ \E r \in Requests : OnboardingStep(r) \/ (Rollback(r) /\ UNCHANGED onboardingVars)
    \/ InvitationExpires

OnboardingSpec == TransactionsInit /\ OnboardingInit /\ [][OnboardingNext]_<<onboardingVars, txnVars>>

-----------------------------------------------------------------------------
OnboardingTypeOK ==
    /\ \A i \in DOMAIN startups : startups[i] \in Startup /\ <<"founder", i>> \in DOMAIN memberships
    /\ \A i \in DOMAIN invitations : invitations[i] \in Invitation /\ i <= invited

(* A commit of a request that no other commits into.                        *)
SerialCommit(r) == txn[r] # Idle /\ txn'[r] = Idle /\ alone[r]

(* What such a request writes to a workspace leaves it a draft, or else     *)
(* complete: with every required answer, a roadmap and one job for the      *)
(* first health score.  Nothing reopens what is complete.                   *)
OnboardedReady ==
    [][\A r \in Requests, i \in DOMAIN startups' :
         /\ SerialCommit(r) /\ startups'[i].completed
         /\ i \in DOMAIN startups /\ startups'[i] # startups[i]
         => _gate(startups'[i]) /\ startups'[i].roadmap /\ initialized'[i] = 1
      ]_<<onboardingVars, txn>>

(* Such a request invites a mailbox at most once, however often and however *)
(* spelled it names it, and never a member or one with an open invitation.  *)
InvitedOnce ==
    [][\A r \in Requests, i \in DOMAIN startups', box \in Range(Mailbox) :
         /\ SerialCommit(r)
         /\ Pending(invitations', i, box) \ Pending(invitations, i, box) # {}
         => Cardinality(Pending(invitations', i, box)) = 1 /\ <<box, i>> \notin DOMAIN memberships'
      ]_<<onboardingVars, txn>>
=============================================================================
