----------------------------- MODULE MCWorkspace -----------------------------
(***************************************************************************)
(* The parts of a workspace that requests change side by side, each in     *)
(* behaviours of its own: they write no row in common.                     *)
(* Before the first request there is something to race for: a document     *)
(* with a link and a file, an entry of the journal, a lesson done.         *)
(***************************************************************************)
EXTENDS
    Dashboard, Documents, Journal, Learning, Accounts, Onboarding, Feed, Signatures, Dependencies

CONSTANTS r1, r2, ann, bob, t1, t2, t3

VARIABLE part

MCRequests == {r1, r2}
MCSymmetry == Permutations(MCRequests)
MCGallery == {"go_to_market"}
MCFounders == {"ada"}
MCAddresses == {"bo@x", "Bo@x"}
MCMailbox == [a \in MCAddresses |-> "bo"]
MCSigners == {ann, bob}
MCTasks == {t1, t2, t3}
MCStudied == {"build-scope-the-mvp", "growth-find-a-channel"}

startupVars == <<roadmapVars, missionVars, today>>
allVars ==
    <<vars, dashboardVars, documentVars, journalVars, learningVars, accountVars, onboardingVars,
      feedVars, signatureVars, depVars, part>>

(* Before there is a roadmap, and with one.                                 *)
MCMissionInit ==
    \/ RoadmapInit /\ part \in {"mission", "dashboard", "documents", "journal", "learning",
                                "accounts", "onboarding", "feed", "signatures",
                                "dependencies"}
    \/ /\ part \in {"mission", "dashboard"}
       /\ roadmap = << >> /\ built = 1 /\ generated = 1 /\ announced = {}
       /\ phases = PhaseRows(1, TemplateOf(Stage), 0)
       /\ milestones = MilestoneRows(1, TemplateOf(Stage))
       /\ tasks = TaskRows(1, TemplateOf(Stage))

MCDocumentInit ==
    \/ DocumentInit
    \/ /\ part = "documents"
       /\ documents = (0 :> create_document(instantiate("one_pager")))
       /\ shares = (0 :> create_share(0, 30))
       /\ files = (0 :> "image/png") /\ storage = {0}

MCJournalInit ==
    \/ JournalInit
    \/ /\ part = "journal"
       /\ entries = (<<"ada", 1>> :> [id |-> 0, content |-> "text", mood |-> 1, stress |-> 1])
       /\ moodLogs = (<<"ada", 1>> :> [id |-> 0, mood |-> 1, stress |-> 1])

(* An answered draft, one mailbox invited twice by requests that raced.     *)
MCOnboardingInit ==
    \/ OnboardingInit
    \/ /\ part = "onboarding"
       /\ startups = <<[Draft EXCEPT !.answers = Required]>>
       /\ memberships = (<<"founder", 1>> :> "founder")
       /\ invitations = [i \in 1..2 |->
             [startup |-> 1, email |-> "bo@x", role |-> IF i = 1 THEN "co_founder" ELSE "team_member",
              status |-> "pending", expired |-> FALSE]]
       /\ invited = 2 /\ initialized = << >>

(* A verified address, with a link to reset its password.                   *)
MCAccountInit ==
    \/ AccountInit
    \/ /\ part = "accounts"
       /\ account = [status |-> "active", fails |-> 1, locked |-> "no"]
       /\ authTokens = (1 :> [purpose |-> "password_reset", state |-> "live"])
       /\ issued = 1 /\ mailed = {1} /\ cooldown = {} /\ uses = << >>
       /\ older = (1 :> {})

MCInit ==
    /\ TransactionsInit /\ MissionInit /\ MCMissionInit
    /\ IF part = "dashboard" THEN DashboardInit ELSE DashboardInit /\ assessed = FALSE
    /\ MCDocumentInit /\ MCJournalInit /\ LearningInit /\ MCAccountInit /\ MCOnboardingInit /\ FeedInit
    /\ SignatureInit /\ DependenciesInit

MCNext ==
    /\ UNCHANGED part
    /\ IF part = "mission" THEN Next /\ UNCHANGED dashboardVars
       ELSE IF part = "dashboard" THEN DashboardNext
       ELSE UNCHANGED <<startupVars, dashboardVars>>
    /\ IF part = "documents" THEN DocumentNext ELSE UNCHANGED documentVars
    /\ IF part = "journal" THEN JournalNext ELSE UNCHANGED journalVars
    /\ IF part = "learning" THEN LearningNext ELSE UNCHANGED learningVars
    /\ IF part = "accounts" THEN AccountNext ELSE UNCHANGED accountVars
    /\ IF part = "onboarding" THEN OnboardingNext ELSE UNCHANGED onboardingVars
    /\ IF part = "feed" THEN FeedNext ELSE UNCHANGED feedVars
    /\ IF part = "signatures" THEN SignatureNext ELSE UNCHANGED signatureVars
    /\ IF part = "dependencies" THEN DependenciesNext ELSE UNCHANGED depVars
    /\ part \in {"feed", "signatures", "dependencies"} => UNCHANGED txnVars

MCSpec == MCInit /\ [][MCNext]_allVars

(* Types, and what a mission being made keeps others from.                  *)
WorkspaceTypeOK ==
    /\ TypeOK /\ DashboardTypeOK /\ DocumentTypeOK /\ JournalTypeOK /\ LearningTypeOK
    /\ AccountTypeOK /\ OnboardingTypeOK /\ FeedTypeOK
    /\ SignatureTypeOK /\ DependenciesTypeOK
=============================================================================
