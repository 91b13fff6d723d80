# Cofoundaz API: a TLA+ development

TLA+ modules for the parts of the Cofoundaz API (`src/app`) whose correctness
depends on the order in which requests, workers and commits meet. Each module
is translated from the code it names; TLC checks it on small instances and
TLAPS proves its main invariants for instances of any size.

The API is a FastAPI application served by several processes over one
PostgreSQL database, with one or more worker processes (`app/worker`) that
drain a job table and run a scheduler. Three facts about that setting shape
every model:

* A request or a job is one transaction, opened by `get_db` or the worker with
  `autocommit=False, autoflush=False`. What is not committed by the endpoint is
  rolled back when the session closes.
* Isolation is READ COMMITTED. A statement sees what was committed before it
  began; an UPDATE waits for a row another transaction has locked. A value read
  into an ORM object stays what it was until it is refreshed or expired.
* Events are published on an in-process bus inside the publisher's transaction,
  each handler in a savepoint.

So a model's unit of work is seldom a whole request: it is a read, a write that
waits for a lock, and a commit, and other transactions act in between.

## 1. The system's parts

| Part | State | Operations | Hard because |
|---|---|---|---|
| Job queue (`worker/runner.py`, `platform/jobs.py`) | `jobs`: status, attempts, run_after, updated_at | enqueue, reap, claim a batch, load, run, finalize | workers crash or are slow, rows are reaped from live workers, outside effects repeat |
| Scheduler (`worker/scheduler.py`, `handlers/scheduled.py`) | `scheduled_runs` and what detectors read | detect, claim by unique insert, enqueue, commit; the three handlers | replicas insert the same keys in different orders; ticks die; the world changes before the job runs |
| Events, notifications, live stream (`platform/events.py`, `services/notifications`, `db/session.py`, `platform/realtime.py`) | notification rows, e-mail jobs, a session's stash, Redis, open streams | publish, write rows, mail, push, stream, mark read | savepoints inside transactions, frames outside them, streams that open meanwhile |
| Refresh sessions (`services/auth/sessions.py`) | `auth_sessions`: family, rotated_at, revoked_at | issue, rotate, refuse, revoke one, a family or all | the same token refreshed twice at once; bulk updates beside inserts |
| Signature requests (`services/documents/signatures.py`) | request status, signers, link hashes | open, sign, complete, cancel, remind, expire | the last signature is decided from what others have committed; links are mailed before they are, or not at all |
| Roadmap dependencies (`services/roadmap/dependencies.py`) | `roadmap_task_dependencies` | check, add, delete, cascades | check and insert are apart |
| Re-planner (`services/roadmap/replan.py`) | milestones' due dates and status | propose, apply selected changes | a graph algorithm over a projected graph, applied in part or twice |
| Roadmap core and templates (`services/roadmap`, `endpoints/roadmap.py`) | phases, milestones, tasks, progress, applied templates | generate once, append a template, create, edit and delete each kind of row | concurrent generation; a milestone's progress is computed from tasks changed side by side |
| Daily mission (`services/mission`) | one mission a day, its tasks, settings | make, complete, snooze, reject, add, write the reasons | made by the first of several requests; complete or not by the tasks of others; snoozed tasks come back |
| Business canvases, records, suggestions, plan (`services/business`) | versioned canvases, positions of records, suggestions, plan rows | save, draft by AI, suggest, approve, reject, generate a plan | version checks on loaded copies, a worker that writes seconds after it read |
| Documents, shares, files (`services/documents`) | versioned documents, links, file rows, the object store | create, update, share, open, revoke, upload, delete | the same, and a store outside the transaction |
| Assessment and health score (`services/assessment`, `services/health_score`) | attempts, answers, results, score, signals, recommendations | start, answer, complete, recompute, accept, dismiss, rewrite | completed twice, recomputed by several first readers, recommendations replaced while they are decided |
| One-time links, login (`services/auth/tokens.py`, `endpoints/auth`) | links, failure count, lockout, a cooldown in Redis | sign up, void the old links, send, claim a link, log in | a link clicked twice or while a newer one is made; two spellings of one address ask at once |
| Onboarding and invitations (`services/onboarding`) | draft workspace, answers, invitations, memberships | answer, invite, accept, complete | first requests each make a draft; completion beside answers; addresses in two spellings |
| Dashboard (`services/dashboard`) | the day's briefing and its job | summary, the briefing's job | a summary makes the day's mission and briefing in savepoints that others may beat |
| Lists (`services/dashboard`, `services/notifications`) | rows in time order | page by page with a cursor | rows tie, arrive late, and are marked read between pages |
| Journal (`services/journal`) | entries, the mood log beside them | upsert, edit, delete, lists, trend | two rows that must agree, locked in two orders |
| Learning (`services/learning`) | enrolments, lessons, certificates | enrol, complete, every page | two lessons completed at once |
| MFA, preferences, model client, e-mail, storage, schemas, tenancy, configuration | little of their own | I/O, declarations, lookups | not modelled as parts |

How they interact: endpoints enqueue jobs and publish events in their own
transaction; the notification handler answers events with rows, e-mail jobs and
live frames; the worker runs e-mail, AI and scheduled jobs, whose handlers
publish events again, in the worker's process; the re-planner reads the
dependencies that roadmap endpoints change.

What makes each part correct is written as the properties below. `PROJECT.json`
lists the hazards with the properties that would catch them; those without one
are races that the code does not exclude, and say so.

## 2. Modules

| Module | Models | Correspondence |
|---|---|---|
| `JobContract` | what the queue promises | abstract: submit, apply rows once, send mail, give up |
| `JobQueue` | the queue | `WorkerStep` follows `run_once`: `Reap`, `Claim`, `Load`, a handler step, one finalizer. A job is its rank in `created_at`; `stale` and `delayed` are the two time comparisons of the code |
| `JobQueueProperties` | | its properties, and the refinement mapping to `JobContract` (queued and running are pending) |
| `Scheduler`, `SchedulerProofs` | tick and scheduled jobs | `due`, `cur`, `mine` are a tick's items, the insert it waits in, its uncommitted rows; a deadlock of two ticks is broken by a victim |
| `Notifications` | bus, handler, stash, stream | one `TxnStep` per flush, savepoint release or rollback, commit; a stream is first counted, then on |
| `PlatformProofs` | | theorems about the queue and the notifications |
| `Sessions`, `SessionsProofs` | refresh sessions | `todo` and `locked` are the rows an UPDATE has chosen and reached |
| `Signatures`, `SignaturesProofs` | a signature request | `at[r]` is where a visitor's transaction stands, its request's loads, flushes and commit; `SignerLocked` and `RequestLocked` are the row locks; a reminder's mail reaches any of its signers, as `_signature_email` swallows a failure. `undone` remembers links that were mailed and rolled back |
| `Dependencies` | dependencies of a roadmap | `CheckEdge` is the endpoint up to its insert, `AddEdge` the insert and commit. `Reaches` states what the search finds. `fresh` and `raced` are history: the requests since whose search no edge was added, and the edges that others inserted |
| `Replan` | the re-planner, composed with `Dependencies` | extends `Dependencies`, whose steps are steps of it. The depth-first sort is its steps: `VisitNext` takes a row, `VisitUpstream` and `Leave` are a visit, `stack` the visits under way and `left` what each loop over upstreams has yet to come to; then `Propagate` shifts a milestone at a time and `Select` is what the request keeps. They read what one request has loaded, so nothing else happens between them |
| `ReplanProofs` | | theorems about both |
| `Transactions` | what requests are elsewhere | `txn[r]` is what a request has loaded and is about to write; `alone[r]` remembers whether another transaction has committed meanwhile; `Rollback` is any error before the commit. Updates write the columns that differ from the loaded copy, as the ORM does |
| `Templates`, `Rounding` | the templates' shape, Python's sums and rounding | constants and operators of `Roadmaps` and the scores |
| `Roadmaps` | generation, gallery, edits | an edit loads (`Edit`), may flush, and commits; `generate_roadmap` is the insert that serialises generation: it waits for another's and does nothing when that committed (`ClaimTaken`) |
| `Missions` | the daily mission, over `Roadmaps` | extends it: the mission takes its tasks from the roadmap's rows |
| `Dashboard` | the summary, over `Missions` | its sections are steps of one transaction; the worker's job is another |
| `Business`, `BusinessProofs` | canvas, positioning map, records, suggestions, plans | `refresh` is the re-read a drafting job does before it writes |
| `AssessmentBank` | the bank of questions | conditions, the order of questions and the score of an answer set, as operators |
| `HealthScores`, `Assessments`, `AssessmentsProofs` | score and recommendations; attempts | `Assessments` extends `HealthScores`: a completion recomputes in its transaction |
| `Documents`, `Journal`, `Learning`, `Accounts`, `Onboarding` | the parts of those names | one action per endpoint up to its write, one for its commit; statements that wait for rows are guarded by those rows' holders. In `Accounts` the UPDATE that voids links is two steps: it finds the live ones (`invalidate_unconsumed_tokens`), and, once nobody else holds any, makes void what of them is still live (`_send_verification`); links committed in between are not found. The cooldown is by purpose and spelling, the user by the address in any spelling. `older` is history: the links stored when each was asked for |
| `WorkspaceProofs` | | theorems about the parts over `Transactions` but the assessment |
| `Feed` | cursor paging of both lists | `PageAfter` is the query of a page, the rows that fewer than its size are newer than; a client is a `reader` with the pages it has seen |
| `MCWorkspace` | the parts above from `Roadmaps` on but for `Business` and `Assessments`; `Signatures`; `Dependencies` | each behaviour is of one part, as the parts share no row; `Dashboard` is composed with the mission. The parts' own specifications (`Spec` of `Missions`, `DashboardSpec`, `DocumentSpec`, `AccountSpec`, `OnboardingSpec`, `JournalSpec`, `LearningSpec`, `FeedSpec`, `SignatureSpec`, `DependenciesSpec`) are what the theorems are about |
| `MCUsers` | `Sessions` and `Notifications` | each behaviour is of one of them |
| `MC*` | | instances for TLC |

Definitions named `...Something` with a comment "Mutant of X" are what X would
be with a plausible bug. No specification uses them; replacing X by one makes
the property listed with it in `PROJECT.json` fail, which shows that the
property depends on X.

## 3. Runs

**Job queue.** Constants are two or three jobs (one that mails, one without a
handler or one that kills its worker), two workers, batches of two,
`MaxAttempts = 2`. `CountCap` bounds counters above anything the runs reach with
the crashes allowed; `MaxCrashes` and `MaxOverruns` bound what the environment
does.

* `queue_contract`: with a crash anywhere and batches inside the stale window, a
  job has one executor, attempts stay within the budget plus crashes, every step
  is a step of `JobContract`, and under `Fairness` its liveness holds too.
* `queue_overrun`: when a live worker overruns the stale window a job may run
  twice, and a fatal job takes its worker down each time; still each effect is
  paid for by a claim, and jobs older than the fatal one settle.

**Scheduler.** Two replicas, one startup with a member and one milestone, and two
days, so that the date changes under a tick. One tick dies at any point, and founders
begin one change (`MaxEdits`), so that a re-plan, a deletion or an assessment falls
between what a tick reads and what it commits. More of them, and quarters that end,
are covered by the theorem `FiredOnce`.

* `scheduler`: a period is in the ledger exactly when it has its one job; and what
  stays due is claimed. Items that founders make not due by themselves satisfy that
  at once.

**Sessions and notifications.** Three rows, two families, two requests: enough for a
rotation to race a rotation, a logout or a reset, and for a row to be its
predecessor's heir. In behaviours of their own, three users, a request and a worker
transaction of up to two events, lost frames, members who join, streams that open.

* `sessions_and_notifications`: at most one unrotated row per family, and only live
  rows get a successor. An e-mail job exists exactly with the row of a user who wants
  mail, whatever was rolled back; no frame survives a broken handler.
* `sessions_reuse`, a violation, over one family: its revocation is rolled back with
  the refusal it belongs to.

**Dependencies.** Three tasks and two editors: a cycle that needs two additions and
closes through a task in between, beside deletions of edges and of tasks. That every
cycle has an edge that raced is checked by `workspace`.

* `dependencies_cycle`, a violation: the graph is not acyclic by construction, as
  the design says, since nothing is locked between search and insert.

**Re-planning.** Three tasks, each in any of three milestones, one request at a
time, due dates and days from 0 to 2, and a buffer of one day, so that milestones
are late by different amounts. A buffer of seven only scales the dates. Three
tasks are the fewest whose cycle a search of one edge would miss, and with two of
them in one milestone the milestones form cycles that the tasks do not. Tasks are
exchanged for each other by the symmetry, and milestones, which no definition
tells apart.

* `replan_cascade`: in every row order a milestone of an acyclic roadmap shifts with the latest of all that it waits
  on, and a proposal accepted as a whole settles.

**Business.** Two requests or jobs at a time, four in a behaviour (`MaxServed`),
a canvas of two blocks: a draft by the model, and an edit, an approval and a
deletion around it.

* `business_races`: a draft keeps what was edited while the model worked, a kind
  of record that the overview shows complete was announced, and what an approval
  deleted no racing edit brings back.

**Assessment and health score.** Two at a time, four in a behaviour, from an
attempt before its last answer or after earlier attempts, over the code's bank.

* `assessment_health`: an assessment is completed and announced once; pending
  recommendations are those of the current score; a decision is only undone by a
  recomputation that had read the recommendation before it was decided
  (`DecisionsOutlastFreshReads`); a recomputation that nothing races leaves one set
  of signals, the score's.
* `decisions_durable`, a violation: a decision made while the recommendations are
  rebuilt is deleted with its row, although decisions are said to be durable.

**Workspace.** Two requests at a time, three in a behaviour; three is one more
than race, so that a later request meets what a race left. One stage with its
template and one template of the gallery; days 0 to 2 with a weekend; a document
template, links that expire or not; one founder, two dates, two moods and two
spellings of one mailbox; two failed logins lock; two required courses' lessons
from the catalog; lists of three rows at two times in pages of one and two. Parts
start empty, and also from a state with something to race for: a roadmap, a
shared document with a file, an entry, a lesson done, an account with a link, a
draft whose mailbox was invited twice. Two signers, whose requests are not counted;
`MaxMints` bounds the links that reminders mint. Three tasks, and no dependency at first.

* `workspace`: a roadmap is generated once (`GeneratedOnce`) and its templates
  are applied as announced (`AppliedAsAnnounced`); an edit of a task that nothing
  races leaves the milestone's progress right (`EditSetsProgress`); a mission is
  completed only with its tasks settled (`CompletionEarned`). A revoked link
  stays revoked (`RevocationSticks`) and a file's row never lacks its object
  (`FilesKeepObjects`). Entry and mood log agree after a write that nothing races
  (`MoodFollowsEntry`). Progress, certificates and every page of the academy
  agree (`PagesAgree`). A mailed link works once (`LinksWorkOnce`), and a new one
  makes void all of its purpose that were stored when it was asked for
  (`OldLinksVoid`). A draft is completed with its answers, its roadmap and one
  job (`OnboardedReady`), and a mailbox is invited once (`InvitedOnce`). A day's
  briefing has the one job that writes it (`BriefingHasJob`). Reading page by
  page shows every row once (`PagesCoverFeed`). A signature request is complete only
  with every signature (`CompleteMeansSigned`); a link that a signer received is newer
  than the stored one only if its reminder is not over or was rolled back, so of
  reminders that overtake each other the last one mailed is the last one stored
  (`LastLinkCounts`). Dependencies join tasks that are there, and a cycle in them has
  an edge that was added after another was which its request had not seen
  (`OnlyRacesCloseCycles`).

**Accounts.** Two requests, three in a behaviour, two spellings of one address.

* `accounts_newest`, a violation: of two links asked for side by side in two
  spellings both work, although only the newest is said to.

Where a property says "nothing races" (`alone[r]`), it does not hold without:
the counterexamples are among the behaviours listed next.

`CHECK_DEADLOCK FALSE` is set where the system really may stop: rows used up, a
request complete, the requests of a behaviour served. The type invariants of
`JobQueue`, `Scheduler`, `Sessions`, `Notifications`, `Business` and `Replan` are
proved for all constants and are in no run.

The four violations are listed with the lines they contradict under `findings` in
`PROJECT.json`: `sessions_reuse`, `dependencies_cycle`, `decisions_durable` and
`accounts_newest`. For the last three a property beside them that holds says how
far the promise goes: `OnlyRacesCloseCycles`, `DecisionsOutlastFreshReads` and
`OldLinksVoid`.

The modules have behaviours that a reader of the documents may not expect, and
that no property rules out. They bound what can be claimed, which is why
properties say "one request at a time", "nothing races" or "within the stale
window" where they do.

* Queue: a late finalizer overwrites a settled job; a kind of job without a
  handler (`learning.certificate.generate`) is given up at its first claim.
* Scheduler: a milestone is announced overdue after it was re-dated.
* Notifications: the stream counts before it subscribes, so a row in between is in
  neither (`endpoints/notifications.py:162`); a worker process has no subscriber
  (`worker/__main__.py:14`), so what its jobs publish is not heard; a frame may be
  sent before its transaction is rolled back.
* Sessions: a password reset is passed by a refresh in flight.
* Accounts: failures of two logins at once count as one. Two spellings of one
  address pass the cooldown side by side (`password.py:35`, `registration.py:79`),
  and so do requests that last longer than it.
* Onboarding: two first requests make two drafts; racing completions queue the
  first score twice; a step under way may clear an answer of a workspace that has
  been completed; racing requests invite a mailbox twice, while an invitation past
  its time keeps its mailbox from being invited at all.
* Signatures: the last two signers sign at once and nobody completes the request
  (`signatures.py:171`); a cancelled request is completed by a signature under way;
  a reminder whose mail fails has replaced the signer's link all the same
  (`endpoints/documents.py:98`, `:400`), so that no link works until the next
  reminder.
* Roadmap: two dependencies together close a cycle, as `dependencies_cycle` shows; a cascaded change is proposed
  again because its blocker's was not applied; acyclic tasks whose milestones wait
  on each other; progress that two racing edits leave wrong.
* Business: two saves of one version both pass (`business/service.py:102`); a draft
  and an edit that commit after the re-read overwrite each other.
* Assessment: an answer changes after the scorer read it; two recomputations
  announce one record; two first readers leave two sets of signals; of two founders
  who accept and dismiss one recommendation at once the later commit decides.
* Documents: two updates of one version both pass (`documents/service.py:104`); a
  link is mailed before its row is committed.
* Journal: racing updates leave entry and mood log apart, and an update beside a
  deletion re-creates the log.

## 4. Fairness

`JobQueue!Fairness` and `Scheduler!Fairness` assume that a live worker's loop
goes on (`main_loop` catches what an iteration raises, and containers restart), and
the queue's that time passes for orphaned rows and back-offs and that a claimed job
is run. Nothing is assumed of users, the calendar, enqueueing or crashes. A crashed
worker is its restarted self, so its fairness is that of the container's restart
policy. The other modules have
safety properties only: an HTTP request promises nothing but its answer, and a
client need not repeat one that failed. That a briefing, a narrative or a plan is
written in the end is the queue's liveness (`KeepsContract`) for its job, which is
why `BriefingHasJob` and `CompletedOnce` say that the job is there.

## 5. What is proved

Proofs hold for every value of the constants allowed by the modules' `ASSUME`s:
finite or nonempty sets, bounds that are naturals, "none" values that are no row,
and inputs in the ranges that the schemas and templates give. A theorem that needs more says so as a hypothesis in its statement.

* **Job queue.** `TypeCorrect`. `OneExecutor`: while no live worker overruns the
  stale window (`~SlowWorkers`), one worker at most holds a job. The invariant is
  inductive because it carries what the informal argument needs: batches are
  disjoint, held rows are running and fresh, and the loaded row equals the
  table's. `QueueImplementsContract`: with that, and that an effect in the
  table belongs to a succeeded job, every step maps to a contract step or a
  stutter; this is the safety half of the refinement.
  `RetriesStayInBudget` adds a count: a row's attempts are at most the budget, and
  one more for each crash: the invariant keeps a job nobody holds strictly below
  that ceiling, since a retry is made only below the budget. `Poison = {}` excludes
  jobs that kill their workers, losses that `crashes` does not count.
  `ClaimsPayForEffects` has no hypothesis: however slow and fatal the workers, the
  effects of a job and the workers that may still bring one about (`Owing`) are
  together no more than its attempts; the count uses the `FS_` facts about
  finite sets.
* **Scheduler.** `FiredOnce`, for any replicas, startups, milestones and days: a
  key is in the ledger exactly when it has its one job, and is announced at most
  once. It is inductive with `RowsAreUnique`: an uncommitted row is one tick's,
  and its key is not in the ledger, which is what the unique constraint gives.
  `TypeCorrect` beside it.
* **Notifications.** `MailMatchesRows` and `FramesFollowRows`, for any users and
  transactions: what a handler has in its stash and gate are rows of its
  transaction's last event (`AtWork`), a row whose user wants mail has its job or is
  still in the gate (`Written`), and a frame is pushed when the savepoint of its
  event is released (`Sent`). `NotificationsTypes` beside them.
* **Sessions.** `IInv` adds to `OneHeir` that no two transactions hold a row's
  lock and that a transaction about to rotate holds the lock of an unrotated
  row in force. `RotationIsLinear` says one heir per row and family, and
  `HeirsComeFromLiveRows` is the action property read off the same invariant.
* **Signatures.** `CompletionIsEarned`. The invariant adds that a transaction
  past its look (`Decided`) saw all signatures but its own committed, and
  signatures are never taken back. `LastReminderWins`: a reminder flushes its new
  hashes, and so waits for the signers' rows, before it mails (`RemindersWait`), so
  links reach a signer in the order they are stored (`LaterLinks`). It speaks of links
  that were received: whether a mail arrives the code does not know.
  `SignerSignedOnce`: two transactions never sign as one signer.
* **Roadmap and mission** (`Spec` of `Missions`). `MadeOnce`: the claim is one
  transaction's, and nobody's once the roadmap is there. `MissionsAreEarned`: who
  is to complete a mission, and is alone, has counted the tasks as they are.
  `EditsSetProgress`: who edits a task or milestone, and is alone, has counted the
  tasks as its edit leaves them (`Counted`). The invariant needs that rows of
  single creations have numbers of their own, as a new task is counted before it
  has one, and that tasks are finitely many; the templates enter only as `Small`.
  `TemplatesAddWhatTheyShow`: every row is numbered with the tree it came with
  (`TreesNumbered`), so a new tree's rows are none of those there were, and what a
  request that is alone has loaded of the applied templates is what there is. A
  tree's rows and the places its template counts are one to one (`TreeCounts`).
  `RoadmapTypes`: a milestone's phase and a task's milestone are there, which needs
  of an edit in progress that it writes a share and a status (`Writes`) and of the
  database that a row goes with what it belongs to. `MissionsOfDays` gives the same
  of missions, from the claim that `MissionInv` says one request has on a day.
* **Dashboard.** `OneJobPerBriefing`: a day that is being drafted has neither a
  briefing nor a job, and two requests draft different days.
* **Business.** `TypeCorrect` bounds versions and record numbers by the requests that
  have ended (`Done`, `StepCounts`, `EndCounts`). `CompleteKindsAnnounced`: a request
  that has counted a record finds the kind published (`Holds`), so only whoever
  counted none has to announce it. `DeletionsStick`: an update writes columns,
  never a row again. `DraftsSpareEdits` is an action property: while a draft is on
  its way, what the request holds is what had landed when the model answered
  (`DraftsOnWhatLanded`), and it fills only blocks that are empty there.
* **Assessment and health score.** `CompletesOnce`: attempts but the last are
  completed, and two completions are of one attempt only until one commits.
  `ShownMatchScore` holds however scores are computed: a commit ranks by the
  scores it commits. `DecisionsLast`: one recomputation at a time has upserted the
  score and read the rows (`Apart`), so what it has read as decided stays so
  (`ReadAll`), and the commits of decisions and of texts keep every decision there
  is (`DecisionKept`). `SignalsOfScore`: who recomputes alone deletes every signal
  there is (`DeletesAll`). `AssessmentTypes` is about the numbers, over the code's
  bank and catalogue: answers are valid ones of the bank's questions, and since a
  valid answer earns at most what its question can (`PointsAtMost`), the rounded
  shares, the means and the score are from 0 to 100 (`ScoresInRange`,
  `OverallInRange`), every score has a band, and the seven-day change is within
  100 either way. The code clamps these numbers; the theorem says that the clamps
  never act. The invariant (`ValuesInv`) has to say of a request what it
  carries: a valid answer, valid answers read, or scores (`Carried`). The sums are
  recursive functions over a list's positions, whose steps `TotalSteps` states by
  way of a least counterexample (`UpTo`).
* **Documents.** `LinksHaveDocuments`, `RevokedForGood`, `ListedFilesHaveObjects`.
  The invariant keeps apart what two requests make, and what one uploads from what
  another deletes (`Apart`).
* **Accounts.** `LinksLetInOnce`: links held by two requests differ and a held link
  is live (`HeldAreLive`), so what let a request in is consumed, once (`UsedUp`).
  `OldLinksAreVoid`: what is live of the links that were there when a request began
  is among those its UPDATE found (`FoundWhatWasThere`), whoever takes, holds or gives
  back one of them meanwhile. Neither assumes anything of the cooldown. That only the
  newest link works is not a theorem: `accounts_newest` refutes it.
* **Onboarding.** `CompletionsAreReady`: what a request that is alone has checked
  of its startup still holds (`Checked`), and no startup has a first score queued
  before it is complete (`ScoresAfterwards`), so its completion queues the first.
  `MailboxesInvitedOnce`: what a request is to store are positions in its items, of
  mailboxes that differ (`ToInvite`); while it is alone none of them has an invitation
  open or is a member (`Uninvited`). A draft that the commit makes has a number that
  no row refers to yet (`MembersThere`, `InvitationsThere`). `OnboardingTypes` follows.
* **Lists read by page.** `PagesCover`: every page ends at its oldest row, the cursor,
  which is newer than all that is left (`PageIsFirst`, by counting the newer rows;
  that a finite list has an oldest row comes from the library's well-founded order of
  finite subsets). The pages a client has read all end at its cursor (`ReaderOK`).
  It assumes that times and ids are ordered as integers are (`FeedAssumption`).
* **Journal.** `MoodsFollow`: what a request that is alone has loaded is still there
  (`StillAsLoaded`), so its commit leaves entry and log of its day alike
  (`DayAgrees`). A list is the set of its days and a page of it the days with so many
  newer ones, as days differ; `ListedOnDay` counts them to show that a page as long as
  there are days has them all.
* **Learning.** `PagesShowTheSame`: one request at most has a course's row
  (`OneStudies`), what it is to write is counted over the lessons as they are
  (`Studies`), and a course that is not enrolled in has none done (`CourseCounted`).
  That progress is 100 exactly when all lessons are done is `Shares`, by the cases of
  the catalog's two or three lessons.
* **Dependencies.** `DependenciesJoinTasks` and `CyclesTakeARace`, for any tasks and
  any number of editors: without the edges that raced the graph is acyclic. The
  invariant adds that the edge of a request that is still `fresh` closes no cycle
  (`FreshIsSafe`); deletions keep that, and an insertion ends it. Since `Reaches` is
  stated by closed sets, the lemma `SafeEdge` combines two closed sets instead of
  inducting over paths. `ReplanningClosesNoCycle` is the same of `Replan!Spec`: dates,
  re-plans and the days that pass are no way to close one.
* **Re-planner**, for any finite set of milestones, any number of editors, and
  whatever order rows and upstreams come in. `ReplanTypes`. `LatestBlockerDecides`:
  without a cycle a milestone shifts by the most that itself or anything it waits on
  must. `WholeProposalIsEnough`: with cycles or without, what is proposed leaves
  nothing late. Both follow from `ReplanInvariant`. Of the sort it says that no
  milestone is lost (`Covered`), that the stack descends along upstreams without
  repeating (`StackDescends`), and that without a cycle an upstream of what is on
  the stack is yet to be visited, sorted, or next above (`UpstreamNotMissed`): one
  that the cycle guard skips would be its own ancestor. So when a milestone is left
  all its upstreams are sorted (`UpstreamFirst`), and when it is shifted they have
  theirs (`ShiftsExactly`). What a milestone waits on is stated by closed sets
  (`Ancestors`), so that no induction over paths is needed, and that a maximum
  exists follows from the well-founded order of finite subsets (`MaxOfFinite`).

The theorems of the workspace start from empty tables; the run `workspace` checks
the same properties also from tables that have rows at first.

Only model-checked, and why:

* All liveness (`KeepsContract`'s liveness half, what stays due is claimed):
  temporal reasoning under fairness is outside the proof system.
* Of `WorkspaceTypeOK`, the tasks of a mission, which a sort chooses, and the sums
  that `list_paths` shows: what a fold computes. Its other conjuncts are theorems,
  component by component: `RoadmapTypes`, `MissionsOfDays`, `DashboardTypes`,
  `DocumentTypes`, `JournalTypes`, `EnrollmentsAreTyped`, `AccountTypes`,
  `OnboardingTypes`, `FeedTypes`, `SignerSignedOnce` and `DependenciesJoinTasks`.

## 6. What is left out

* Within modelled parts: texts and titles, owners, the history row and reason of a
  re-plan, stream tickets, the contents of notifications and mails, hashing and
  encryption, prompts and the model's words (its answer is a choice), wall-clock
  values beyond the comparisons made with them.
* A transaction that fails on a database error is a rollback; connection loss
  after a commit that succeeded is not modelled.
* Rows that differ only in the startup they belong to do not interact; one
  startup is modelled. So are one canvas and one kind of record: others are the
  same code over other rows.

Not modelled, and why:

* MFA: tickets and codes are library cryptography and expiring keys, and the rows
  beside them are written by one user about to log in.
* Notification preferences: one dictionary merged and written whole. Of two
  updates the last wins, and nothing relates to what it holds.
* The model client, e-mail, storage and the logo's upload are calls to other
  systems; what callers rely on is modelled where they call.
* Tenancy, dependencies, errors, envelopes, configuration, rate limiting, schemas
  and migrations are lookups and declarations; their constraints are used.
* The audit log: an insert in its caller's transaction that nothing reads.

## 7. Plan

What is left is to prove more about what a sort leaves.

1. That a mission's tasks are tasks of the roadmap, three at most: the sort is a
   fold over a set, so this needs it stated as the permutation it is.
2. That the re-planner's sort and shifts end, which TLC would check under fairness
   of the request that computes.
