------------------------------ MODULE Learning ------------------------------
(***************************************************************************)
(* The academy of one member of a workspace                                *)
(* (src/app/services/learning and its endpoints): enrolments, completed    *)
(* lessons and certificates over the catalog in the code.  A completion    *)
(* locks the enrolment's row to the end of its transaction.                *)
(***************************************************************************)
EXTENDS Transactions, Sequences, SequencesExt, FiniteSetsExt, Rounding, TLC

CONSTANT Studied  \* courses that are enrolled in

VARIABLES
    enrollments,      \* course -> enrolment
    lessonProgress,   \* <<course, n>> of the completed lessons
    certificates,     \* courses certified
    certificateJobs   \* courses whose certificate is to be drawn

learningVars == <<enrollments, lessonProgress, certificates, certificateJobs>>

Enrollment == [progress : 0..100, completed : BOOLEAN]

(* The minutes of each lesson.                                              *)
_course(id, level, tags, minutes) ==
    [id |-> id, level |-> level, tags |-> tags, minutes |-> minutes]

ALL_COURSES ==
    <<_course("idea-shape-the-problem", "beginner", {"idea", "validation"}, <<8, 10, 12>>),
      _course("validation-talk-to-customers", "beginner", {"validation"}, <<9, 14, 11>>),
      _course("build-scope-the-mvp", "intermediate", {"validation", "build"}, <<12, 10>>),
      _course("launch-plan-go-to-market", "intermediate", {"launch"}, <<11, 9>>),
      _course("growth-find-a-channel", "advanced", {"growth"}, <<13, 10>>),
      _course("scale-build-the-org", "advanced", {"scale"}, <<12, 14>>)>>

ASSUME StudiedAssumption == Studied \subseteq {c.id : c \in ToSet(ALL_COURSES)}

ALL_PATHS ==
    <<[stage |-> "validation", courses |-> {"idea-shape-the-problem", "validation-talk-to-customers", "build-scope-the-mvp"}],
      [stage |-> "launch", courses |-> {"launch-plan-go-to-market", "growth-find-a-channel"}]>>

get_course(id) == CHOOSE c \in ToSet(ALL_COURSES) : c.id = id
LESSONS == UNION {{<<c.id, n>> : n \in DOMAIN c.minutes} : c \in ToSet(ALL_COURSES)}
course_duration_min(course) == FoldLeft(LAMBDA a, b : a + b, 0, course.minutes)
path_duration_min(path) == MapThenSumSet(LAMBDA id : course_duration_min(get_course(id)), path.courses)

LearningInit ==
    /\ enrollments = << >> /\ lessonProgress = {} /\ certificates = {} /\ certificateJobs = {}

-----------------------------------------------------------------------------
completed_lesson_ids(done, course) == {n \in 1..5 : <<course, n>> \in done}

course_progress(done, course) ==
    Pct(Cardinality(completed_lesson_ids(done, course)), Len(get_course(course).minutes))

(* The row of an enrolment, inserted or locked, keeps others from both.     *)
Holds(q, course) == txn[q].op \in {"enrolled", "studied"} /\ txn[q].course = course

create_enrollment(r) ==
    /\ \E c \in Studied : Begin(r, [op |-> "enroll", course |-> c])
    /\ UNCHANGED learningVars

(* Found, or inserted once no other insert of it is on its way.             *)
get_or_create_enrollment(r) ==
    LET c == txn[r].course IN
    /\ Doing(r, "enroll")
    /\ c \notin DOMAIN enrollments => ~\E q \in Requests : Holds(q, c)
    /\ Go(r, [op |-> IF c \in DOMAIN enrollments THEN "found" ELSE "enrolled", course |-> c])
    /\ UNCHANGED learningVars

CommitEnrollment(r) ==
    /\ txn[r].op \in {"found", "enrolled"}
    /\ enrollments' = IF Doing(r, "found") THEN enrollments
                      ELSE Put(enrollments, txn[r].course, [progress |-> 0, completed |-> FALSE])
    /\ Commit(r)
    /\ UNCHANGED <<lessonProgress, certificates, certificateJobs>>

update_lesson_progress(r) ==
    /\ \E l \in LESSONS : l[1] \in Studied /\ Begin(r, [op |-> "complete_lesson", course |-> l[1], lesson |-> l])
    /\ UNCHANGED learningVars

Studying(t) ==
    LET done == lessonProgress \cup {t.lesson}
        progress == course_progress(done, t.course)
        before == t.course \in DOMAIN enrollments /\ enrollments[t.course].completed
    IN  [op |-> "studied", course |-> t.course, lesson |-> t.lesson, progress |-> progress,
         issue |-> progress = 100 /\ ~before]

(* Mutant of complete_lesson: counted without the lock.                     *)
complete_unlocked(r) ==
    /\ Doing(r, "complete_lesson")
    /\ Go(r, Studying(txn[r]))
    /\ UNCHANGED learningVars

(* Enrolled if need be and locked, the lesson is recorded and the course    *)
(* counted.                                                                 *)
complete_lesson(r) ==
    /\ Doing(r, "complete_lesson") /\ ~\E q \in Requests : Holds(q, txn[r].course)
    /\ Go(r, Studying(txn[r]))
    /\ UNCHANGED learningVars

(* _issue_certificate: with it goes a job that no worker handles.           *)
_issue_certificate(t) == IF t.issue THEN {t.course} ELSE {}

CommitLesson(r) ==
    LET t == txn[r]
        before == t.course \in DOMAIN enrollments /\ enrollments[t.course].completed
    IN  /\ Doing(r, "studied")
        /\ lessonProgress' = lessonProgress \cup {t.lesson}
        /\ enrollments' = Put(enrollments, t.course, [progress |-> t.progress, completed |-> before \/ t.issue])
        /\ certificates' = certificates \cup _issue_certificate(t)
        /\ certificateJobs' = certificateJobs \cup _issue_certificate(t)
        /\ Commit(r)

LearningStep(r) ==
    \/ create_enrollment(r) \/ get_or_create_enrollment(r) \/ CommitEnrollment(r)
    \/ update_lesson_progress(r) \/ complete_lesson(r) \/ CommitLesson(r)

LearningNext == \E r \in Requests : LearningStep(r) \/ (Rollback(r) /\ UNCHANGED learningVars)

LearningSpec == TransactionsInit /\ LearningInit /\ [][LearningNext]_<<learningVars, txnVars>>

-----------------------------------------------------------------------------
course_summary(c) ==
    [id |-> c.id, enrolled |-> c.id \in DOMAIN enrollments,
     progress |-> IF c.id \in DOMAIN enrollments THEN enrollments[c.id].progress ELSE 0,
     completed |-> c.id \in DOMAIN enrollments /\ enrollments[c.id].completed]
course_detail(c) ==
    [summary |-> course_summary(c), completed |-> completed_lesson_ids(lessonProgress, c.id),
     lessons |-> DOMAIN c.minutes]

list_courses == [i \in DOMAIN ALL_COURSES |-> course_summary(ALL_COURSES[i])]
get_course_detail(id) == course_detail(get_course(id))

path_progress(path) ==
    Round(MapThenSumSet(LAMBDA id : course_summary(get_course(id)).progress, path.courses),
          Cardinality(path.courses))
list_paths ==
    [i \in DOMAIN ALL_PATHS |-> [minutes |-> path_duration_min(ALL_PATHS[i]), progress |-> path_progress(ALL_PATHS[i])]]

_LEVEL_RANK == [beginner |-> 0, intermediate |-> 1, advanced |-> 2]

RECOMMENDATION_SORT_KEYS(i) == <<_LEVEL_RANK[ALL_COURSES[i].level], i>>

(* The shelf, as its courses' keys: these differ, and it is in their order. *)
(* Without a stage, the beginner courses of all.                            *)
recommended_courses(stage, completed) ==
    LET fits(c) == IF stage = "none" THEN c.level = "beginner" ELSE stage \in c.tags
    IN  {RECOMMENDATION_SORT_KEYS(i) :
           i \in {j \in DOMAIN ALL_COURSES : fits(ALL_COURSES[j]) /\ ALL_COURSES[j].id \notin completed}}

continue_watching == {c \in DOMAIN enrollments : ~enrollments[c].completed}

get_recommendations(stage) ==
    [recommended |-> recommended_courses(stage, DOMAIN enrollments \ continue_watching),
     watching |-> continue_watching]

list_my_certificates == certificates

LearningTypeOK ==
    /\ \A c \in DOMAIN enrollments : c \in Studied /\ enrollments[c] \in Enrollment
    /\ lessonProgress \subseteq LESSONS /\ certificateJobs = certificates
    /\ \A i \in DOMAIN list_paths : list_paths[i].progress \in 0..100 /\ list_paths[i].minutes \in 19..86

(* However completions and enrolments interleave, the pages agree: a        *)
(* course's progress is that of the lessons marked on its page, a           *)
(* certificate is there for exactly the courses studied to the end, and     *)
(* these are neither recommended nor to be continued, at any stage.         *)
PagesAgree ==
    \A i \in DOMAIN list_courses :
      LET c == list_courses[i]
          page == get_course_detail(c.id)
          finished == page.completed = page.lessons
      IN  /\ c.progress = course_progress(lessonProgress, c.id)
          /\ c.id \in list_my_certificates <=> finished
          /\ c.completed <=> finished
          /\ \A stage \in {"none", "idea", "validation", "build", "launch", "growth", "scale"} :
               LET shelf == get_recommendations(stage)
               IN  finished => /\ c.id \notin shelf.watching
                               /\ c.id \notin {ALL_COURSES[key[2]].id : key \in shelf.recommended}
=============================================================================
