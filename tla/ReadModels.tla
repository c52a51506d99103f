----------------------------- MODULE ReadModels -----------------------------
(***************************************************************************)
(* What the pages say about one task of one course (dashboard_service,     *)
(* unified_submission_service, statistics_service, and the lists and the   *)
(* grades page in api/exams.py and api/assignments.py).  Nothing is cached:*)
(* every page is computed from the rows, but the same question is answered *)
(* in several places, in Python here and in SQL there.  The state is the   *)
(* rows and the actions are the requests that change them; the pages are   *)
(* operators, and the properties compare them.                             *)
(***************************************************************************)
EXTENDS Naturals, FiniteSets, Sequences, FiniteSetsExt

CONSTANTS Pupils, Exercises, \* the students and the questions of the assignment
          MaxEdits,          \* bound: changes of the roster and of the task
          MaxHanded,         \* bound: submissions to the assignment
          MaxHour            \* bound: the clock

\* publish_assignment refuses an assignment without a question, and a published one keeps its own.
ASSUME PagesAssumption == IsFiniteSet(Pupils) /\ IsFiniteSet(Exercises) /\ Exercises # {}

VARIABLES topic,     \* what is looked at: "assignment", "exam", or the notebook of
                     \* a lesson ("experiment") or of a module
          hour, close,          \* the clock; due_at of an assignment, end_at of an exam
          public, issued,       \* the course and the task are published
          reach,                \* the audience of the task
          roster,               \* who is enrolled, who is in the selected class
          work,               \* Submission and CodeGrade by student and question
          attempt, report,      \* status of ExamSubmission and ExperimentSubmission
          released, reopened,   \* review_released_at; end_at was moved later after that
          show,                 \* what the exam shows: "score", "questions", "answers"
          asking, releasing,    \* start_exam and release_exam_review between check and write
          overtaken,            \* one of them wrote what its check would have refused by then
          edits

pageVars == <<topic, hour, close, public, issued, reach, roster, work, attempt, report,
              released, reopened, show, asking, releasing, overtaken, edits>>
sitVars == <<asking, releasing, overtaken>>
settingVars == <<hour, close, public, issued, reach, roster, released, reopened, show, edits>>
rowVars == <<work, attempt, report, sitVars>>
taskRowVars == <<settingVars, sitVars>>

OpensAt == 1
NoWork == [gs |-> "none", broken |-> FALSE, scored |-> FALSE, flagged |-> FALSE]

PageInit ==
  /\ topic \in {"assignment", "exam", "experiment", "module"}
  /\ hour = 0 /\ close = 2 /\ public = TRUE /\ issued \in BOOLEAN
  /\ reach = [mode |-> "all_enrolled", include |-> {}, exclude |-> {}]
  /\ roster = [enrolled |-> Pupils, members |-> {}]
  /\ work = [p \in Pupils \X Exercises |-> NoWork]
  /\ attempt = [s \in Pupils |-> "none"]
  /\ report = [s \in Pupils |-> "none"]
  /\ released = FALSE /\ reopened = FALSE /\ show = {} /\ edits = 0
  /\ asking = {} /\ releasing = FALSE /\ overtaken = FALSE

-----------------------------------------------------------------------------
(* Who a task is for: in Python, in SQL for the student, in SQL again.      *)

Base == IF reach.mode = "all_enrolled" THEN roster.enrolled
        ELSE IF reach.mode = "selected_classes" THEN roster.members ELSE {}

Effective == (Base \ reach.exclude) \cup reach.include

\* assignment_visible_condition and exam_visible_condition: the whitelist is an
\* alternative to "published and in the range".
Visible(s) == /\ (issued /\ s \in Base) \/ s \in reach.include
              /\ s \notin reach.exclude \/ s \in reach.include

\* Mutant of OnGradesPage: whoever is excluded stays out, on the whitelist or not.
OnGradesPageStrict(s) == /\ s \in Base \/ s \in reach.include
                         /\ s \notin reach.exclude

OnGradesPage(s) ==
  /\ s \in Base \/ s \in reach.include
  /\ s \notin reach.exclude \/ s \in reach.include

\* list_exams: the count of the course serves for a task without lists of its own.
ExpectedCount ==
  IF reach.mode # "all_enrolled" \/ reach.include # {} \/ reach.exclude # {}
    THEN Cardinality(Effective) ELSE Cardinality(roster.enrolled)

-----------------------------------------------------------------------------
(* The requests that change the rows.                                       *)

Edited == /\ edits < MaxEdits /\ edits' = edits + 1 /\ UNCHANGED <<topic, hour, rowVars>>

Began == {s \in Pupils : attempt[s] # "none"}

HourPasses == /\ hour < MaxHour /\ hour' = hour + 1
              /\ UNCHANGED <<topic, close, public, issued, reach, roster, rowVars>>
              /\ UNCHANGED <<released, reopened, show, edits>>

\* The course is published or archived.
TurnCourse == /\ Edited /\ public' = ~public
              /\ UNCHANGED <<close, issued, reach, roster, released, reopened, show>>

\* A student enters or leaves the course or the class.
MoveStudent(s) ==
  /\ Edited
  /\ \E list \in {"enrolled", "members"} :
       roster' = [roster EXCEPT ![list] = IF s \in @ THEN @ \ {s} ELSE @ \cup {s}]
  /\ UNCHANGED <<close, public, issued, reach, released, reopened, show>>

\* save_audience; once a student has begun, the mode is locked and nobody who
\* has begun is removed.
SaveAudience ==
  /\ Edited
  /\ UNCHANGED <<close, public, issued, roster, released, reopened, show>>
  /\ \E mode \in {"all_enrolled", "selected_classes", "whitelist_only"},
        include \in SUBSET Pupils, exclude \in SUBSET Pupils :
       /\ include \cap exclude = {}
       /\ reach' = [mode |-> mode, include |-> include, exclude |-> exclude]
       /\ (issued /\ Began # {}) => mode = reach.mode /\ (Effective \ Effective') \cap Began = {}
       /\ issued => Effective' # {}

\* import_audience_students adds to one list and does not look at the other.
ImportAudience(s) ==
  /\ Edited
  /\ \E list \in {"include", "exclude"} : reach' = [reach EXCEPT ![list] = @ \cup {s}]
  /\ UNCHANGED <<close, public, issued, roster, released, reopened, show>>

\* validate_publish: no answers without the questions.
ShownTogether(shown) == "answers" \in shown => "questions" \in shown

IssueTask == /\ Edited /\ ~issued /\ Effective # {} /\ issued' = TRUE
             /\ topic = "exam" => ShownTogether(show)
             /\ UNCHANGED <<close, public, reach, roster, released, reopened, show>>

\* An exam somebody has begun stays published.
WithdrawTask == /\ Edited /\ issued /\ issued' = FALSE
                /\ topic = "exam" => Began = {}
                /\ UNCHANGED <<close, public, reach, roster, released, reopened, show>>

\* update_exam: end_at may be moved later at any time.
Postpone == /\ Edited /\ topic = "exam" /\ close < MaxHour /\ close' = close + 1
            /\ issued => Effective # {}
            /\ reopened' = (reopened \/ released)
            /\ UNCHANGED <<public, issued, reach, roster, released, show>>

\* Mutant of SaveShown: the exam is not validated again once it is published.
SaveShownUnchecked(flag, on) ==
  /\ Edited /\ topic = "exam"
  /\ show' = IF on THEN show \cup {flag} ELSE show \ {flag}
  /\ UNCHANGED <<close, public, issued, reach, roster, released, reopened>>

\* update_exam turns the questions on with the answers, and validates the whole
\* exam again when it is published.
SaveShown(flag, on) ==
  /\ Edited /\ topic = "exam"
  /\ show' = IF ~on THEN show \ {flag}
             ELSE show \cup (IF flag = "answers" THEN {flag, "questions"} ELSE {flag})
  /\ issued => ShownTogether(show') /\ Effective # {}
  /\ UNCHANGED <<close, public, issued, reach, roster, released, reopened>>

\* create_submission
MayHandIn(s) == issued /\ s \in Effective /\ hour < close

HandInWork(s, q) ==
  /\ topic = "assignment" /\ MayHandIn(s) /\ work[<<s, q>>] = NoWork
  /\ Cardinality({p \in Pupils \X Exercises : work[p] # NoWork}) < MaxHanded
  /\ work' = [work EXCEPT ![<<s, q>>].gs = "waiting"]
  /\ UNCHANGED <<topic, taskRowVars, attempt, report>>

\* The judge and the AI: a run completes with or without a score, breaks down
\* and waits again, or gives up; a grade is scored, flagged for review or both;
\* the teacher settles what is flagged.  "waiting" is pending, queued or running.
AfterJudge(w) ==
  IF w.gs = "waiting"
    THEN {[w EXCEPT !.broken = TRUE], [w EXCEPT !.broken = TRUE, !.gs = "system_error"]}
         \cup {[w EXCEPT !.broken = FALSE, !.gs = "completed", !.scored = b] : b \in BOOLEAN}
  ELSE IF w.gs = "completed"
    THEN IF w.flagged THEN {[w EXCEPT !.scored = TRUE, !.flagged = FALSE]}
         ELSE {[w EXCEPT !.scored = TRUE], [w EXCEPT !.flagged = TRUE]}
  ELSE {}

JudgeWork(s, q) ==
  /\ \E new \in AfterJudge(work[<<s, q>>]) : work' = [work EXCEPT ![<<s, q>>] = new]
  /\ UNCHANGED <<topic, taskRowVars, attempt, report>>

\* The hand-in, the grading, the retry and the teacher's decision.
AfterAttempt(a) ==
  IF a = "started" THEN {"submitted"}
  ELSE IF a = "submitted" THEN {"grading"}
  ELSE IF a = "grading" THEN {"graded", "review_required"}
  ELSE IF a = "review_required" THEN {"grading", "graded"} ELSE {}

SitExam(s) ==
  /\ topic = "exam"
  /\ \E new \in AfterAttempt(attempt[s]) : attempt' = [attempt EXCEPT ![s] = new]
  /\ UNCHANGED <<topic, taskRowVars, work, report>>

\* start_exam reads the exam, the range and the attempt, and writes the attempt later.
MaySit(s) == issued /\ s \in Effective /\ attempt[s] = "none" /\ OpensAt <= hour /\ hour < close

AskToSit(s) ==
  /\ topic = "exam" /\ s \notin asking /\ MaySit(s)
  /\ asking' = asking \cup {s}
  /\ UNCHANGED <<topic, settingVars, work, attempt, report, releasing, overtaken>>

BeginExam(s) ==
  /\ s \in asking /\ asking' = asking \ {s}
  /\ attempt' = [attempt EXCEPT ![s] = IF @ = "none" THEN "started" ELSE @]
  /\ overtaken' = (overtaken \/ ~issued \/ released)
  /\ UNCHANGED <<topic, settingVars, work, report, releasing>>

\* A notebook record is started, handed in, and reviewed with or without a score.
AfterReport(r) ==
  IF r = "none" THEN {"started"} ELSE IF r = "started" THEN {"submitted"}
  ELSE IF r = "submitted" THEN {"commented", "scored"}
  ELSE IF r = "commented" THEN {"scored"} ELSE {}

WriteReport(s) ==
  /\ topic \in {"experiment", "module"}
  /\ \E new \in AfterReport(report[s]) : report' = [report EXCEPT ![s] = new]
  /\ UNCHANGED <<topic, taskRowVars, work, attempt>>

\* release_exam_review looks at the end and at the open attempts, and writes later.
MayRelease == close <= hour /\ \A s \in Pupils : attempt[s] # "started"

AskToRelease ==
  /\ topic = "exam" /\ ~releasing /\ MayRelease
  /\ releasing' = TRUE
  /\ UNCHANGED <<topic, settingVars, work, attempt, report, asking, overtaken>>

ReleaseReview ==
  /\ releasing /\ releasing' = FALSE
  /\ released' = TRUE /\ overtaken' = (overtaken \/ ~MayRelease)
  /\ UNCHANGED <<topic, hour, close, public, issued, reach, roster, reopened, show, edits>>
  /\ UNCHANGED <<work, attempt, report, asking>>

PageNext ==
  \/ HourPasses \/ TurnCourse \/ SaveAudience \/ IssueTask \/ WithdrawTask \/ Postpone
  \/ AskToRelease \/ ReleaseReview
  \/ \E flag \in {"score", "questions", "answers"}, on \in BOOLEAN : SaveShown(flag, on)
  \/ \E s \in Pupils : MoveStudent(s) \/ ImportAudience(s) \/ WriteReport(s)
  \/ \E s \in Pupils : AskToSit(s) \/ BeginExam(s) \/ SitExam(s)
  \/ \E s \in Pupils, q \in Exercises : HandInWork(s, q) \/ JudgeWork(s, q)

-----------------------------------------------------------------------------
(* One word for the state of a submission: submission_status.py in Python,  *)
(* unified_submission_service.py in SQL.                                    *)

\* CASE of SQL: the first clause that holds.
CaseOf(clauses, otherwise) ==
  LET true == {i \in DOMAIN clauses : clauses[i][1]}
  IN  IF true = {} THEN otherwise ELSE clauses[Min(true)][2]

WorkWord(w) ==
  IF w.broken \/ w.gs = "system_error" THEN "failed"
  ELSE IF w.gs = "waiting" THEN "pending_grading"
  ELSE IF w.flagged THEN "review_required"
  ELSE IF w.scored THEN "graded" ELSE "pending_grading"

WorkCase(w) == CaseOf(<< <<w.broken \/ w.gs = "system_error", "failed">>,
                         <<w.gs = "waiting", "pending_grading">>,
                         <<w.flagged, "review_required">>,
                         <<w.scored, "graded">> >>, "pending_grading")

WorkTone(w) == CaseOf(<< <<w.broken \/ w.gs = "system_error", "danger">>,
                         <<w.gs = "waiting", "warning">>,
                         <<w.flagged, "info">>,
                         <<w.scored, "success">> >>, "warning")

AttemptWord(a) == IF a \in {"graded", "review_required"} THEN a ELSE "pending_grading"

AttemptCase(a) == CaseOf(<< <<a = "review_required", "review_required">>,
                            <<a = "graded", "graded">> >>, "pending_grading")

ReportWord(r) == IF r = "scored" THEN "graded" ELSE "pending_grading"

ReportCase(r) == CaseOf(<< <<r # "scored", "pending_grading">> >>, "graded")

Tones == [pending_grading |-> "warning", graded |-> "success", review_required |-> "info",
          failed |-> "danger"]

Works == {p \in Pupils \X Exercises : work[p] # NoWork}
Reports == {s \in Pupils : report[s] \notin {"none", "started"}}

\* The union of the three lists, and its summary.
CentreWords == [p \in Works |-> WorkCase(work[p])]
Tally(word) == Cardinality({p \in Works : CentreWords[p] = word})
               + Cardinality({s \in Began : AttemptCase(attempt[s]) = word})
               + Cardinality({s \in Reports : ReportCase(report[s]) = word})
AllRows == Cardinality(Works) + Cardinality(Began) + Cardinality(Reports)

-----------------------------------------------------------------------------
(* The pages of a student.                                                  *)

\* list_assignments and list_exams; _submitted_map.
ListedTo(s) == issued /\ public /\ Visible(s)
IsSubmitted(s) == Exercises # {} /\ \A q \in Exercises : work[<<s, q>>] # NoWork

\* build_student_dashboard: what is still to be handed in, what is still to come.
ToDo(s) == /\ topic = "assignment" /\ public /\ Visible(s)
           /\ \E q \in Exercises : work[<<s, q>>] = NoWork
ToCome(s) == /\ topic = "exam" /\ public /\ Visible(s)
             /\ OpensAt > hour \/ close > hour
             /\ attempt[s] \notin {"submitted", "grading", "graded"}

\* The card of the course, for those who are enrolled, asks again.
CourseCard(s) == [todo |-> topic = "assignment" /\ Visible(s)
                           /\ \E q \in Exercises : work[<<s, q>>] = NoWork,
                  tocome |-> topic = "exam" /\ Visible(s) /\ (OpensAt > hour \/ close > hour)
                                            /\ attempt[s] \notin {"submitted", "grading", "graded"}]
OnCourseList(s) == public /\ s \in roster.enrolled

\* What is under way and what to go on with; the latest feedback.
UnderWay(s) == OnCourseList(s) /\ report[s] = "started"
GoOnWith(s) == IF OnCourseList(s) /\ report[s] # "none" THEN "notebook"
               ELSE IF OnCourseList(s) THEN "course" ELSE "nothing"
Feedback(s) ==
  IF ~OnCourseList(s) THEN {}
  ELSE {<<"assignment", q>> : q \in {e \in Exercises : /\ work[<<s, e>>].gs = "completed"
                                                       /\ work[<<s, e>>].scored}}
       \cup (IF attempt[s] = "graded" THEN {<<"exam">>} ELSE {})
       \cup (IF report[s] \in {"commented", "scored"} THEN {<<"experiment">>} ELSE {})

\* student_exam_status
ExamStatus(s) ==
  IF attempt[s] = "started" THEN "in_progress"
  ELSE IF attempt[s] # "none" THEN attempt[s]
  ELSE IF hour < OpensAt THEN "scheduled"
  ELSE IF hour >= close THEN "missed" ELSE "ready"
CanStart(s) == ExamStatus(s) = "ready" /\ issued

\* build_student_exam_session and get_my_grade decide separately what is shown.
Session(s) == [score   |-> attempt[s] = "graded" /\ "score" \in show,
               answers |-> released /\ {"questions", "answers"} \subseteq show]
MyGrade(s) == [score   |-> "score" \in show /\ attempt[s] = "graded",
               answers |-> released /\ "answers" \in show]
SeesAnswers(s) == Session(s).answers \/ (attempt[s] # "none" /\ MyGrade(s).answers)

-----------------------------------------------------------------------------
(* The pages of the teacher.                                                *)

\* exam_grades: who is listed, with which status, by which filter.
GradeRows == {s \in Pupils : OnGradesPage(s) \/ attempt[s] # "none"}

GradeStatus(s) ==
  CaseOf(<< <<attempt[s] # "none", IF attempt[s] = "started" THEN "in_progress" ELSE attempt[s]>>,
            <<OpensAt > hour, "scheduled">>,
            <<close <= hour, "missed">> >>, "ready")

GradeFilter(s, status) ==
  CASE status = "in_progress" -> attempt[s] = "started"
    [] status = "scheduled"   -> attempt[s] = "none" /\ OpensAt > hour
    [] status = "ready"       -> attempt[s] = "none" /\ OpensAt <= hour /\ close > hour
    [] status = "missed"      -> attempt[s] = "none" /\ close <= hour
    [] OTHER                  -> attempt[s] = status

StatusKeys == {"scheduled", "ready", "in_progress", "submitted", "grading", "graded",
               "review_required", "missed"}
StatusCount(status) == Cardinality({s \in GradeRows : GradeStatus(s) = status})

\* list_exams: the filter by status, and the number of participants.
InFilter(status) == CASE status = "draft"     -> ~issued
                      [] status = "published" -> issued /\ close >= hour
                      [] status = "ended"     -> issued /\ close < hour
CompletedStatuses == {"submitted", "grading", "graded", "review_required"}
Participants == Cardinality({s \in Pupils : attempt[s] \in CompletedStatuses})

\* The reports of a notebook are for the teacher of the course or the owner of the
\* module: the list and its summary, and the right to open and to review one.
TeacherSees(teacher) == \/ teacher = "of the course" /\ topic = "experiment"
                        \/ teacher = "of the module" /\ topic = "module"
OwnsRecord(teacher) == IF topic = "experiment" THEN teacher = "of the course"
                       ELSE topic = "module" /\ teacher = "of the module"
ReportList(teacher, status) ==
  {s \in Reports : /\ TeacherSees(teacher)
                   /\ status = "pending" => report[s] # "scored"
                   /\ status = "graded" => report[s] = "scored"}
ReportSummary(teacher) ==
  LET total == Cardinality({s \in Reports : TeacherSees(teacher)})
      pending == Cardinality({s \in Reports : TeacherSees(teacher) /\ report[s] # "scored"})
  IN  [all |-> total, pending |-> pending, graded |-> total - pending]

\* build_teacher_grade_statistics
ExpectedInStatistics == LET n == Cardinality(Effective)
                            m == Cardinality(Began)
                        IN  IF m > n THEN m ELSE n

\* _teacher_pending_review_rows, _teacher_pending_assignment_rows and
\* _teacher_pending_exam_release_rows.
Unreviewed == {s \in Pupils : topic = "experiment" /\ report[s] = "submitted"}
Flagged == {p \in Works : work[p].flagged}
InQueue == {p \in Works : issued /\ work[p].gs = "waiting"}
ToRelease == /\ topic = "exam" /\ issued /\ ~released /\ close <= hour
             /\ \A s \in Pupils : attempt[s] # "in_progress"
             /\ \E s \in Pupils : attempt[s] \in CompletedStatuses
DueSoon == topic = "assignment" /\ issued /\ close > hour

\* _deadline_stats_batch
DeadlineStats ==
  LET answered(s) == {q \in Exercises : <<s, q>> \in Works}
      done == {s \in Pupils : Cardinality(answered(s)) >= Cardinality(Exercises)}
  IN  <<Cardinality(done \cap Effective), Cardinality(Effective)>>

AllDone == DeadlineStats[2] > 0 /\ DeadlineStats[1] >= DeadlineStats[2]

\* build_teacher_dashboard_counts, the badges of the side bar.
Badges == [grading |-> Cardinality(Unreviewed) + Cardinality(InQueue),
           review  |-> Cardinality(Unreviewed) + Cardinality(Flagged),
           due     |-> IF DueSoon THEN 1 ELSE 0,
           release |-> IF ToRelease THEN 1 ELSE 0]

\* build_teacher_dashboard: the queue of things to do, a line for each task with
\* the number of submissions behind it.
WorkItems ==
  {i \in {[kind |-> "experiment_review", count |-> Cardinality(Unreviewed)],
          [kind |-> "assignment_grading", count |-> Cardinality(InQueue)],
          [kind |-> "ai_review", count |-> Cardinality(Flagged)],
          [kind |-> "exam_release", count |-> IF ToRelease THEN 1 ELSE 0],
          [kind |-> "deadline", count |-> IF DueSoon /\ ~AllDone THEN 1 ELSE 0]} :
     i.count > 0}
CountOf(kinds) == MapThenSumSet(LAMBDA i : i.count, {i \in WorkItems : i.kind \in kinds})

\* The line of the course further down the page.
CourseHealth == [review |-> Cardinality(Unreviewed) + Cardinality(Flagged),
                 due |-> IF DueSoon THEN 1 ELSE 0,
                 handed |-> IF DueSoon THEN DeadlineStats[1] ELSE 0]

\* _teacher_recent_submissions
Recent == [p \in Works |-> WorkWord(work[p])]

-----------------------------------------------------------------------------
(* The properties.                                                          *)

\* A submission has the same word and colour in the table of the dashboard and in
\* the submission centre, and the figures of the centre add up to its rows.
WordsAgree ==
  /\ \A p \in Works : Recent[p] = CentreWords[p] /\ Tones[Recent[p]] = WorkTone(work[p])
  /\ \A s \in Began : AttemptWord(attempt[s]) = AttemptCase(attempt[s])
  /\ \A s \in Reports : ReportWord(report[s]) = ReportCase(report[s])
  /\ Tally("pending_grading") + Tally("graded") + Tally("review_required") + Tally("failed")
       = AllRows

\* The range of a task is the same in its four computations, whatever was saved
\* or imported; the student's condition is about published tasks.
RangesAgree ==
  /\ \A s \in Pupils : /\ issued => (Visible(s) <=> s \in Effective)
                       /\ OnGradesPage(s) <=> s \in Effective
  /\ ExpectedCount = Cardinality(Effective)

\* The grades page: the status shown, the filter and the counts are computed three
\* times; the list is at least as long as the statistics say.
GradesAgree ==
  topic = "exam" =>
    /\ \A s \in GradeRows : /\ GradeStatus(s) = ExamStatus(s)
                            /\ \A key \in StatusKeys : GradeFilter(s, key) <=> ExamStatus(s) = key
    /\ MapThenSumSet(StatusCount, StatusKeys) = Cardinality(GradeRows)
    /\ ExpectedInStatistics <= Cardinality(GradeRows)
    /\ MapThenSumSet(StatusCount, CompletedStatuses) = Participants
    /\ Cardinality({key \in {"draft", "published", "ended"} : InFilter(key)}) = 1
    /\ InFilter("ended") => \A s \in Pupils : ExamStatus(s) \notin {"scheduled", "ready"}

\* The reports a teacher finds are those the teacher may open and review, their
\* figures are those of the filters and of the submission centre, and the queue of
\* the dashboard holds no other.
ReportsAgree ==
  /\ \A teacher \in {"of the course", "of the module"} :
       /\ \A s \in Reports : s \in ReportList(teacher, "all") <=> OwnsRecord(teacher)
       /\ \A status \in {"all", "pending", "graded"} :
            ReportSummary(teacher)[status] = Cardinality(ReportList(teacher, status))
       /\ \A s \in ReportList(teacher, "all") :
            s \in ReportList(teacher, "pending") <=> ReportCase(report[s]) = "pending_grading"
  /\ Unreviewed \subseteq ReportList("of the course", "pending")

\* The badges of the teacher are the sums of the lines of the page and of the
\* course, and a line leads to what it counts unless the judge broke down on it.
CountsAgree ==
  /\ Badges.grading = CountOf({"experiment_review", "assignment_grading"})
  /\ Badges.review = CountOf({"experiment_review", "ai_review"})
  /\ Badges.review = CourseHealth.review
  /\ Badges.release = CountOf({"exam_release"})
  /\ Badges.due = CourseHealth.due /\ CountOf({"deadline"}) <= Badges.due
  /\ \A p \in InQueue : work[p].broken \/ CentreWords[p] = "pending_grading"
  /\ \A s \in Unreviewed : ReportCase(report[s]) = "pending_grading"

\* A student is told to do what is listed and not handed in, and may still do it
\* while there is time; the teacher counts as done what the student sees as done;
\* a score is shown for what has been graded.
StudentAgrees ==
  /\ \A s \in Pupils : issued =>
       /\ topic = "assignment" => /\ ToDo(s) <=> ListedTo(s) /\ ~IsSubmitted(s)
                                  /\ ToDo(s) /\ hour < close => MayHandIn(s)
       /\ topic = "exam" /\ ListedTo(s) /\ CanStart(s) => ToCome(s) /\ MaySit(s)
       /\ ToCome(s) => ExamStatus(s) \in {"scheduled", "ready", "in_progress", "review_required"}
       /\ OnCourseList(s) => CourseCard(s).todo = ToDo(s) /\ CourseCard(s).tocome = ToCome(s)
       /\ UnderWay(s) => GoOnWith(s) = "notebook"
       /\ \A q \in Exercises : <<"assignment", q>> \in Feedback(s) =>
            WorkWord(work[<<s, q>>]) \in {"graded", "review_required"}
  /\ DeadlineStats[1] = Cardinality({s \in Effective : IsSubmitted(s)})

\* The grade of a student and the session show the same, whatever was withdrawn
\* or saved before and after the publication; unless a start was overtaken by the
\* withdrawal, and the flags of the withdrawn exam are saved one by one.
ShownAlike == ~overtaken => \A s \in Pupils : attempt[s] # "none" => MyGrade(s) = Session(s)

\* Whoever can see the answers of an exam finds nobody who sits it or still may,
\* as long as the teacher has not moved its end after the release and no start and
\* release went past each other.
AnswersAfterExam ==
  \A s, t \in Pupils : SeesAnswers(s) /\ ~reopened /\ ~overtaken =>
                        ~CanStart(t) /\ attempt[t] # "started"

PagesAgree == WordsAgree /\ RangesAgree /\ GradesAgree /\ CountsAgree /\ StudentAgrees
              /\ ReportsAgree /\ ShownAlike /\ AnswersAfterExam
=============================================================================
