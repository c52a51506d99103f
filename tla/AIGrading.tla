----------------------------- MODULE AIGrading -----------------------------
(***************************************************************************)
(* The AI part of grading an assignment: the judge that creates a CodeGrade*)
(* (worker/judge_worker.py), the AI workers (process_ai_grade, with        *)
(* services/ai_grading_service.py), the recovery scan and the teacher's    *)
(* requests on a CodeGrade (api/ai_grading.py: retry, override, regrade).  *)
(*                                                                         *)
(* A worker and a request read rows, compute (the worker for minutes, it   *)
(* asks an external service) and write the columns that differ from what   *)
(* they read.  sheet[g] is the content of the CodeGrade, official[g] the   *)
(* score of the submission, which in active mode comes from the sheet.     *)
(***************************************************************************)
EXTENDS AIQueue, SequencesExt

CONSTANTS AIWorkers, Teachers,
          GradeMode,     \* GradeMode[g]: "shadow" or "active"
          Acts,          \* what teachers do: subset of {"retry", "override", "regrade"}
          AIScores,      \* scores the AI may give
          AISlow,        \* {"worker"}: an AI run may outlive its 600 s
          MaxRequests,   \* bound: requests of teachers
          MaxAICrashes,  \* bound: process deaths
          MaxCalls       \* bound: attempts after which a run no longer ages

ASSUME AIGradingAssumption ==
  /\ GradeMode \in [Grades -> {"shadow", "active"}]
  /\ Acts \subseteq {"retry", "override", "regrade"}
  /\ AISlow \subseteq {"worker"}
  /\ MaxRequests \in Nat /\ MaxAICrashes \in Nat
  /\ MaxCalls \in Nat /\ MaxCalls > MaxAIAttempts + MaxAICrashes
  /\ {"none", "teacher"} \cap AIScores = {}

VARIABLES sheet,     \* sheet[g]: functional score, final score, review flag
          official,  \* official[g]: Submission.score
          tested,    \* submissions whose tests have been run
          creator,   \* creator[g]: the judge worker on its way to enqueue_ai_grade
          ai,        \* ai[w]: program counter, grade in hand, what its session read
          teacher,   \* teacher[t]: the same for a request
          requests,  \* requests made so far
          aiCrashes  \* deaths so far

actors == <<creator, ai, teacher, requests, aiCrashes>>
aiGradingVars == <<cg, aiQueue, lost, aiLease, aiScan, sheet, official, tested, actors>>

Marks == AIScores \cup {"none", "teacher"}
Sheet == [f : {"none", "zero", "tests"}, final : Marks, review : BOOLEAN]
NoSheet == [f |-> "none", final |-> "none", review |-> FALSE]

\* What a session reads of a grade.
View == [status : GradeStatuses, attempt : Nat, final : Marks, review : BOOLEAN, official : Marks, tested : BOOLEAN]
Read(g) == [status |-> cg[g].status, attempt |-> cg[g].attempt, final |-> sheet[g].final,
            review |-> sheet[g].review, official |-> official[g], tested |-> g \in tested]
Nothing == [status |-> "none", attempt |-> 0, final |-> "none", review |-> FALSE,
            official |-> "none", tested |-> FALSE]

AIPCs == {"down", "idle", "popped", "claimed", "calling", "scored", "finishing"}
Grading == {"claimed", "calling"}
TeacherPCs == {"idle", "loaded", "saved"}

Free == [pc |-> "idle", grade |-> {}, seen |-> Nothing]
Away == [pc |-> "idle", op |-> "none", grade |-> {}, seen |-> Nothing]
Holds(w, g) == ai[w].grade = {g}

InHand == {{}} \cup {{g} : g \in Grades}

AIWorkerType == [AIWorkers -> [pc : AIPCs, grade : InHand, seen : View]]
TeacherType == [Teachers -> [pc : TeacherPCs, op : Acts \cup {"none"}, grade : InHand, seen : View]]

AITypeOK == /\ AIQueueTypeOK
            /\ sheet \in [Grades -> Sheet] /\ official \in [Grades -> Marks]
            /\ tested \subseteq Grades
            /\ creator \in [Grades -> {"none", "created", "done"}]
            /\ ai \in AIWorkerType /\ teacher \in TeacherType
            /\ requests \in 0..MaxRequests /\ aiCrashes \in 0..MaxAICrashes

AIInit == /\ AIQueueInit
          /\ sheet = [g \in Grades |-> NoSheet] /\ official = [g \in Grades |-> "none"]
          /\ tested = {} /\ creator = [g \in Grades |-> "none"]
          /\ ai = [w \in AIWorkers |-> Free]
          /\ teacher = [t \in Teachers |-> Away]
          /\ requests = 0 /\ aiCrashes = 0

\* A column is written only if it differs from what the session read.
Written(column, seen, new) == IF new # seen THEN new ELSE column

\* status written by the ORM rather than by a conditional UPDATE.
WriteStatus(g, seen, to) == cg' = [cg EXCEPT ![g] = IF to # seen.status THEN Moved(@, to) ELSE @]

-----------------------------------------------------------------------------
(* The judge worker, once the tests of a submission have been run.          *)

RunTests(g) == /\ g \notin tested
               /\ tested' = tested \cup {g}
               /\ UNCHANGED <<aiVars, aiLease, aiScan, sheet, official, actors>>

CreateCodeGrade(g) ==
  /\ g \in tested /\ creator[g] = "none"
  /\ IF cg[g].status = "none"
       THEN /\ SetStatus(g, "pending")
            /\ sheet' = [sheet EXCEPT ![g].f = "tests"]
            /\ creator' = [creator EXCEPT ![g] = "created"]
       ELSE UNCHANGED <<cg, sheet>> /\ creator' = [creator EXCEPT ![g] = "done"]
  /\ UNCHANGED <<aiQueue, lost, aiLease, aiScan, official, tested, ai, teacher, requests, aiCrashes>>

HandOverGrade(g) == /\ creator[g] = "created"
                    /\ creator' = [creator EXCEPT ![g] = "done"]
                    /\ EnqueueAIGrade(g)
                    /\ UNCHANGED <<aiLease, aiScan, sheet, official, tested, ai, teacher, requests, aiCrashes>>

JudgeDies(g) == /\ creator[g] = "created" /\ aiCrashes < MaxAICrashes
                /\ aiCrashes' = aiCrashes + 1
                /\ creator' = [creator EXCEPT ![g] = "done"]
                /\ UNCHANGED <<aiVars, aiLease, aiScan, sheet, official, tested, ai, teacher, requests>>

-----------------------------------------------------------------------------
(* process_ai_grade.                                                        *)

PopGrade(w) == /\ ai[w].pc = "idle" /\ aiQueue # <<>>
               /\ ai' = [ai EXCEPT ![w] = [Free EXCEPT !.pc = "popped", !.grade = {Last(aiQueue)}]]
               /\ aiQueue' = Front(aiQueue)
               /\ UNCHANGED <<cg, lost, aiLease, aiScan, sheet, official, tested, creator, teacher, requests, aiCrashes>>

TakeGrade(w, g) == /\ ai[w].pc = "popped" /\ Holds(w, g)
                   /\ \/ ClaimAIGrade(g) /\ ai' = [ai EXCEPT ![w].pc = "claimed"]
                      \/ cg[g].status # "queued" /\ UNCHANGED aiVars /\ ai' = [ai EXCEPT ![w] = Free]
                   /\ UNCHANGED <<aiLease, aiScan, sheet, official, tested, creator, teacher, requests, aiCrashes>>

\* grade_code_submission loads the rows and asks the service.
Ask(w, g) == /\ ai[w].pc = "claimed" /\ Holds(w, g)
             /\ ai' = [ai EXCEPT ![w].pc = "calling", ![w].seen = Read(g)]
             /\ UNCHANGED <<aiVars, aiLease, aiScan, sheet, official, tested, creator, teacher, requests, aiCrashes>>

\* Mutant: the answer is written without the official score.
ScoreUnreviewed(w, g) ==
  /\ ai[w].pc = "calling" /\ Holds(w, g)
  /\ \E a \in AIScores, review \in BOOLEAN :
       LET seen == ai[w].seen
       IN  /\ sheet' = [sheet EXCEPT ![g].final = Written(@, seen.final, a),
                                     ![g].review = Written(@, seen.review, review)]
           /\ UNCHANGED official
           /\ IF review THEN WriteStatus(g, seen, "review_required") ELSE UNCHANGED cg
  /\ ai' = [ai EXCEPT ![w].pc = "scored"]
  /\ UNCHANGED <<aiQueue, lost, aiLease, aiScan, tested, creator, teacher, requests, aiCrashes>>

\* The answer arrives, validated or to be reviewed by a teacher.
Score(w, g) ==
  /\ ai[w].pc = "calling" /\ Holds(w, g)
  /\ \E a \in AIScores, review \in BOOLEAN :
       LET seen == ai[w].seen
       IN  /\ sheet' = [sheet EXCEPT ![g].final = Written(@, seen.final, a),
                                     ![g].review = Written(@, seen.review, review)]
           /\ IF GradeMode[g] = "active" /\ ~review
                THEN official' = [official EXCEPT ![g] = Written(@, seen.official, a)]
                ELSE UNCHANGED official
           /\ IF review THEN WriteStatus(g, seen, "review_required") ELSE UNCHANGED cg
  /\ ai' = [ai EXCEPT ![w].pc = "scored"]
  /\ UNCHANGED <<aiQueue, lost, aiLease, aiScan, tested, creator, teacher, requests, aiCrashes>>

\* Mutant: a result that needs a review is completed as well.
RefreshOnly(w, g) == /\ ai[w].pc = "scored" /\ Holds(w, g)
                     /\ ai' = [ai EXCEPT ![w].pc = "finishing", ![w].seen = Read(g)]
                     /\ UNCHANGED <<aiVars, aiLease, aiScan, sheet, official, tested, creator, teacher,
                                    requests, aiCrashes>>

\* refresh: anything that needs a review is left to the teacher.
Refresh(w, g) == /\ ai[w].pc = "scored" /\ Holds(w, g)
                 /\ ai' = [ai EXCEPT ![w] = IF cg[g].status = "review_required" \/ sheet[g].review
                                              THEN Free
                                              ELSE [@ EXCEPT !.pc = "finishing", !.seen = Read(g)]]
                 /\ UNCHANGED <<aiVars, aiLease, aiScan, sheet, official, tested, creator, teacher, requests, aiCrashes>>

FinishGrade(w, g) == /\ ai[w].pc = "finishing" /\ Holds(w, g)
                     /\ WriteStatus(g, ai[w].seen, "completed")
                     /\ ai' = [ai EXCEPT ![w] = Free]
                     /\ UNCHANGED <<aiQueue, lost, aiLease, aiScan, sheet, official, tested, creator, teacher,
                                    requests, aiCrashes>>

\* Mutant: a permanent failure does not raise the review flag.
FailUnflagged(w, g) ==
  /\ ai[w].pc \in Grading \cup {"scored", "finishing"} /\ Holds(w, g)
  /\ \E retryable \in BOOLEAN :
       /\ ai[w].pc \notin Grading => retryable
       /\ FailAIGrade(g, retryable)
  /\ ai' = [ai EXCEPT ![w] = Free]
  /\ UNCHANGED <<aiLease, aiScan, sheet, official, tested, creator, teacher, requests, aiCrashes>>

\* AIServiceError, AI disabled (never retryable), any other exception (always);
\* a permanent failure raises the review flag together with the status.
Fail(w, g) ==
  /\ ai[w].pc \in Grading \cup {"scored", "finishing"} /\ Holds(w, g)
  /\ \E retryable \in BOOLEAN :
       /\ ai[w].pc \notin Grading => retryable
       /\ FailAIGrade(g, retryable)
  /\ sheet' = IF cg[g].status = "running" /\ cg'[g].status = "review_required"
                THEN [sheet EXCEPT ![g].review = TRUE] ELSE sheet
  /\ ai' = [ai EXCEPT ![w] = Free]
  /\ UNCHANGED <<aiLease, aiScan, official, tested, creator, teacher, requests, aiCrashes>>

CrashAIWorker(w) == /\ ai[w].pc # "down" /\ aiCrashes < MaxAICrashes
                    /\ aiCrashes' = aiCrashes + 1
                    /\ ai' = [ai EXCEPT ![w] = [Free EXCEPT !.pc = "down"]]
                    /\ UNCHANGED <<aiVars, aiLease, aiScan, sheet, official, tested, creator, teacher, requests>>

RestartAIWorker(w) == /\ ai[w].pc = "down"
                      /\ ai' = [ai EXCEPT ![w] = Free]
                      /\ UNCHANGED <<aiVars, aiLease, aiScan, sheet, official, tested, creator, teacher, requests, aiCrashes>>

-----------------------------------------------------------------------------
(* The teacher's requests: read and check, write and commit, enqueue.       *)

\* retry answers at once unless the grade awaits review; regrade passes over
\* grades in progress, and creates those that are missing.
Admitted(op, g) ==
  \/ op = "retry"    /\ cg[g].status = "review_required"
  \/ op = "override" /\ cg[g].status # "none"
  \/ op = "regrade"  /\ cg[g].status \notin {"running", "queued"}

\* Mutant: regrade does not pass over grades in progress.
AdmittedInProgress(op, g) ==
  \/ op = "retry"    /\ cg[g].status = "review_required"
  \/ op = "override" /\ cg[g].status # "none"
  \/ op = "regrade"

\* Time: unless workers may be overtaken, the steps that follow the answer of
\* the service are over before a teacher acts on it.
AnswerWritten(g) == "worker" \in AISlow \/ \A w \in AIWorkers : ~(Holds(w, g) /\ ai[w].pc \in {"scored", "finishing"})

Load(t, op, g) == /\ teacher[t].pc = "idle" /\ requests < MaxRequests
                  /\ op \in Acts /\ Admitted(op, g) /\ AnswerWritten(g)
                  /\ requests' = requests + 1
                  /\ teacher' = [teacher EXCEPT ![t] = [pc |-> "loaded", op |-> op, grade |-> {g}, seen |-> Read(g)]]
                  /\ UNCHANGED <<aiVars, aiLease, aiScan, sheet, official, tested, creator, ai, aiCrashes>>

Saving(t, op, g) == teacher[t].pc = "loaded" /\ teacher[t].op = op /\ teacher[t].grade = {g}
Saved(t) == teacher' = [teacher EXCEPT ![t].pc = "saved"]
Answer(t) == teacher' = [teacher EXCEPT ![t] = Away]

\* Back to pending with a fresh attempt count.
Reset(r, seen) == [(IF seen.status # "pending" THEN Moved(r, "pending") ELSE r)
                     EXCEPT !.attempt = Written(r.attempt, seen.attempt, 0)]

SaveReset(t, g) ==
  LET seen == teacher[t].seen
  IN  /\ Saving(t, "retry", g) \/ Saving(t, "regrade", g)
      /\ seen.status # "none"
      /\ cg' = [cg EXCEPT ![g] = Reset(@, seen)]
      /\ Saved(t)
      /\ UNCHANGED <<aiQueue, lost, aiLease, aiScan, sheet, official, tested, creator, ai, requests, aiCrashes>>

\* A missing CodeGrade is created from what the submission holds; the unique
\* key refuses a second one.
SaveNew(t, g) ==
  LET seen == teacher[t].seen
  IN  /\ Saving(t, "regrade", g) /\ seen.status = "none"
      /\ IF cg[g].status = "none"
           THEN /\ SetStatus(g, "pending")
                /\ sheet' = [sheet EXCEPT ![g].f = IF seen.tested THEN "tests" ELSE "zero"]
                /\ Saved(t)
           ELSE UNCHANGED <<cg, sheet>> /\ Answer(t)
      /\ UNCHANGED <<aiQueue, lost, aiLease, aiScan, official, tested, creator, ai, requests, aiCrashes>>

SaveOverride(t, g) ==
  LET seen == teacher[t].seen
  IN  /\ Saving(t, "override", g)
      /\ sheet' = [sheet EXCEPT ![g].final = Written(@, seen.final, "teacher"),
                                ![g].review = Written(@, seen.review, FALSE)]
      /\ IF GradeMode[g] = "active"
           THEN /\ WriteStatus(g, seen, "completed")
                /\ official' = [official EXCEPT ![g] = Written(@, seen.official, "teacher")]
           ELSE UNCHANGED <<cg, official>>
      /\ Answer(t)
      /\ UNCHANGED <<aiQueue, lost, aiLease, aiScan, tested, creator, ai, requests, aiCrashes>>

EnqueueSaved(t, g) == /\ teacher[t].pc = "saved" /\ teacher[t].grade = {g}
                      /\ EnqueueAIGrade(g)
                      /\ Answer(t)
                      /\ UNCHANGED <<aiLease, aiScan, sheet, official, tested, creator, ai, requests, aiCrashes>>

-----------------------------------------------------------------------------
(* The recovery scan and the clock.                                         *)

otherAIVars == <<sheet, official, tested, actors>>

Recovery(s) == /\ \/ StartAIScan(s) \/ NextGradeList(s) \/ EndAIScan(s)
                  \/ \E g \in Grades : RecoverRow(s, g) \/ SkipRow(s, g)
               /\ UNCHANGED otherAIVars

ScannerDies(s) == /\ aiScan[s].phase # "off" /\ aiCrashes < MaxAICrashes
                  /\ aiCrashes' = aiCrashes + 1
                  /\ aiScan' = [aiScan EXCEPT ![s] = NoAIScan]
                  /\ UNCHANGED <<aiVars, aiLease, sheet, official, tested, creator, ai, teacher, requests>>

InProgress(g) == \E w \in AIWorkers : Holds(w, g) /\ ai[w].pc \in Grading \cup {"scored", "finishing"}

TickGrade(g) == /\ \/ AgeGradeCreated(g) \/ AgeGradeQueued(g)
                   \/ /\ "worker" \in AISlow \/ ~InProgress(g)
                      /\ cg[g].attempt < MaxCalls
                      /\ AgeGradeRunning(g)
                /\ UNCHANGED otherAIVars

ExpireAILease == /\ \A s \in Scanners : aiScan[s].phase = "off"
                 /\ AILeaseExpires
                 /\ UNCHANGED otherAIVars

-----------------------------------------------------------------------------

JudgeGrades(g) == CreateCodeGrade(g) \/ HandOverGrade(g)

AIStep(w) == \/ PopGrade(w) \/ RestartAIWorker(w)
             \/ \E g \in Grades : \/ TakeGrade(w, g) \/ Ask(w, g) \/ Score(w, g) \/ Refresh(w, g)
                                  \/ FinishGrade(w, g) \/ Fail(w, g)

Serve(t) == \E g \in Grades : \/ SaveReset(t, g) \/ SaveNew(t, g) \/ SaveOverride(t, g)
                              \/ EnqueueSaved(t, g)

AINext == \/ \E g \in Grades : RunTests(g) \/ JudgeGrades(g) \/ JudgeDies(g) \/ TickGrade(g)
          \/ \E w \in AIWorkers : AIStep(w) \/ CrashAIWorker(w)
          \/ \E t \in Teachers : Serve(t) \/ \E op \in Acts, g \in Grades : Load(t, op, g)
          \/ \E s \in Scanners : Recovery(s) \/ ScannerDies(s)
          \/ ExpireAILease

AISpec == AIInit /\ [][AINext]_aiGradingVars

-----------------------------------------------------------------------------
(* Properties.                                                              *)

\* Two AI workers never grade the same submission at the same time, in spite of
\* lost and duplicate wake-ups, crashes, retries and regrades.
SingleGrader ==
  \A v, w \in AIWorkers, g \in Grades :
    (v # w /\ Holds(v, g) /\ Holds(w, g)) => ~(ai[v].pc \in Grading /\ ai[w].pc \in Grading)

\* max_attempts bounds the calls of the service made for a grade; only a crash
\* costs one more, as the scan queues the grade again without looking at it.
CallsBounded == \A g \in Grades : cg[g].attempt <= MaxAIAttempts + aiCrashes

\* In active mode a completed CodeGrade has brought the official score: the
\* student never waits for a score that nobody will write.
CompletedIsScored ==
  \A g \in Grades : (GradeMode[g] = "active" /\ cg[g].status = "completed") => official[g] # "none"

\* A grade that was completed or handed to a teacher stays so until a teacher
\* asks for more: no late answer, failure, wake-up or scan takes it back.
SettledStays ==
  [][\A g \in Grades :
       (cg[g].status \in {"completed", "review_required"} /\ cg'[g].status # cg[g].status)
         => \E t \in Teachers : teacher[t].pc = "loaded" /\ teacher'[t].pc # "loaded"]_aiGradingVars

\* The score the student is shown and the one the teacher reviews are the same.
OfficialIsFinal ==
  \A g \in Grades : (GradeMode[g] = "active" /\ cg[g].status = "completed") => official[g] = sheet[g].final

\* A score a teacher has set by hand is not replaced as long as nobody has asked
\* for the submission to be graded again.
OverrideStands ==
  [][\A g \in Grades : (cg[g].status = "completed" /\ official[g] = "teacher") => official'[g] = "teacher"]_aiGradingVars

\* A grade that waits for a teacher carries the flag by which the dashboard
\* finds it, though status and flag are written by different statements.
ReviewIsListed == \A g \in Grades : cg[g].status = "review_required" => sheet[g].review

\* The AI owes an answer, and owes none: a CodeGrade ends completed or with a teacher.
AIWaits == \E g \in Grades : cg[g].status = "pending"
AIDone == \A g \in Grades : cg[g].status \in {"none", "completed", "review_required"}

\* No grade is left between the chairs: the rows are well formed, a completed
\* grade has brought its score, and one given up is on the teachers' list.
NoGradeForgotten == AITypeOK /\ CompletedIsScored /\ ReviewIsListed
=============================================================================
