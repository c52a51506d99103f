----------------------------- MODULE ExamGrading -----------------------------
(***************************************************************************)
(* Grading the answers of an attempt: the judge worker                     *)
(* (process_exam_answer), the recovery of judge jobs, the AI worker and    *)
(* the teacher who marks an answer by hand or overrides the AI; with       *)
(* ExamTaking, the whole life of an attempt.                               *)
(***************************************************************************)
EXTENDS ExamTaking

CONSTANTS Broken,      \* questions whose grading configuration is incomplete
          Acts         \* what teachers do: subset of {"manual", "reopen", "regrade", "override"}

\* claim_job; the row is read right after it.
JudgeClaim(p, q) ==
  /\ proc[p] = Idle /\ Written(q) /\ ans[q].gs = "queued"
  /\ ans' = [ans EXCEPT ![q].gs = "running"]
  /\ Become(p, [Idle EXCEPT !.op = "judge", !.step = "judging", !.q = {q}, !.seen = Read(NoSub, Only(q, ans'[q]))])
  /\ UNCHANGED <<sub, cg, grade, spent>>

\* A code judge has no tests for a choice: the configuration is incomplete too.
Permanent(q) == q \in Broken \/ Kind[q] = "choice"

\* fail_job, conditional on running.
JudgeFail(p, q) ==
  /\ At(p, "judge", "judging") /\ q \in proc[p].q
  /\ IF Permanent(q) THEN UNCHANGED spent ELSE spent.faults < MaxFaults /\ Used("faults")
  /\ ans' = IF ans[q].gs = "running"
              THEN [ans EXCEPT ![q].gs = IF Permanent(q) THEN "system_error" ELSE "pending"] ELSE ans
  /\ Go(p, "clearing")
  /\ UNCHANGED <<sub, cg, grade>>

\* answer.score = None in a commit of its own; a fault of the infrastructure
\* leaves the attempt alone, an unknown exception skips the commit.
JudgeClear(p, q) ==
  /\ At(p, "judge", "clearing") /\ q \in proc[p].q
  /\ \/ /\ ans' = [ans EXCEPT ![q].score = Null]
        /\ IF Permanent(q) THEN Go(p, "finalize") ELSE End(p)
     \/ /\ ~Permanent(q) /\ Go(p, "finalize") /\ UNCHANGED ans
  /\ UNCHANGED <<sub, cg, grade, spent>>

\* Mutant: an active answer gets the points of its tests until the AI has spoken.
JudgeWriteEarly(p, q) ==
  /\ At(p, "judge", "judging") /\ q \in proc[p].q /\ ~Permanent(q)
  /\ ans' = [ans EXCEPT ![q].gs = "completed", ![q].score = Points(proc[p].seen.ans[q].text)]
  /\ Go(p, "completing")
  /\ UNCHANGED <<sub, cg, grade, spent>>

\* The result is written by the ORM, with no condition, before complete_job.
JudgeWrite(p, q) ==
  /\ At(p, "judge", "judging") /\ q \in proc[p].q /\ ~Permanent(q)
  /\ ans' = [ans EXCEPT ![q].gs = "completed",
                        ![q].score = IF Kind[q] = "code" THEN Points(proc[p].seen.ans[q].text) ELSE @]
  /\ Go(p, "completing")
  /\ UNCHANGED <<sub, cg, grade, spent>>

Completed(p, q) ==
  ans' = IF ans[q].gs = "running"
           THEN [ans EXCEPT ![q].gs = "completed",
                            ![q].score = IF Kind[q] = "code" THEN Points(proc[p].seen.ans[q].text) ELSE @]
           ELSE ans

\* complete_job, then finalize; an active answer gets its CodeGrade instead.
JudgeComplete(p, q) ==
  /\ At(p, "judge", "completing") /\ q \in proc[p].q
  /\ Completed(p, q)
  /\ Go(p, IF Kind[q] = "code" THEN "finalize" ELSE "creating")
  /\ UNCHANGED <<sub, cg, grade, spent>>

CreateGrade(p, q) ==
  /\ At(p, "judge", "creating") /\ q \in proc[p].q
  /\ cg' = [cg EXCEPT ![q] = IF @ = "none" THEN "open" ELSE @]
  /\ End(p)
  /\ UNCHANGED <<sub, ans, grade, spent>>

\* requeue_stale_jobs, for the answers of an attempt being graded.
Judging(q) == \E r \in Procs : proc[r].op = "judge" /\ q \in proc[r].q
Recover(q) ==
  /\ sub.status = "grading" /\ Written(q)
  /\ \/ /\ ans[q].gs = "pending" /\ ans[q].att < MaxAttempts
        /\ ans' = [ans EXCEPT ![q].gs = "queued", ![q].att = @ + 1]
     \/ /\ ans[q].gs = "running" /\ (Judging(q) => "judge" \in Slow)
        /\ ans' = [ans EXCEPT ![q].gs = "pending"]
  /\ UNCHANGED <<sub, cg, grade, proc, spent>>

\* Mutant: the points of an earlier run stay.
ExhaustKeepingScore(p, q) ==
  /\ proc[p] = Idle /\ sub.status = "grading"
  /\ Written(q) /\ ans[q].gs = "pending" /\ ans[q].att >= MaxAttempts
  /\ ans' = [ans EXCEPT ![q].gs = "system_error", ![q].score = 0]
  /\ Become(p, [Idle EXCEPT !.op = "recover", !.step = "finalize"])
  /\ UNCHANGED <<sub, cg, grade, spent>>

Exhaust(p, q) ==
  /\ proc[p] = Idle /\ sub.status = "grading"
  /\ Written(q) /\ ans[q].gs = "pending" /\ ans[q].att >= MaxAttempts
  /\ ans' = [ans EXCEPT ![q].gs = "system_error", ![q].score = Null]
  /\ Become(p, [Idle EXCEPT !.op = "recover", !.step = "finalize"])
  /\ UNCHANGED <<sub, cg, grade, spent>>

-----------------------------------------------------------------------------
(* process_ai_grade for an exam answer.  AIQueue sees to it that one worker *)
(* at a time works on a grade and that it comes back after a crash.         *)

AIClaim(p, q) ==
  /\ proc[p] = Idle /\ cg[q] = "open"
  /\ \A r \in Procs : ~(proc[r].op = "ai" /\ q \in proc[r].q)
  /\ Become(p, [Idle EXCEPT !.op = "ai", !.step = "asking", !.q = {q}])
  /\ UNCHANGED <<rows, spent>>

\* The score is committed first, the status of the grade after it.
AIScore(p, q) == /\ At(p, "ai", "asking") /\ q \in proc[p].q
                 /\ ans' = [ans EXCEPT ![q].score = Points(ans[q].text)]
                 /\ Go(p, "scored")
                 /\ UNCHANGED <<sub, cg, grade, spent>>

AIComplete(p, q) == /\ At(p, "ai", "scored") /\ q \in proc[p].q
                    /\ cg' = [cg EXCEPT ![q] = "completed"]
                    /\ Go(p, "finalize")
                    /\ UNCHANGED <<sub, ans, grade, spent>>

\* The AI asks for a review, or every attempt failed: finalize, no promotion.
AIGivesUp(p, q) == /\ At(p, "ai", "asking") /\ q \in proc[p].q
                   /\ spent.faults < MaxFaults /\ Used("faults")
                   /\ cg' = [cg EXCEPT ![q] = "review_required"]
                   /\ Become(p, [Idle EXCEPT !.op = "recover", !.step = "finalize"])
                   /\ UNCHANGED <<sub, ans, grade>>

-----------------------------------------------------------------------------
(* The teacher's marks.                                                     *)

ManualLoad(p, q) ==
  /\ "manual" \in Acts /\ proc[p] = Idle /\ sub.status \in {"graded", "review_required"}
  /\ spent.requests < MaxRequests /\ Used("requests")
  /\ Become(p, [Idle EXCEPT !.op = "manual", !.step = "loaded", !.q = {q},
                            !.seen = Read(sub, ans)])
  /\ UNCHANGED rows

\* What the session sees once it has flushed its own mark.
Marked(answers, q) ==
  [answers EXCEPT ![q].score = Mark, ![q].gs = "completed",
                  ![q].text = IF @ = "absent" THEN "blank" ELSE @, ![q].ver = IF @ = 0 THEN 1 ELSE @]

Unscored(answers) == \E q \in Questions : answers[q].text = "absent" \/ answers[q].score = Null

\* _set_manual_answer_score: an attempt under review is closed once every
\* question is scored; all it knows of the other answers is what it read.
ManualCommit(p, q) ==
  /\ At(p, "manual", "loaded") /\ q \in proc[p].q /\ ParentFree(p)
  /\ LET seen == proc[p].seen
         view == Marked(seen.ans, q)
         conflict == seen.ans[q].text = "absent" /\ ans[q].text # "absent"
         held == seen.sub.status = "review_required" /\ Unscored(view) IN
       /\ ans' = IF conflict THEN ans ELSE Marked(ans, q)
       /\ cg' = IF conflict \/ cg[q] = "none" THEN cg ELSE [cg EXCEPT ![q] = "completed"]
       /\ IF conflict \/ held THEN UNCHANGED <<sub, grade>>
          ELSE /\ sub' = [sub EXCEPT !.total = IF Sum(view) # seen.sub.total THEN Sum(view) ELSE @,
                                     !.status = IF seen.sub.status = "review_required" THEN "graded" ELSE @]
               /\ grade' = Sum(view)
  /\ End(p)
  /\ UNCHANGED spent

\* retry of one AI grade under review; regrade_question after it is finished.
Reopen(q) ==
  /\ spent.requests < MaxRequests /\ Used("requests")
  /\ \/ "reopen" \in Acts /\ cg[q] = "review_required"
     \/ "regrade" \in Acts /\ cg[q] = "completed"
  /\ cg' = [cg EXCEPT ![q] = "open"]
  /\ UNCHANGED <<sub, ans, grade, proc>>

\* override_grade: the mark, finalize and promote, committed together.
Override(p, q) ==
  /\ "override" \in Acts /\ proc[p] = Idle /\ ParentFree(p) /\ cg[q] # "none" /\ Written(q)
  /\ spent.requests < MaxRequests /\ Used("requests")
  /\ ans' = Marked(ans, q)
  /\ cg' = [cg EXCEPT ![q] = "completed"]
  /\ LET verdict == IF sub.status = "grading" /\ Verdict(ans', cg') # "waiting"
                      THEN Verdict(ans', cg') ELSE sub.status
         status == IF verdict = "review_required" /\ Complete(ans', cg') THEN "graded" ELSE verdict IN
       /\ sub' = [sub EXCEPT !.status = status,
                             !.total = IF status = "graded" /\ sub.status # "graded" THEN Sum(ans') ELSE @]
       /\ grade' = IF status = "graded" /\ sub.status # "graded" THEN Sum(ans') ELSE grade
  /\ UNCHANGED proc

JudgeStep(p, q) == \/ JudgeClaim(p, q) \/ JudgeFail(p, q) \/ JudgeClear(p, q)
                   \/ JudgeWrite(p, q) \/ JudgeComplete(p, q) \/ CreateGrade(p, q)
                   \/ Exhaust(p, q)
                   \/ AIClaim(p, q) \/ AIScore(p, q) \/ AIComplete(p, q) \/ AIGivesUp(p, q)

TeacherStep(p, q) == ManualLoad(p, q) \/ ManualCommit(p, q) \/ Override(p, q)

\* A process dies: what it did not commit is lost.
Die(p) == /\ proc[p] # Idle /\ spent.crashes < MaxCrashes /\ Used("crashes")
          /\ End(p)
          /\ UNCHANGED rows

Next == \/ (\A r \in Procs : ~Unfinished(r)) /\ (Start \/ TimeIsUp \/ \E q \in Questions : Recover(q) \/ Reopen(q))
        \/ \E p \in Procs : MayMove(p) /\ (CloseStep(p) \/ Die(p))
        \/ \E p \in Web : MayMove(p) /\ (WebStep(p) \/ \E q \in Questions : TeacherStep(p, q))
        \/ \E p \in Scanners : MayMove(p) /\ ScanStep(p)
        \/ \E p \in Workers, q \in Questions : MayMove(p) /\ JudgeStep(p, q)

Spec == ExamInit /\ [][Next]_vars

-----------------------------------------------------------------------------
TypeOK == ExamTypeOK

\* What a student is shown and what the grade book holds is the sum of the
\* points of the answers (finalize_if_ready, promote_review_required_if_complete
\* and _set_manual_answer_score each compute it for themselves).
TotalIsSum == sub.status = "graded" => sub.total = Sum(ans) /\ grade = sub.total

\* A system error never counts as points: the answer has none until somebody
\* or something has graded it (fail_job, the exhausted rows of the scan).
SystemErrorUnscored == \A q \in Questions : ans[q].gs = "system_error" => ans[q].score = Null

\* An attempt is only closed by itself when nothing is on its way any more: no
\* answer waiting or failed, no AI grade open or under review, every answer
\* scored (finalize_if_ready and promote; a teacher's mark is not held to it).
ClosedWhenDone ==
  [][sub.status # "graded" /\ sub'.status = "graded" /\ UNCHANGED <<ans, cg>> =>
       \A q \in Questions : /\ Written(q) => ans[q].gs = "completed" /\ ans[q].score # Null
                           /\ cg[q] \notin {"open", "review_required"}]_vars

\* A finished answer is never sent to the judge again, whoever hands the
\* attempt in a second time or resumes it after a crash.
FinishedStays == [][\A q \in Questions : ans[q].gs = "completed" => ans'[q].gs = "completed"]_vars

\* While a review is settled by promotion, no question is left without points.
NoHoleInPromotion ==
  [][sub.status = "review_required" /\ sub'.status = "graded" =>
       \A q \in Questions : ans'[q].text # "absent" /\ ans'[q].score # Null]_vars

Lifecycle == INSTANCE ExamLifecycle WITH status <- sub.status, total <- sub.total, grade <- grade

\* To the rest of the platform an attempt is what ExamLifecycle promises: handed
\* in once, its result published in one step, in the submission and the grade book.
AttemptLifecycle == Lifecycle!Spec

\* Time runs, requests in progress end, the scan, the judge, the recovery and
\* the AI run again and again (each in a process of its own, SF because the
\* same process also does the others); nobody has to start a request or crash.
Fairness ==
  /\ WF_vars(TimeIsUp)
  /\ \A p \in Procs : WF_vars(CloseStep(p) \/ SaveCommit(p) \/ HandInCommit(p) \/ ExtendCommit(p)
                               \/ ScanLoad(p) \/ ScanCommit(p)
                               \/ \E q \in Questions : ManualCommit(p, q))
  /\ \A p \in Scanners : SF_vars(ScanClaim(p)) /\ SF_vars(ScanResume(p)) /\ SF_vars(ScanStuck(p))
  /\ \A p \in Workers, q \in Questions :
       /\ SF_vars(JudgeClaim(p, q)) /\ SF_vars(AIClaim(p, q)) /\ SF_vars(Exhaust(p, q))
       /\ WF_vars(JudgeFail(p, q) \/ JudgeWrite(p, q)) /\ WF_vars(JudgeClear(p, q))
       /\ WF_vars(JudgeComplete(p, q)) /\ WF_vars(CreateGrade(p, q))
       /\ WF_vars(AIScore(p, q)) /\ WF_vars(AIComplete(p, q))
  /\ \A q \in Questions : SF_vars(Recover(q))

FairSpec == Spec /\ Fairness

\* Every attempt that is begun comes to a result or to the teacher, whether
\* or not it is handed in, whatever crashes on the way (scan_expired_exams).
AttemptEnds == sub.status = "started" ~> sub.status \in {"graded", "review_required"}

\* The numbers agree: well-formed rows, a total that is the sum of its answers
\* and equals the grade book's, and no points for an answer that failed.
ScoresAddUp == TypeOK /\ TotalIsSum /\ SystemErrorUnscored
=============================================================================
