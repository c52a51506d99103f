----------------------------- MODULE ExamTaking -----------------------------
(***************************************************************************)
(* Taking an exam (services/exam_service.py and its requests in            *)
(* api/exams.py): start, save an answer, hand in by any of the ways there  *)
(* are (the student, the teacher, the first request or the scan that finds *)
(* the time is over), extend the time, and the retry of failed answers.    *)
(***************************************************************************)
EXTENDS ExamRows

\* start_exam: (exam, student) is unique, so that of two starts one fails.
Start == /\ sub.status = "none"
         /\ sub' = [sub EXCEPT !.status = "started"]
         /\ UNCHANGED <<ans, cg, grade, proc, spent>>

\* The clock passes expires_at.
TimeIsUp == /\ sub.status = "started" /\ ~sub.late
            /\ sub' = [sub EXCEPT !.late = TRUE]
            /\ UNCHANGED <<ans, cg, grade, proc, spent>>

\* save_answer up to its last check; expected_version is the version it finds.
SaveLoad(p, q, text) ==
  /\ proc[p] = Idle /\ spent.saves < MaxSaves /\ Used("saves")
  /\ sub.status = "started" /\ ~sub.late
  /\ Become(p, [Idle EXCEPT !.op = "save", !.step = "loaded", !.q = {q}, !.text = text,
                            !.seen = Read(NoSub, Only(q, ans[q]))])
  /\ UNCHANGED rows

\* It adds the row or writes the text and the version read plus one; the UPDATE
\* of last_saved_at waits for the lock of the submission but looks at nothing.
SavedOver(answer, seen, text) ==
  IF seen.text = "absent"
    THEN IF answer.text = "absent" THEN [NoAnswer EXCEPT !.text = text, !.ver = 1] ELSE answer
    ELSE [answer EXCEPT !.text = text, !.ver = seen.ver + 1]

SaveCommit(p) ==
  /\ At(p, "save", "loaded") /\ ParentFree(p)
  /\ \E q \in proc[p].q : ans' = [ans EXCEPT ![q] = SavedOver(@, proc[p].seen.ans[q], proc[p].text)]
  /\ End(p)
  /\ UNCHANGED <<sub, cg, grade, spent>>

-----------------------------------------------------------------------------
(* Handing in.  submit_exam, force_submit, and _auto_submit from a request  *)
(* that finds the time is over all find the submission started.             *)

HandInLoad(p) == /\ proc[p] = Idle /\ sub.status = "started"
                 /\ spent.requests < MaxRequests /\ Used("requests")
                 /\ Become(p, [Idle EXCEPT !.op = "handin", !.step = "loaded", !.seen = Read(NoSub, ans)])
                 /\ UNCHANGED rows

\* _prepare_answers: choices are scored, code is pending unless there is none.
Prepared(answer, seen, q) ==
  IF seen.text = "absent" THEN answer
  ELSE IF Kind[q] = "choice" \/ seen.text = "blank"
    THEN [answer EXCEPT !.gs = "completed", !.score = Points(seen.text)]
  ELSE [answer EXCEPT !.gs = IF seen.gs # "pending" THEN "pending" ELSE @]

CodeAnswers(seen) == {q \in Questions : Kind[q] # "choice" /\ seen[q].text \in Drafts}

\* Mutant: the hand-in is not conditional on the status it started from.
HandOverAgain(p, from) ==
  /\ ParentFree(p)
  /\ sub' = [sub EXCEPT !.status = "grading"]
  /\ ans' = [q \in Questions |-> Prepared(ans[q], proc[p].seen.ans[q], q)]
  /\ Become(p, [Idle EXCEPT !.op = proc[p].op, !.step = "enqueue", !.todo = CodeAnswers(proc[p].seen.ans)])
  /\ UNCHANGED <<cg, grade, spent>>

\* _submit_and_prepare and the second pass of the scan: one transaction with
\* a conditional UPDATE, then enqueue_job per answer and finalize_if_ready.
HandOver(p, from) ==
  /\ ParentFree(p)
  /\ IF sub.status = from
       THEN /\ sub' = [sub EXCEPT !.status = "grading"]
            /\ ans' = [q \in Questions |-> Prepared(ans[q], proc[p].seen.ans[q], q)]
            /\ Become(p, [Idle EXCEPT !.op = proc[p].op, !.step = "enqueue",
                                      !.todo = CodeAnswers(proc[p].seen.ans)])
       ELSE /\ UNCHANGED <<sub, ans>>
            /\ IF proc[p].op = "scan" THEN End(p)
               ELSE Become(p, [Idle EXCEPT !.op = "handin", !.step = "finalize"])
  /\ UNCHANGED <<cg, grade, spent>>

HandInCommit(p) == At(p, "handin", "loaded") /\ HandOver(p, "started")

Enqueue(p, q) ==
  /\ proc[p].step = "enqueue" /\ q \in proc[p].todo
  /\ ans' = IF ans[q].gs = "pending" THEN [ans EXCEPT ![q].gs = "queued", ![q].att = @ + 1] ELSE ans
  /\ Become(p, [proc[p] EXCEPT !.todo = @ \ {q}])
  /\ UNCHANGED <<sub, cg, grade, spent>>

Enqueued(p) == /\ proc[p].step = "enqueue" /\ proc[p].todo = {}
               /\ Go(p, "finalize")
               /\ UNCHANGED <<rows, spent>>

-----------------------------------------------------------------------------
(* scan_expired_exams.                                                      *)

ScanClaim(p) == /\ proc[p] = Idle /\ sub.status = "started" /\ sub.late /\ ParentFree(p)
                /\ sub' = [sub EXCEPT !.status = "submitted"]
                /\ Become(p, [Idle EXCEPT !.op = "scan", !.step = "claimed"])
                /\ UNCHANGED <<ans, cg, grade, spent>>

ScanLoads(p) == Become(p, [Idle EXCEPT !.op = "scan", !.step = "loaded", !.seen = Read(NoSub, ans)])

ScanLoad(p) == At(p, "scan", "claimed") /\ ScanLoads(p) /\ UNCHANGED <<rows, spent>>

\* Mutant: only the submissions claimed in this round are prepared.
ScanResumeNever(p) == FALSE

\* A submission handed in 5 minutes ago and still not prepared; a scan that is
\* not slow has died by then.
ScanResume(p) ==
  /\ proc[p] = Idle /\ sub.status = "submitted"
  /\ \A r \in Procs : proc[r].op = "scan" => "scan" \in Slow
  /\ ScanLoads(p)
  /\ UNCHANGED <<rows, spent>>

ScanCommit(p) == At(p, "scan", "loaded") /\ HandOver(p, "submitted")

\* Mutant: an attempt that waits for its answers is not looked at again.
ScanStuckNever(p) == FALSE

\* Third pass: being graded for 5 minutes.
ScanStuck(p) == /\ proc[p] = Idle /\ sub.status = "grading"
                /\ \A r \in Procs : proc[r].step \notin {"finalize", "enqueue"}
                /\ Become(p, [Idle EXCEPT !.op = "scan", !.step = "finalize"])
                /\ UNCHANGED <<rows, spent>>

-----------------------------------------------------------------------------
(* The teacher.                                                             *)

\* extend_exam_submission; another request may hand in between the two steps.
ExtendLoad(p) == /\ proc[p] = Idle /\ sub.status = "started" /\ ~sub.late
                 /\ spent.requests < MaxRequests /\ Used("requests")
                 /\ Become(p, [Idle EXCEPT !.op = "extend", !.step = "extending"])
                 /\ UNCHANGED rows

ExtendCommit(p) == /\ At(p, "extend", "extending") /\ ParentFree(p)
                   /\ sub' = [sub EXCEPT !.late = FALSE]
                   /\ End(p)
                   /\ UNCHANGED <<ans, cg, grade, spent>>

\* retry_exam_submission: chosen answers with a system error, under the lock.
Retried(answer, q) ==
  IF Kind[q] = "choice" THEN [answer EXCEPT !.gs = "completed", !.att = 0, !.score = Points(answer.text)]
  ELSE [answer EXCEPT !.gs = "pending", !.att = 0, !.score = Null]

Retry(p, chosen) ==
  /\ proc[p] = Idle /\ ParentFree(p) /\ sub.status = "review_required"
  /\ spent.requests < MaxRequests /\ Used("requests")
  /\ chosen # {} /\ \A q \in chosen : Written(q) /\ ans[q].gs = "system_error"
  /\ ans' = [q \in Questions |-> IF q \in chosen THEN Retried(ans[q], q) ELSE ans[q]]
  /\ sub' = [sub EXCEPT !.status = "grading"]
  /\ Become(p, [Idle EXCEPT !.op = "retry", !.step = "enqueue",
                            !.todo = {q \in chosen : Kind[q] # "choice"}])
  /\ UNCHANGED <<cg, grade>>

WebStep(p) ==
  \/ \E q \in Questions, text \in Texts : SaveLoad(p, q, text)
  \/ SaveCommit(p)
  \/ HandInLoad(p) \/ HandInCommit(p)
  \/ ExtendLoad(p) \/ ExtendCommit(p)
  \/ \E chosen \in SUBSET Questions : Retry(p, chosen)

ScanStep(p) == ScanClaim(p) \/ ScanLoad(p) \/ ScanResume(p) \/ ScanCommit(p) \/ ScanStuck(p)

CloseStep(p) == \/ \E q \in Questions : Enqueue(p, q)
                \/ Enqueued(p)
                \/ FinalizeRead(p) \/ FinalizeCommit(p) \/ PromoteRead(p) \/ PromoteCommit(p)
=============================================================================
