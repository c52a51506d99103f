------------------------------ MODULE ExamRows ------------------------------
(***************************************************************************)
(* One student's attempt at one exam: the rows ExamSubmission, ExamAnswer, *)
(* CodeGrade and ExamGrade, the processes that work on them, and the two   *)
(* functions that close an attempt (services/exam_grading.py).             *)
(*                                                                         *)
(* A request reads in one transaction, whose view of the database is fixed *)
(* by its first SELECT (InnoDB, REPEATABLE READ), and writes at its end.   *)
(* It is two steps here: it loads what it will use into seen, and commits. *)
(* SELECT ... FOR UPDATE and an UPDATE of the submission lock that row: a  *)
(* process that holds it is at step "locked", and ParentFree says whether  *)
(* another one may write the row.                                          *)
(*                                                                         *)
(* The wake-ups of the judge and of the AI queue are not repeated here     *)
(* (JudgeQueue, AIQueue): an answer that is queued may be claimed.         *)
(***************************************************************************)
EXTENDS Integers, FiniteSets, FiniteSetsExt

CONSTANTS Questions,
          Kind,        \* Kind[q]: "choice" (or blanks), "code" (legacy, shadow), "active"
          Drafts,      \* what the student may write, "blank" apart
          Worth,       \* Worth[d]: the points the tests give a draft
          Mark,        \* the points a teacher gives
          Web, Scanners, Workers, \* API requests, expiry scanners, judge and AI workers
          Slow,        \* operations that others may overtake between read and write
          MaxAttempts, \* MAX_ATTEMPTS
          MaxSaves, MaxRequests, MaxFaults, MaxCrashes \* bounds

Procs == Web \cup Scanners \cup Workers
Texts == Drafts \cup {"blank"}
Null == -1
Points(text) == IF text = "blank" THEN 0 ELSE Worth[text]

ASSUME ExamAssumption ==
  /\ IsFiniteSet(Questions) /\ Kind \in [Questions -> {"choice", "code", "active"}]
  /\ Worth \in [Drafts -> Nat] /\ Mark \in Nat
  /\ {"blank", "absent"} \cap Drafts = {}
  /\ Slow \subseteq {"save", "handin", "scan", "manual", "judge"}
  /\ MaxAttempts \in Nat \ {0}
  /\ {MaxSaves, MaxRequests, MaxFaults, MaxCrashes} \subseteq Nat

VARIABLES sub,    \* the submission: status, late (expires_at has passed), total
          ans,    \* ans[q]: text, version, grading_status, attempt_count, score
          cg,     \* cg[q]: status of the active CodeGrade, or "none"
          grade,  \* ExamGrade.score, Null while there is no row
          proc,   \* proc[p]: what a process is doing and what it read
          spent   \* how much of each bound has been used

rows == <<sub, ans, cg, grade>>
vars == <<sub, ans, cg, grade, proc, spent>>

NoAnswer == [text |-> "absent", ver |-> 0, gs |-> "pending", att |-> 0, score |-> Null]
NoSub == [status |-> "none", late |-> FALSE, total |-> Null]
Read(submission, answers) == [sub |-> submission, ans |-> answers]
Blank == Read(NoSub, [q \in Questions |-> NoAnswer])
Only(q, answer) == [Blank.ans EXCEPT ![q] = answer]
Idle == [op |-> "none", step |-> "idle", q |-> {}, text |-> "blank", seen |-> Blank,
         todo |-> {}, to |-> "none", total |-> Null]

ExamInit == /\ sub = NoSub /\ grade = Null
            /\ ans = Blank.ans
            /\ cg = [q \in Questions |-> "none"]
            /\ proc = [p \in Procs |-> Idle]
            /\ spent = [saves |-> 0, requests |-> 0, faults |-> 0, crashes |-> 0]

Statuses == {"none", "started", "submitted", "grading", "graded", "review_required"}
GradingStatuses == {"pending", "queued", "running", "completed", "system_error"}
GradeStatuses == {"none", "open", "completed", "review_required"}
Numbers == Nat \cup {Null}
AnswerType == [text : Texts \cup {"absent"}, ver : Nat, gs : GradingStatuses, att : Nat, score : Numbers]
SubType == [status : Statuses, late : BOOLEAN, total : Numbers]

ExamTypeOK ==
  /\ sub \in SubType /\ grade \in Numbers
  /\ ans \in [Questions -> AnswerType]
  /\ cg \in [Questions -> GradeStatuses]
  /\ \A p \in Procs : /\ proc[p].seen.sub \in SubType
                      /\ proc[p].seen.ans \in [Questions -> AnswerType]
                      /\ proc[p].q \in SUBSET Questions /\ proc[p].todo \in SUBSET Questions
                      /\ proc[p].to \in Statuses

Written(q) == ans[q].text # "absent"
Used(bound) == spent' = [spent EXCEPT ![bound] = @ + 1]
At(p, op, step) == proc[p].op = op /\ proc[p].step = step
Become(p, state) == proc' = [proc EXCEPT ![p] = state]
Go(p, step) == proc' = [proc EXCEPT ![p].step = step]
End(p) == Become(p, Idle)

ParentFree(p) == \A r \in Procs \ {p} : proc[r].step # "locked"

\* An operation that is not slow is over before another process moves.
Unfinished(r) == proc[r].step \in {"loaded", "clearing"} /\ proc[r].op \notin Slow
MayMove(p) == \A r \in Procs \ {p} : ~Unfinished(r)

-----------------------------------------------------------------------------
\* SELECT SUM(score) skips an answer without points and a question without an answer.
Counted(answers) == [q \in Questions |-> IF answers[q].text = "absent" \/ answers[q].score = Null
                                           THEN 0 ELSE answers[q].score]
Total(points) == MapThenSumSet(LAMBDA q : points[q], Questions)
Sum(answers) == Total(Counted(answers))

\* finalize_if_ready, steps 1 to 3: what the answers and their AI grades call for.
\* Mutant: a system error counts as zero points.
VerdictOfZeros(answers, grades) ==
  IF \E q \in Questions : \/ grades[q] # "none" /\ grades[q] # "completed"
                          \/ answers[q].text # "absent" /\ answers[q].gs \in {"pending", "queued", "running"}
    THEN "waiting" ELSE "graded"

OpenAnswer(a) == a.text # "absent" /\ a.gs \in {"pending", "queued", "running"}
Verdict(answers, grades) ==
  IF \E q \in Questions : OpenAnswer(answers[q]) \/ grades[q] = "open" THEN "waiting"
  ELSE IF \E q \in Questions : \/ answers[q].text # "absent" /\ answers[q].gs = "system_error"
                               \/ /\ answers[q].text # "absent" /\ answers[q].score = Null
                                  /\ answers[q].gs = "completed"
                               \/ grades[q] = "review_required"
         THEN "review_required" ELSE "graded"

\* Mutant: only the answers that exist are looked at.
CompleteIfAny(answers, grades) ==
  \A q \in Questions : /\ answers[q].text # "absent" => answers[q].score # Null
                       /\ grades[q] \notin {"open", "review_required"}

\* promote_review_required_if_complete: every question scored, no AI grade unsettled.
Complete(answers, grades) ==
  \A q \in Questions : /\ answers[q].text # "absent" /\ answers[q].score # Null
                       /\ grades[q] \notin {"open", "review_required"}

\* Mutant: the verdict "waiting" is not told from the others.
FinalizeReadAlways(p) ==
  /\ proc[p].step = "finalize" /\ ParentFree(p)
  /\ IF sub.status = "grading"
       THEN Become(p, [proc[p] EXCEPT !.step = "locked", !.to = Verdict(ans, cg), !.total = Sum(ans)])
       ELSE End(p)
  /\ UNCHANGED <<rows, spent>>

\* The attempt is locked only when it can be closed (an early return ends
\* the others); the caller of the AI goes on to promote in any case.
FinalizeRead(p) ==
  /\ proc[p].step = "finalize" /\ ParentFree(p)
  /\ LET verdict == Verdict(ans, cg) IN
     IF sub.status = "grading" /\ verdict # "waiting"
       THEN Become(p, [proc[p] EXCEPT !.step = "locked", !.to = verdict, !.total = Sum(ans)])
       ELSE IF proc[p].op = "ai" THEN Go(p, "promote") ELSE End(p)
  /\ UNCHANGED <<rows, spent>>

\* Mutant: the grade book is not written.
CloseUnbooked(p, from) ==
  /\ IF sub.status = from
       THEN sub' = [sub EXCEPT !.status = proc[p].to, !.total = IF proc[p].to = "graded" THEN proc[p].total ELSE @]
       ELSE UNCHANGED sub
  /\ UNCHANGED grade

\* The conditional UPDATE on the old status, the ExamGrade, the commit.
Close(p, from) ==
  IF sub.status = from
    THEN /\ sub' = [sub EXCEPT !.status = proc[p].to,
                               !.total = IF proc[p].to = "graded" THEN proc[p].total ELSE @]
         /\ grade' = IF proc[p].to = "graded" THEN proc[p].total ELSE grade
    ELSE UNCHANGED <<sub, grade>>

FinalizeCommit(p) ==
  /\ proc[p].step = "locked"
  /\ Close(p, "grading")
  /\ IF proc[p].op = "ai" THEN Go(p, "promote") ELSE End(p)
  /\ UNCHANGED <<ans, cg, spent>>

\* promote reads without a lock.
PromoteRead(p) ==
  /\ proc[p].step = "promote"
  /\ IF sub.status = "review_required" /\ Complete(ans, cg)
       THEN Become(p, [proc[p] EXCEPT !.step = "promoting", !.to = "graded", !.total = Sum(ans)])
       ELSE End(p)
  /\ UNCHANGED <<rows, spent>>

PromoteCommit(p) ==
  /\ proc[p].step = "promoting" /\ ParentFree(p)
  /\ Close(p, "review_required")
  /\ End(p)
  /\ UNCHANGED <<ans, cg, spent>>
=============================================================================
