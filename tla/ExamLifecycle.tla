---------------------------- MODULE ExamLifecycle ----------------------------
(***************************************************************************)
(* What an attempt at an exam promises to the rest of the platform         *)
(* (models/__init__.py, ExamSubmission): it is handed in once, its result  *)
(* is published in one step, in the submission and in the grade book, and  *)
(* a published attempt never goes back; only the teacher moves one that is *)
(* under review.                                                           *)
(***************************************************************************)
EXTENDS Integers

VARIABLES status,  \* ExamSubmission.status
          total,   \* ExamSubmission.score
          grade    \* ExamGrade.score

lifecycle == <<status, total, grade>>

Init == status = "none" /\ total = -1 /\ grade = -1

Moves == {<<"none", "started">>, <<"started", "submitted">>, <<"started", "grading">>,
          <<"submitted", "grading">>, <<"grading", "review_required">>, <<"review_required", "grading">>}

Move == <<status, status'>> \in Moves /\ UNCHANGED <<total, grade>>

\* Closed by the last answer, by the teacher who settles a review, or marked anew.
Publish == /\ status \in {"grading", "review_required", "graded"}
           /\ status' = "graded" /\ total' \in Nat /\ grade' = total'

Spec == Init /\ [][Move \/ Publish]_lifecycle
=============================================================================
