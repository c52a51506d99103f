---------------------------- MODULE TaskAuthoring ----------------------------
(***************************************************************************)
(* How an assignment or an exam is written, published and taken back: the  *)
(* questions, their AI configuration and rubrics (api/assignments.py,      *)
(* api/exams.py, exam_service.py, rubric_service.py and the first half of  *)
(* api/ai_grading.py), against the students' first submissions.            *)
(*                                                                         *)
(* A request checks in one step and writes in another; the AI service is   *)
(* called in between.  Of a question there is what its rubric is made      *)
(* from, in two values (its text; constraints and test groups), and the    *)
(* grading mode; the rest of its fields change with the text.  Permissions,*)
(* dates, audiences and the wording of rubrics are left out.               *)
(***************************************************************************)
EXTENDS Naturals, FiniteSets

CONSTANTS Questions, Desks, Takers,   \* Desks: requests served at a time
          MaxAsked                    \* bound on requests

ASSUME AuthoringAssumption == MaxAsked \in Nat

VARIABLES kind,     \* "assignment" or "exam"
          task,     \* status and environment_version_id
          item,     \* the questions that exist
          rubric,   \* QuestionRubric rows
          handed,   \* what a student's Submission or ExamSubmission was made for
          desk,     \* requests between check and write
          slips,    \* how checks were overtaken: "race", and "config" where there is none
          asked     \* requests so far

taskVars == <<kind, task, item, rubric, handed, desk, slips, asked>>

NoItems == [q \in {} |-> 0]
NotHanded == [item |-> NoItems, env |-> 0, made |-> FALSE]
AtRest == [op |-> "none", q |-> "none", v |-> 0, item |-> NoItems, env |-> 0, todo |-> {}]

TaskInit ==
  /\ kind \in {"assignment", "exam"}
  /\ task = [status |-> "none", env |-> 0]
  /\ item = NoItems /\ rubric = {}
  /\ handed = [s \in Takers |-> NotHanded]
  /\ desk = [d \in Desks |-> AtRest]
  /\ slips = {} /\ asked = 0

Known(q) == q \in DOMAIN item
Handed == \E s \in Takers : handed[s].made

\* ensure_scoring_editable, require_exam_editable.
\* Mutant: a task that was taken back may be changed.
EditableAgain == task.status = "draft"

Editable == /\ task.status = "draft"
            /\ kind = "assignment" => ~Handed

\* _ensure_assignment_scoring_editable: nothing is asked of an exam.
Configurable == kind = "assignment" => Editable

-----------------------------------------------------------------------------
(* Requests.                                                               *)

\* The version of a rubric and the questions as they were read, where it matters.
Asks(d, request) ==
  /\ desk[d] = AtRest /\ task.status # "none"
  /\ asked < MaxAsked /\ asked' = asked + 1
  /\ desk' = [desk EXCEPT ![d] = request]
  /\ UNCHANGED <<kind, task, item, rubric, handed, slips>>

Ends(d) == desk' = [desk EXCEPT ![d] = AtRest] /\ UNCHANGED <<kind, asked>>

\* What was checked may no longer be so when the request writes.
Overtaken(still) == slips' = IF still THEN slips ELSE slips \cup {"race"}

Fails(d) == Ends(d) /\ UNCHANGED <<task, item, rubric, handed, slips>>

-----------------------------------------------------------------------------
(* The task and its questions.                                             *)

Created ==
  /\ task.status = "none" /\ asked < MaxAsked
  /\ task' = [task EXCEPT !.status = "draft"] /\ asked' = asked + 1
  /\ UNCHANGED <<kind, item, rubric, handed, desk, slips>>

CreateAssignment == kind = "assignment" /\ Created
CreateExam == kind = "exam" /\ Created

\* update_assignment with another environment, create_question, update_question,
\* delete_question.
AskEdit(d, op, q) ==
  /\ Editable
  /\ op = "environment" => kind = "assignment"
  /\ op \in {"change", "remove"} => Known(q)
  /\ op = "add" => ~Known(q)
  /\ Asks(d, [AtRest EXCEPT !.op = op, !.q = q])

New(q) == \E mode \in {"legacy", "active"} :
  item' = [r \in DOMAIN item \cup {q} |->
             IF r = q THEN [text |-> 0, rules |-> 0, mode |-> mode] ELSE item[r]]

Rows(q) == {r \in rubric : r.q = q}
Without(q) == [r \in DOMAIN item \ {q} |-> item[r]]

\* A row that is gone cannot be written; nor can an exam question with a rubric.
Refused(op, q) ==
  \/ task.status = "none"
  \/ op \in {"change", "remove"} /\ ~Known(q)
  \/ op = "add" /\ Known(q)
  \/ op = "remove" /\ kind = "exam" /\ Rows(q) # {}
EditRefused(d) == /\ desk[d].op \in {"environment", "add", "change", "remove"}
                  /\ Refused(desk[d].op, desk[d].q) /\ Fails(d)
Edits(d, op) == /\ desk[d].op = op /\ ~Refused(op, desk[d].q)
                /\ Ends(d) /\ Overtaken(Editable) /\ UNCHANGED handed

UpdateAssignment(d) == /\ Edits(d, "environment") /\ task' = [task EXCEPT !.env = 1 - @]
                       /\ UNCHANGED <<item, rubric>>
CreateQuestion(d) == Edits(d, "add") /\ New(desk[d].q) /\ UNCHANGED <<task, rubric>>
UpdateQuestion(d) == /\ Edits(d, "change") /\ item' = [item EXCEPT ![desk[d].q].text = 1 - @]
                     /\ UNCHANGED <<task, rubric>>
DeleteQuestion(d) == /\ Edits(d, "remove") /\ item' = Without(desk[d].q)
                     /\ rubric' = rubric \ Rows(desk[d].q) /\ UNCHANGED task

\* delete_assignment: with the submissions, if any came in after the check.
AskDelete(d) == kind = "assignment" /\ Editable /\ Asks(d, [AtRest EXCEPT !.op = "delete"])
Delete(d) ==
  /\ desk[d].op = "delete"
  /\ task' = [task EXCEPT !.status = "none"] /\ item' = NoItems /\ rubric' = {}
  /\ handed' = [s \in Takers |-> NotHanded]
  /\ Overtaken(Editable) /\ Ends(d)

-----------------------------------------------------------------------------
(* AI configuration and rubrics.                                           *)

\* update_question_ai_config.
AskConfigure(d, q) == Configurable /\ Known(q) /\ Asks(d, [AtRest EXCEPT !.op = "configure", !.q = q])
Configure(d) ==
  LET on == desk[d].q IN
  /\ desk[d].op = "configure"
  /\ IF ~Known(on) THEN Fails(d)
     ELSE /\ \E mode \in {"legacy", "active"} :
               item' = [item EXCEPT ![on].rules = 1 - @, ![on].mode = mode]
          /\ slips' = slips \cup (IF Configurable THEN {} ELSE {"race"})
                            \cup (IF kind = "exam" /\ ~Editable THEN {"config"} ELSE {})
          /\ Ends(d) /\ UNCHANGED <<task, rubric, handed>>

Source(it) == [text |-> it.text, rules |-> it.rules]
NextVersion(q) == Cardinality(Rows(q)) + 1
Made(q, it, status) == [q |-> q, v |-> NextVersion(q), status |-> status, of |-> Source(it)]

\* generate_rubric: the version was chosen before the AI service was called, and
\* is unique.
AskGenerate(d, q) ==
  Configurable /\ Known(q) /\ Asks(d, [AtRest EXCEPT !.op = "generate", !.q = q, !.v = NextVersion(q), !.item = item])
Generate(d) ==
  LET on == desk[d].q IN
  /\ desk[d].op = "generate"
  /\ \/ Fails(d)
     \/ /\ Known(on) /\ NextVersion(on) = desk[d].v
        /\ rubric' = rubric \cup {Made(on, desk[d].item[on], "draft")}
        /\ Ends(d) /\ UNCHANGED <<task, item, handed, slips>>

Locked(q) == {r \in Rows(q) : r.status = "locked"}
Superseded(rows) == (rubric \ rows) \cup {[r EXCEPT !.status = "superseded"] : r \in rows}

\* lock_rubric; one that was superseded may be locked again.
AskLock(d, r) == /\ Configurable /\ r \in rubric /\ r.status # "locked"
                 /\ Asks(d, [AtRest EXCEPT !.op = "lock", !.q = r.q, !.v = r.v,
                                         !.todo = {l.v : l \in Locked(r.q)}])
Lock(d) ==
  LET chosen == {r \in Rows(desk[d].q) : r.v = desk[d].v}
      seen == {r \in Rows(desk[d].q) : r.v \in desk[d].todo} IN
  /\ desk[d].op = "lock"
  /\ IF chosen = {} THEN Fails(d)
     ELSE /\ rubric' = (Superseded(seen) \ chosen) \cup {[r EXCEPT !.status = "locked"] : r \in chosen}
          /\ Overtaken(Configurable /\ seen = Locked(desk[d].q))
          /\ Ends(d) /\ UNCHANGED <<task, item, handed>>

-----------------------------------------------------------------------------
(* Publication.                                                            *)

Latest(rows) == CHOOSE r \in rows : \A l \in rows : l.v <= r.v
Fits(q, it) == Locked(q) # {} /\ Latest(Locked(q)).of = Source(it)
Assisted(its) == {q \in DOMAIN its : its[q].mode = "active"}

AsksToPublish(d, todo) ==
  item # NoItems /\ Asks(d, [AtRest EXCEPT !.op = "publish", !.item = item, !.todo = todo])

\* publish_assignment
AskPublishAssignment(d) == kind = "assignment" /\ AsksToPublish(d, Assisted(item))

\* update_exam to "published", which asks for rubrics the first time and does not
\* look at what they were made from.
AskPublishExam(d) ==
  /\ kind = "exam" /\ AsksToPublish(d, {})
  /\ task.status = "draft" => \A q \in Assisted(item) : Locked(q) # {}

\* ensure_locked_rubrics_for_publish, for one question, with its own commit;
\* the AI service may refuse, and what was locked stays.
PublishRubric(d, q) ==
  LET it == desk[d].item[q] IN
  /\ desk[d].op = "publish" /\ q \in desk[d].todo
  /\ \/ /\ Fits(q, it) /\ UNCHANGED <<rubric, slips>>
     \/ /\ ~Fits(q, it) /\ Known(q)
        /\ rubric' = Superseded(Locked(q)) \cup {Made(q, it, "locked")}
        /\ Overtaken(item[q] = it)
  /\ desk' = [desk EXCEPT ![d].todo = @ \ {q}]
  /\ UNCHANGED <<kind, task, item, handed, asked>>

PublishRefused(d) == desk[d].op = "publish" /\ desk[d].todo # {} /\ Fails(d)

Gate == IF kind = "exam" THEN \A q \in Assisted(item) : Locked(q) # {}
                         ELSE \A q \in Assisted(item) : Fits(q, item[q])

Publish(d) ==
  /\ desk[d].op = "publish" /\ desk[d].todo = {}
  /\ IF task.status = "none" THEN Fails(d)
     ELSE /\ task' = [task EXCEPT !.status = "published"]
          /\ Overtaken(Gate /\ desk[d].item = item)
          /\ Ends(d) /\ UNCHANGED <<item, rubric, handed>>

\* unpublish_assignment; update_exam to "draft", if nobody has begun.
AskUnpublish(d) ==
  /\ task.status = "published" /\ (kind = "exam" => ~Handed)
  /\ Asks(d, [AtRest EXCEPT !.op = "unpublish"])
Unpublish(d) ==
  /\ desk[d].op = "unpublish"
  /\ IF task.status = "none" THEN Fails(d)
     ELSE /\ task' = [task EXCEPT !.status = "draft"]
          /\ Overtaken(kind = "exam" => ~Handed)
          /\ Ends(d) /\ UNCHANGED <<item, rubric, handed>>

-----------------------------------------------------------------------------
(* A student's first submission, or the start of the exam.                 *)

AskTake(d, s) == /\ task.status = "published" /\ ~handed[s].made
                 /\ Asks(d, [AtRest EXCEPT !.op = "take", !.q = s, !.item = item, !.env = task.env])
CreateSubmission(d, s) == kind = "assignment" /\ AskTake(d, s)
StartExam(d, s) == kind = "exam" /\ AskTake(d, s)
TakeTask(d) ==
  LET s == desk[d].q IN
  /\ desk[d].op = "take"
  /\ IF task.status = "none" THEN Fails(d)
     ELSE /\ handed' = [handed EXCEPT ![s] = [item |-> desk[d].item, env |-> desk[d].env, made |-> TRUE]]
          /\ Overtaken(task.status = "published" /\ desk[d].item = item /\ desk[d].env = task.env)
          /\ Ends(d) /\ UNCHANGED <<task, item, rubric>>

TaskNext ==
  \/ CreateAssignment \/ CreateExam
  \/ \E d \in Desks :
       \/ \E op \in {"environment", "add", "change", "remove"}, q \in Questions : AskEdit(d, op, q)
       \/ \E q \in Questions : AskConfigure(d, q) \/ AskGenerate(d, q) \/ PublishRubric(d, q)
       \/ \E r \in rubric : AskLock(d, r)
       \/ \E s \in Takers : CreateSubmission(d, s) \/ StartExam(d, s)
       \/ AskDelete(d) \/ AskPublishAssignment(d) \/ AskPublishExam(d) \/ AskUnpublish(d)
       \/ EditRefused(d) \/ UpdateAssignment(d) \/ CreateQuestion(d) \/ UpdateQuestion(d)
       \/ DeleteQuestion(d) \/ Delete(d) \/ Configure(d) \/ Generate(d) \/ Lock(d)
       \/ PublishRefused(d) \/ Publish(d) \/ Unpublish(d) \/ TakeTask(d)

-----------------------------------------------------------------------------
(* What students are graded by is what they were given.  As long as no     *)
(* request writes what another has just made inadmissible: once somebody   *)
(* has handed in, no order of edits, configurations, publications and      *)
(* withdrawals changes the questions and the environment (the text, for an *)
(* exam, whose configuration nothing protects); while an assignment is     *)
(* published, the rubric in force was made from each question as it is,    *)
(* and there is one; and an exam has one for each question graded by AI,   *)
(* unless its configuration was changed after publication.                 *)
Texts(its) == [q \in DOMAIN its |-> its[q].text]
FrozenOnceHanded == \A s \in Takers : handed[s].made =>
  IF kind = "exam" THEN Texts(handed[s].item) = Texts(item)
  ELSE handed[s].item = item /\ handed[s].env = task.env
OneLocked == \A q \in Questions : Cardinality(Locked(q)) <= 1
RubricsFit == task.status = "published" /\ "config" \notin slips => Gate
GradedAsShown == "race" \notin slips => FrozenOnceHanded /\ OneLocked /\ RubricsFit
=============================================================================
