--------------------------- MODULE CourseworkProofs ---------------------------
(***************************************************************************)
(* Theorems about what there has to be before a student's work is judged,  *)
(* and about the pages that show what was, checked by TLAPS for any        *)
(* numbers of questions, students and requests.                            *)
(*                                                                         *)
(* TaskAuthoring: what students are graded by is what they were given, as  *)
(* long as no request writes what another has just made inadmissible.      *)
(* ConfigPanel: what a teacher types for one question is never stored in   *)
(* another, as long as he waits for the panel.                             *)
(* ReadModels: the pages agree about every row.                            *)
(***************************************************************************)
EXTENDS MCCoursework, SumProofs, FiniteSetTheorems, TLAPS

TaskSpec == TaskInit /\ [][TaskNext]_taskVars

-----------------------------------------------------------------------------
(* TaskAuthoring                                                            *)

Sheet == [text : {0, 1}, rules : {0, 1}, mode : {"legacy", "active"}]
Sheets == UNION {[asked_of -> Sheet] : asked_of \in SUBSET Questions}
SourceType == [text : {0, 1}, rules : {0, 1}]
RubricRow == [q : Questions, v : Nat, status : {"draft", "locked", "superseded"}, of : SourceType]
TaskOps == {"none", "environment", "add", "change", "remove", "delete", "configure", "generate",
            "lock", "publish", "unpublish", "take"}
DeskRow == [op : TaskOps, q : Questions \cup Takers \cup {"none"}, v : Nat, item : Sheets,
            env : {0, 1}, todo : SUBSET (Questions \cup Nat)]
Copy == [item : Sheets, env : {0, 1}, made : BOOLEAN]

TaskType ==
  /\ kind \in {"assignment", "exam"}
  /\ task \in [status : {"none", "draft", "published"}, env : {0, 1}]
  /\ item \in Sheets /\ rubric \in SUBSET RubricRow /\ handed \in [Takers -> Copy]
  /\ desk \in [Desks -> DeskRow] /\ slips \in SUBSET {"race", "config"}

\* A request knows the question it is about, and a lock replaces another version.
DeskOK(mine) ==
  /\ mine.op \in {"environment", "add", "change", "remove", "configure", "generate", "lock"}
       => mine.q \in Questions
  /\ mine.op = "generate" => mine.q \in DOMAIN mine.item
  /\ mine.op = "lock" => mine.v \notin mine.todo
  /\ mine.op = "publish" => mine.todo \subseteq DOMAIN mine.item
  /\ mine.op = "take" => mine.q \in Takers
DeskKnows == \A d \in Desks : DeskOK(desk[d])

\* The versions of a question's rubric are numbered from 1.
Numbers(rows) == /\ IsFiniteSet(rows) /\ {r.v : r \in rows} = 1 .. Cardinality(rows)
                 /\ \A r, s \in rows : r.v = s.v => r = s
Numbered == \A q \in Questions : Numbers(Rows(q))

\* Without a race: who has begun an exam keeps it published, and one rubric is in force.
OneInForce == \A q \in Questions : \A r, s \in Locked(q) : r = s
Untouched == /\ kind = "exam" /\ Handed => task.status = "published"
             /\ FrozenOnceHanded /\ OneInForce /\ RubricsFit

TaskInv == TaskType /\ DeskKnows /\ Numbered /\ ("race" \notin slips => Untouched)

\* Sheets by their questions.
LEMMA SheetsAre ==
  ASSUME NEW x
  PROVE  /\ x \in Sheets => DOMAIN x \subseteq Questions /\ x \in [DOMAIN x -> Sheet]
         /\ DOMAIN x \subseteq Questions /\ x \in [DOMAIN x -> Sheet] => x \in Sheets
<1>1. ASSUME x \in Sheets PROVE DOMAIN x \subseteq Questions /\ x \in [DOMAIN x -> Sheet]
  <2>1. PICK known \in SUBSET Questions : x \in [known -> Sheet]
    BY <1>1 DEF Sheets
  <2>2. DOMAIN x = known
    BY <2>1
  <2>3. QED
    BY <2>1, <2>2
<1>2. QED
  BY <1>1 DEF Sheets

LEMMA NoneAsked == NoItems \in Sheets /\ AtRest \in DeskRow /\ DeskOK(AtRest) /\ AtRest.op = "none"
<1>1. NoItems \in Sheets
  <2>1. DOMAIN NoItems = {} /\ NoItems \in [DOMAIN NoItems -> Sheet]
    BY DEF NoItems
  <2>2. QED
    BY <2>1, SheetsAre
<1>2. QED
  BY <1>1 DEF AtRest, DeskRow, DeskOK, TaskOps

\* What has one row for each number up to n has n rows.
LEMMA NumbersOf ==
  ASSUME NEW rows, NEW n \in Nat, {r.v : r \in rows} = 1 .. n,
         \A r, s \in rows : r.v = s.v => r = s
  PROVE  Numbers(rows) /\ Cardinality(rows) = n
<1> DEFINE f == [i \in 1 .. n |-> CHOOSE r \in rows : r.v = i]
<1>1. \A i \in 1 .. n : f[i] \in rows /\ f[i].v = i
  <2>1. SUFFICES ASSUME NEW i \in 1 .. n PROVE f[i] \in rows /\ f[i].v = i
    OBVIOUS
  <2>2. \E r \in rows : r.v = i
    OBVIOUS
  <2>3. f[i] = CHOOSE r \in rows : r.v = i
    OBVIOUS
  <2>4. QED
    BY <2>2, <2>3
<1>2. \A r \in rows : r.v \in 1 .. n
  OBVIOUS
<1>3. f \in [1 .. n -> rows]
  <2>1. \A i \in 1 .. n : f[i] \in rows
    BY <1>1
  <2>2. QED
    BY <2>1
<1> HIDE DEF f
<1>4. \A i, j \in 1 .. n : f[i] = f[j] => i = j
  BY <1>1
<1>5. \A r \in rows : \E i \in 1 .. n : f[i] = r
  BY <1>1, <1>2
<1>6. f \in Bijection(1 .. n, rows)
  BY <1>3, <1>4, <1>5 DEF Bijection, Injection, Surjection, IsInjective
<1>7. ExistsBijection(1 .. n, rows)
  BY <1>6 DEF ExistsBijection
<1>8. Cardinality(rows) = n
  BY <1>7, FS_CountingElements
<1>9. IsFiniteSet(rows)
  <2>1. IsFiniteSet(1 .. n)
    BY FS_Interval
  <2>2. QED
    BY <2>1, <1>7, FS_Bijection
<1>10. QED
  BY <1>8, <1>9 DEF Numbers

\* Rows that keep their numbers, and a row that is added with the next one.
LEMMA NumbersKept ==
  ASSUME NEW rows, Numbers(rows), NEW later,
         \A t \in later : \E r \in rows : t.v = r.v,
         \A r \in rows : \E t \in later : t.v = r.v,
         \A r, s \in later : r.v = s.v => r = s
  PROVE  Numbers(later) /\ Cardinality(later) = Cardinality(rows)
<1>1. Cardinality(rows) \in Nat /\ {r.v : r \in rows} = 1 .. Cardinality(rows)
  BY FS_CardinalityType DEF Numbers
<1>2. {t.v : t \in later} = {r.v : r \in rows}
  OBVIOUS
<1>3. QED
  BY <1>1, <1>2, NumbersOf

LEMMA NumbersNext ==
  ASSUME NEW rows, Numbers(rows), NEW mine, mine.v = Cardinality(rows) + 1
  PROVE  Numbers(rows \cup {mine})
<1> DEFINE n == Cardinality(rows)
<1>1. n \in Nat /\ {r.v : r \in rows} = 1 .. n
  BY FS_CardinalityType DEF Numbers
<1>2. \A r \in rows : r.v \in 1 .. n
  BY <1>1
<1>3. {r.v : r \in rows \cup {mine}} = 1 .. (n + 1)
  <2>1. {r.v : r \in rows \cup {mine}} = {r.v : r \in rows} \cup {mine.v}
    OBVIOUS
  <2>2. 1 .. (n + 1) = (1 .. n) \cup {n + 1}
    BY <1>1
  <2>3. QED
    BY <1>1, <2>1, <2>2
<1>4. \A r, s \in rows \cup {mine} : r.v = s.v => r = s
  BY <1>1, <1>2 DEF Numbers
<1>5. QED
  BY <1>1, <1>3, <1>4, NumbersOf

\* A request that is put on a desk, or taken from it.
LEMMA OnDesk ==
  ASSUME TaskInv, NEW d \in Desks, NEW r \in DeskRow, DeskOK(r), desk' = [desk EXCEPT ![d] = r]
  PROVE  desk' \in [Desks -> DeskRow] /\ DeskKnows'
<1>1. desk \in [Desks -> DeskRow] /\ \A e \in Desks : DeskOK(desk[e])
  BY DEF TaskInv, TaskType, DeskKnows
<1>2. \A e \in Desks : desk'[e] = IF e = d THEN r ELSE desk[e]
  BY <1>1
<1>3. \A e \in Desks : DeskOK(desk'[e])
  BY <1>1, <1>2
<1>4. DeskKnows'
  BY <1>3 DEF DeskKnows, DeskOK
<1>5. QED
  BY <1>1, <1>4

LEMMA OffDesk ==
  ASSUME TaskInv, NEW d \in Desks, Ends(d)
  PROVE  desk' \in [Desks -> DeskRow] /\ DeskKnows' /\ kind' = kind
BY NoneAsked, OnDesk DEF Ends

\* Steps that change no row.
LEMMA RowsKept ==
  ASSUME TaskInv, UNCHANGED <<kind, task, item, rubric, handed, slips>>,
         desk' \in [Desks -> DeskRow], DeskKnows'
  PROVE  TaskInv'
<1>1. TaskType'
  BY DEF TaskInv, TaskType
<1>2. Numbered'
  BY DEF TaskInv, Numbered, Rows
<1>3. "race" \notin slips' => Untouched'
  BY DEF TaskInv, Untouched, Handed, FrozenOnceHanded, OneInForce, RubricsFit, Texts, Locked, Rows, Gate,
         Assisted, Fits, Source, Latest
<1>4. QED
  BY <1>1, <1>2, <1>3 DEF TaskInv

LEMMA AsksStep ==
  ASSUME TaskInv, NEW d \in Desks, NEW r \in DeskRow, DeskOK(r), Asks(d, r)
  PROVE  TaskInv'
BY OnDesk, RowsKept DEF Asks

LEMMA FailsStep ==
  ASSUME TaskInv, NEW d \in Desks, Fails(d)
  PROVE  TaskInv'
BY OffDesk, RowsKept DEF Fails

\* The requests that are read: each asks for something that it knows.
LEMMA AskSteps ==
  ASSUME TaskInv, NEW d \in Desks,
         \/ \E op \in {"environment", "add", "change", "remove"}, q \in Questions : AskEdit(d, op, q)
         \/ \E q \in Questions : AskConfigure(d, q)
         \/ \E s \in Takers : CreateSubmission(d, s) \/ StartExam(d, s)
         \/ AskDelete(d) \/ AskPublishAssignment(d) \/ AskPublishExam(d) \/ AskUnpublish(d)
  PROVE  TaskInv'
<1>1. item \in Sheets /\ task.env \in {0, 1} /\ AtRest \in DeskRow
  BY NoneAsked DEF TaskInv, TaskType
<1>2. DOMAIN item \subseteq Questions
  BY <1>1, SheetsAre
<1>3. CASE \E op \in {"environment", "add", "change", "remove"}, q \in Questions : AskEdit(d, op, q)
  <2>1. PICK op \in {"environment", "add", "change", "remove"}, q \in Questions : AskEdit(d, op, q)
    BY <1>3
  <2> DEFINE r == [AtRest EXCEPT !.op = op, !.q = q]
  <2>2. r \in DeskRow /\ DeskOK(r)
    BY <1>1 DEF AtRest, DeskRow, DeskOK, TaskOps
  <2>3. QED
    BY <2>1, <2>2, AsksStep DEF AskEdit
<1>4. CASE \E q \in Questions : AskConfigure(d, q)
  <2>1. PICK q \in Questions : AskConfigure(d, q)
    BY <1>4
  <2> DEFINE r == [AtRest EXCEPT !.op = "configure", !.q = q]
  <2>2. r \in DeskRow /\ DeskOK(r)
    BY <1>1 DEF AtRest, DeskRow, DeskOK, TaskOps
  <2>3. QED
    BY <2>1, <2>2, AsksStep DEF AskConfigure
<1>5. CASE \E s \in Takers : CreateSubmission(d, s) \/ StartExam(d, s)
  <2>1. PICK s \in Takers : AskTake(d, s)
    BY <1>5 DEF CreateSubmission, StartExam
  <2> DEFINE r == [AtRest EXCEPT !.op = "take", !.q = s, !.item = item, !.env = task.env]
  <2>2. r \in DeskRow /\ DeskOK(r)
    BY <1>1 DEF AtRest, DeskRow, DeskOK, TaskOps
  <2>3. QED
    BY <2>1, <2>2, AsksStep DEF AskTake
<1>6. CASE AskDelete(d) \/ AskUnpublish(d)
  <2> DEFINE r(op) == [AtRest EXCEPT !.op = op]
  <2>1. \A op \in {"delete", "unpublish"} : r(op) \in DeskRow /\ DeskOK(r(op))
    BY <1>1 DEF AtRest, DeskRow, DeskOK, TaskOps
  <2>2. QED
    BY <1>6, <2>1, AsksStep DEF AskDelete, AskUnpublish
<1>7. CASE AskPublishAssignment(d) \/ AskPublishExam(d)
  <2>1. PICK todo \in {Assisted(item), {}} : AsksToPublish(d, todo)
    BY <1>7 DEF AskPublishAssignment, AskPublishExam
  <2>2. todo \subseteq DOMAIN item
    BY <2>1 DEF Assisted
  <2> DEFINE r == [AtRest EXCEPT !.op = "publish", !.item = item, !.todo = todo]
  <2>3. r \in DeskRow /\ DeskOK(r)
    BY <1>1, <1>2, <2>2 DEF AtRest, DeskRow, DeskOK, TaskOps
  <2>4. QED
    BY <2>1, <2>3, AsksStep DEF AsksToPublish
<1>8. QED
  BY <1>3, <1>4, <1>5, <1>6, <1>7

\* Two rows of one question and version are one row.
LEMMA OneRow ==
  ASSUME TaskInv
  PROVE  \A r, s \in rubric : r.q = s.q /\ r.v = s.v => r = s
<1>1. SUFFICES ASSUME NEW r \in rubric, NEW s \in rubric, r.q = s.q, r.v = s.v PROVE r = s
  OBVIOUS
<1>2. r.q \in Questions /\ r \in Rows(r.q) /\ s \in Rows(r.q)
  BY <1>1 DEF TaskInv, TaskType, RubricRow, Rows
<1>3. QED
  BY <1>1, <1>2 DEF TaskInv, Numbered, Numbers

LEMMA AskGenerateStep ==
  ASSUME TaskInv, NEW d \in Desks, NEW q \in Questions, AskGenerate(d, q)
  PROVE  TaskInv'
<1>1. item \in Sheets /\ NextVersion(q) \in Nat /\ q \in DOMAIN item /\ AtRest \in DeskRow
  <2>1. Cardinality(Rows(q)) \in Nat
    BY FS_CardinalityType DEF TaskInv, Numbered, Numbers
  <2>2. QED
    BY <2>1, NoneAsked DEF TaskInv, TaskType, NextVersion, AskGenerate, Known
<1> DEFINE r == [AtRest EXCEPT !.op = "generate", !.q = q, !.v = NextVersion(q), !.item = item]
<1>2. r \in DeskRow /\ DeskOK(r)
  BY <1>1 DEF AtRest, DeskRow, DeskOK, TaskOps
<1>3. QED
  BY <1>2, AsksStep DEF AskGenerate

LEMMA AskLockStep ==
  ASSUME TaskInv, NEW d \in Desks, NEW a \in rubric, AskLock(d, a)
  PROVE  TaskInv'
<1> DEFINE todo == {l.v : l \in Locked(a.q)}
           r == [AtRest EXCEPT !.op = "lock", !.q = a.q, !.v = a.v, !.todo = todo]
<1>1. a \in RubricRow /\ AtRest \in DeskRow
  BY NoneAsked DEF TaskInv, TaskType
<1>2. \A l \in Locked(a.q) : l \in rubric /\ l.q = a.q /\ l.status = "locked" /\ l.v \in Nat
  BY DEF Locked, Rows, TaskInv, TaskType, RubricRow
<1>3. a.v \notin todo
  <2>1. SUFFICES ASSUME a.v \in todo PROVE FALSE
    OBVIOUS
  <2>2. PICK l \in Locked(a.q) : l.v = a.v
    BY <2>1
  <2>3. l = a
    BY <1>2, <2>2, OneRow
  <2>4. QED
    BY <1>2, <2>3 DEF AskLock
<1>4. todo \subseteq Nat
  BY <1>2
<1> HIDE DEF todo
<1>5. r \in DeskRow /\ DeskOK(r)
  BY <1>1, <1>3, <1>4 DEF AtRest, DeskRow, RubricRow, DeskOK, TaskOps
<1>6. Asks(d, r)
  BY DEF AskLock, todo
<1>7. QED
  BY <1>5, <1>6, AsksStep

-----------------------------------------------------------------------------
(* Edits of the task and its questions.                                    *)

\* An edit that was not overtaken finds a draft nobody has answered.
LEMMA EditedInTime ==
  ASSUME TaskInv, "race" \notin slips, Editable, kind' = kind, handed' = handed,
         task'.status = task.status, rubric' \subseteq rubric
  PROVE  Untouched'
<1>1. task.status = "draft" /\ ~Handed
  BY DEF TaskInv, TaskType, Untouched, Editable
<1>2. ~Handed' /\ FrozenOnceHanded'
  BY <1>1 DEF Handed, FrozenOnceHanded
<1>3. RubricsFit'
  BY <1>1 DEF RubricsFit
<1>4. OneInForce'
  <2>1. \A q : Locked(q)' \subseteq Locked(q)
    BY DEF Locked, Rows
  <2>2. QED
    BY <2>1 DEF TaskInv, Untouched, OneInForce
<1>5. QED
  BY <1>2, <1>3, <1>4 DEF Untouched

LEMMA EditSteps ==
  ASSUME TaskInv, NEW d \in Desks,
         UpdateAssignment(d) \/ CreateQuestion(d) \/ UpdateQuestion(d) \/ DeleteQuestion(d)
  PROVE  TaskInv'
<1> DEFINE q == desk[d].q
<1>1. /\ Ends(d) /\ Overtaken(Editable) /\ handed' = handed /\ q \in Questions
      /\ desk' \in [Desks -> DeskRow] /\ DeskKnows' /\ kind' = kind
  BY OffDesk DEF UpdateAssignment, CreateQuestion, UpdateQuestion, DeleteQuestion, Edits, TaskInv,
                 DeskKnows, DeskOK
<1>2. slips' \in SUBSET {"race", "config"} /\ ("race" \notin slips' => "race" \notin slips /\ Editable)
  BY <1>1 DEF Overtaken, TaskInv, TaskType
<1>3. item \in Sheets /\ DOMAIN item \subseteq Questions /\ item \in [DOMAIN item -> Sheet]
  BY SheetsAre DEF TaskInv, TaskType
<1>4. task \in [status : {"none", "draft", "published"}, env : {0, 1}]
  BY DEF TaskInv, TaskType
<1>5. /\ task' \in [status : {"none", "draft", "published"}, env : {0, 1}] /\ task'.status = task.status
      /\ rubric' \subseteq rubric /\ item' \in Sheets /\ (rubric' = rubric \/ rubric' = rubric \ Rows(q))
  <2>1. CASE UpdateAssignment(d)
    <3>1. task' = [task EXCEPT !.env = 1 - @] /\ item' = item /\ rubric' = rubric
      BY <2>1 DEF UpdateAssignment
    <3>2. QED
      BY <1>3, <1>4, <3>1
  <2>2. CASE CreateQuestion(d)
    <3>1. PICK mode \in {"legacy", "active"} : item' = [r \in DOMAIN item \cup {q} |->
             IF r = q THEN [text |-> 0, rules |-> 0, mode |-> mode] ELSE item[r]]
      BY <2>2 DEF CreateQuestion, New
    <3>2. DOMAIN item' \subseteq Questions /\ item' \in [DOMAIN item' -> Sheet]
      BY <1>1, <1>3, <3>1 DEF Sheet
    <3>3. QED
      BY <1>4, <2>2, <3>2, SheetsAre DEF CreateQuestion
  <2>3. CASE UpdateQuestion(d)
    <3>1. /\ item' = [item EXCEPT ![q].text = 1 - @] /\ task' = task /\ rubric' = rubric
          /\ q \in DOMAIN item
      BY <2>3 DEF UpdateQuestion, Edits, Refused, Known
    <3> DEFINE new == [item[q] EXCEPT !.text = 1 - @]
    <3>2. item[q] \in Sheet
      BY <1>3, <3>1
    <3>3. new \in Sheet
      BY <3>2 DEF Sheet
    <3>4. item' = [item EXCEPT ![q] = new]
      BY <3>1
    <3> HIDE DEF new
    <3>5. DOMAIN item' = DOMAIN item /\ item' \in [DOMAIN item -> Sheet]
      BY <1>3, <3>1, <3>3, <3>4
    <3>6. QED
      BY <1>3, <1>4, <3>1, <3>5, SheetsAre
  <2>4. CASE DeleteQuestion(d)
    <3>1. item' = [r \in DOMAIN item \ {q} |-> item[r]] /\ rubric' = rubric \ Rows(q) /\ task' = task
      BY <2>4 DEF DeleteQuestion, Without
    <3>2. DOMAIN item' \subseteq Questions /\ item' \in [DOMAIN item' -> Sheet]
      BY <1>3, <3>1
    <3>3. QED
      BY <1>4, <3>1, <3>2, SheetsAre
  <2>5. QED
    BY <2>1, <2>2, <2>3, <2>4
<1>6. TaskType'
  BY <1>1, <1>2, <1>5 DEF TaskInv, TaskType
<1>7. Numbered'
  <2>1. SUFFICES ASSUME NEW p \in Questions PROVE Numbers(Rows(p)')
    BY DEF Numbered, Numbers, Rows
  <2>2. Rows(p)' = Rows(p) \/ Rows(p)' = {}
    BY <1>5 DEF Rows
  <2>3. Numbers(Rows(p)) /\ Numbers({})
    <3>1. {r.v : r \in {}} = 1 .. 0
      OBVIOUS
    <3>2. QED
      BY <3>1, NumbersOf DEF TaskInv, Numbered
  <2>4. QED
    BY <2>2, <2>3
<1>8. "race" \notin slips' => Untouched'
  BY <1>1, <1>2, <1>5, EditedInTime
<1>9. QED
  BY <1>1, <1>6, <1>7, <1>8 DEF TaskInv

\* Nobody has an answer, and no rubric is left.
LEMMA DeleteStep ==
  ASSUME TaskInv, NEW d \in Desks, Delete(d)
  PROVE  TaskInv'
<1>1. /\ Ends(d) /\ Overtaken(Editable) /\ rubric' = {} /\ item' = NoItems
      /\ task' = [task EXCEPT !.status = "none"] /\ handed' = [s \in Takers |-> NotHanded]
      /\ desk' \in [Desks -> DeskRow] /\ DeskKnows' /\ kind' = kind
  BY OffDesk DEF Delete
<1>2. TaskType'
  <2>1. NotHanded \in Copy
    BY NoneAsked DEF NotHanded, Copy
  <2>2. handed' \in [Takers -> Copy] /\ item' \in Sheets
    BY <1>1, <2>1, NoneAsked
  <2>3. task' \in [status : {"none", "draft", "published"}, env : {0, 1}]
    BY <1>1 DEF TaskInv, TaskType
  <2>4. QED
    BY <1>1, <2>2, <2>3 DEF TaskInv, TaskType, Overtaken
<1>3. \A q \in Questions : Rows(q)' = {} /\ Locked(q)' = {}
  BY <1>1 DEF Rows, Locked
<1>4. Numbered'
  <2>1. {r.v : r \in {}} = 1 .. 0
    OBVIOUS
  <2>2. Numbers({})
    BY <2>1, NumbersOf
  <2>3. \A q \in Questions : Numbers(Rows(q)')
    BY <1>3, <2>2
  <2>4. QED
    BY <2>3 DEF Numbered, Numbers, Rows
<1>5. Untouched'
  <2>1. ~Handed' /\ FrozenOnceHanded'
    BY <1>1 DEF Handed, FrozenOnceHanded, NotHanded
  <2>2. OneInForce'
    BY <1>3 DEF OneInForce
  <2>3. task'.status # "published"
    BY <1>1 DEF TaskInv, TaskType
  <2>4. QED
    BY <2>1, <2>2, <2>3 DEF Untouched, RubricsFit
<1>6. QED
  BY <1>1, <1>2, <1>4, <1>5 DEF TaskInv

LEMMA CreatedStep ==
  ASSUME TaskInv, Created
  PROVE  TaskInv'
<1>1. /\ task.status = "none" /\ task' = [task EXCEPT !.status = "draft"]
      /\ UNCHANGED <<kind, item, rubric, handed, desk, slips>>
  BY DEF Created
<1>2. /\ task' \in [status : {"none", "draft", "published"}, env : {0, 1}]
      /\ task'.status = "draft" /\ task'.env = task.env
  BY <1>1 DEF TaskInv, TaskType
<1>3. TaskType' /\ DeskKnows' /\ Numbered'
  BY <1>1, <1>2 DEF TaskInv, TaskType, DeskKnows, Numbered, Rows
<1>4. ASSUME "race" \notin slips' PROVE Untouched'
  <2>1. Untouched
    BY <1>1, <1>4 DEF TaskInv
  <2>2. kind' = "exam" => ~Handed'
    BY <1>1, <2>1 DEF Untouched, Handed
  <2>3. FrozenOnceHanded'
    BY <1>1, <1>2, <2>1 DEF Untouched, FrozenOnceHanded, Texts
  <2>4. OneInForce' /\ RubricsFit'
    BY <1>1, <1>2, <2>1 DEF Untouched, OneInForce, RubricsFit, Locked, Rows
  <2>5. QED
    BY <2>2, <2>3, <2>4 DEF Untouched
<1>5. QED
  BY <1>3, <1>4 DEF TaskInv

-----------------------------------------------------------------------------
(* AI configuration and rubrics.                                           *)

LEMMA ConfigureStep ==
  ASSUME TaskInv, NEW d \in Desks, Configure(d)
  PROVE  TaskInv'
<1> DEFINE q == desk[d].q
<1>1. CASE ~Known(q)
  BY <1>1, FailsStep DEF Configure
<1>2. CASE Known(q)
  <2>1. PICK mode \in {"legacy", "active"} : item' = [item EXCEPT ![q].rules = 1 - @, ![q].mode = mode]
    BY <1>2 DEF Configure
  <2>2. /\ slips' = slips \cup (IF Configurable THEN {} ELSE {"race"})
                          \cup (IF kind = "exam" /\ ~Editable THEN {"config"} ELSE {})
        /\ UNCHANGED <<task, rubric, handed>> /\ kind' = kind
        /\ desk' \in [Desks -> DeskRow] /\ DeskKnows'
    BY <1>2, OffDesk DEF Configure
  <2>3. /\ slips' \in SUBSET {"race", "config"}
        /\ "race" \notin slips' => "race" \notin slips /\ (kind = "assignment" => Editable)
        /\ "config" \notin slips' => "config" \notin slips /\ (kind = "exam" => Editable)
    BY <2>2 DEF TaskInv, TaskType, Configurable
  <2>4. item \in Sheets /\ DOMAIN item \subseteq Questions /\ item \in [DOMAIN item -> Sheet]
    BY SheetsAre DEF TaskInv, TaskType
  <2> DEFINE new == [item[q] EXCEPT !.rules = 1 - item[q].rules, !.mode = mode]
  <2>5. new \in Sheet /\ new.text = item[q].text
    <3>1. item[q] \in Sheet
      BY <1>2, <2>4 DEF Known
    <3>2. PICK r \in Sheet : r = item[q]
      BY <3>1
    <3>3. PICK k \in {0, 1} : k = 1 - r.rules
      <4>1. r.rules \in {0, 1}
        BY DEF Sheet
      <4>2. QED
        BY <4>1
    <3>4. [r EXCEPT !.rules = k, !.mode = mode] \in Sheet /\ [r EXCEPT !.rules = k, !.mode = mode].text = r.text
      BY DEF Sheet
    <3>5. QED
      BY <3>2, <3>3, <3>4
  <2>6. item' = [item EXCEPT ![q] = new]
    BY <1>2, <2>1 DEF Known
  <2> HIDE DEF new
  <2>7. /\ DOMAIN item' = DOMAIN item /\ item' \in [DOMAIN item -> Sheet]
        /\ \A p \in DOMAIN item : item'[p].text = item[p].text
    BY <1>2, <2>4, <2>5, <2>6 DEF Known
  <2>8. item' \in Sheets
    BY <2>4, <2>7, SheetsAre
  <2>9. TaskType' /\ Numbered'
    BY <2>2, <2>3, <2>8 DEF TaskInv, TaskType, Numbered, Rows
  <2>10. ASSUME "race" \notin slips' PROVE Untouched'
    <3>1. CASE Editable
      BY <2>2, <2>3, <2>10, <3>1, EditedInTime
    <3>2. CASE ~Editable
      <4>1. kind = "exam" /\ "config" \in slips' /\ Untouched
        BY <2>2, <2>3, <2>10, <3>2 DEF TaskInv, TaskType
      <4>2. Texts(item') = Texts(item)
        BY <2>7 DEF Texts
      <4>3. FrozenOnceHanded'
        BY <2>2, <4>1, <4>2 DEF Untouched, FrozenOnceHanded, Texts
      <4>4. OneInForce' /\ RubricsFit' /\ (Handed' => task'.status = "published")
        BY <2>2, <4>1 DEF Untouched, OneInForce, RubricsFit, Locked, Rows, Handed
      <4>5. QED
        BY <4>3, <4>4 DEF Untouched
    <3>3. QED
      BY <3>1, <3>2
  <2>11. QED
    BY <2>2, <2>9, <2>10 DEF TaskInv
<1>3. QED
  BY <1>1, <1>2

\* The rubrics that are left when those of out are superseded and those of in are locked.
Restamped(out, in) == (Superseded(out) \ in) \cup {[r EXCEPT !.status = "locked"] : r \in in}

LEMMA Restamp ==
  ASSUME TaskInv, NEW out \in SUBSET rubric, NEW in \in SUBSET rubric, out \cap in = {}
  PROVE  /\ Restamped(out, in) \in SUBSET RubricRow
         /\ \A t \in Restamped(out, in) : \E r \in rubric :
              /\ t.q = r.q /\ t.v = r.v
              /\ t.status = "locked" => r \in in \/ (r \notin out /\ t = r)
         /\ \A r \in rubric : \E t \in Restamped(out, in) :
              /\ t.q = r.q /\ t.v = r.v
              /\ r \in in => t.status = "locked"
              /\ r \notin in \cup out => t = r
         /\ \A t, u \in Restamped(out, in) : t.q = u.q /\ t.v = u.v => t = u
<1> DEFINE later == Restamped(out, in)
           Old(r) == [r EXCEPT !.status = "superseded"]
           Now(r) == [r EXCEPT !.status = "locked"]
<1>1. \A r \in rubric : /\ r \in RubricRow
                        /\ Old(r) \in RubricRow /\ Old(r).q = r.q /\ Old(r).v = r.v /\ Old(r).status = "superseded"
                        /\ Now(r) \in RubricRow /\ Now(r).q = r.q /\ Now(r).v = r.v /\ Now(r).status = "locked"
  <2>1. \A r \in rubric : r \in RubricRow
    BY DEF TaskInv, TaskType
  <2>2. QED
    BY <2>1 DEF RubricRow
<1>2. \A t : t \in later <=> \/ t \in rubric /\ t \notin out /\ t \notin in
                             \/ \E r \in out : t = Old(r) /\ t \notin in
                             \/ \E r \in in : t = Now(r)
  BY DEF Restamped, Superseded
<1>3. \A r \in out : Old(r) \notin in
  <2>1. SUFFICES ASSUME NEW r \in out, Old(r) \in in PROVE FALSE
    OBVIOUS
  <2>2. Old(r) = r
    <3>1. r \in rubric /\ Old(r) \in rubric
      BY <2>1
    <3>2. Old(r).q = r.q /\ Old(r).v = r.v
      BY <1>1, <3>1
    <3> HIDE DEF Old
    <3> QED BY <3>1, <3>2, OneRow
  <2>3. QED
    BY <2>1, <2>2
<1> HIDE DEF later, Old, Now
<1>4. later \in SUBSET RubricRow
  BY <1>1, <1>2
<1>5. \A t \in later : \E r \in rubric :
        /\ t.q = r.q /\ t.v = r.v /\ (t.status = "locked" => r \in in \/ (r \notin out /\ t = r))
  BY <1>1, <1>2
<1>6. \A r \in rubric : \E t \in later :
        /\ t.q = r.q /\ t.v = r.v /\ (r \in in => t.status = "locked") /\ (r \notin in \cup out => t = r)
  <2>1. SUFFICES ASSUME NEW r \in rubric
                 PROVE  \E t \in later : /\ t.q = r.q /\ t.v = r.v /\ (r \in in => t.status = "locked")
                                         /\ (r \notin in \cup out => t = r)
    OBVIOUS
  <2>2. CASE r \in in
    BY <1>1, <1>2, <2>2
  <2>3. CASE r \in out
    BY <1>1, <1>2, <1>3, <2>3
  <2>4. CASE r \notin in \cup out
    BY <1>2, <2>4
  <2>5. QED
    BY <2>2, <2>3, <2>4
<1>7. \A t, u \in later : t.q = u.q /\ t.v = u.v => t = u
  <2>1. SUFFICES ASSUME NEW t \in later, NEW u \in later, t.q = u.q, t.v = u.v PROVE t = u
    OBVIOUS
  <2>2. \A x \in later : \E r \in rubric :
          /\ x.q = r.q /\ x.v = r.v
          /\ x = (IF r \in in THEN Now(r) ELSE IF r \in out THEN Old(r) ELSE r)
    BY <1>1, <1>2
  <2>3. PICK r \in rubric : /\ t.q = r.q /\ t.v = r.v
                            /\ t = (IF r \in in THEN Now(r) ELSE IF r \in out THEN Old(r) ELSE r)
    BY <2>2
  <2>4. PICK s \in rubric : /\ u.q = s.q /\ u.v = s.v
                            /\ u = (IF s \in in THEN Now(s) ELSE IF s \in out THEN Old(s) ELSE s)
    BY <2>2
  <2>5. r = s
    BY <2>1, <2>3, <2>4, OneRow
  <2>6. QED
    BY <2>3, <2>4, <2>5
<1>8. QED
  BY <1>4, <1>5, <1>6, <1>7 DEF later

\* They are numbered as before.
LEMMA RestampedRows ==
  ASSUME TaskInv, NEW out \in SUBSET rubric, NEW in \in SUBSET rubric, out \cap in = {},
         NEW q \in Questions
  PROVE  /\ Numbers({t \in Restamped(out, in) : t.q = q})
         /\ Cardinality({t \in Restamped(out, in) : t.q = q}) = Cardinality(Rows(q))
<1> DEFINE later == {t \in Restamped(out, in) : t.q = q}
<1>1. Numbers(Rows(q))
  BY DEF TaskInv, Numbered
<1>2. \A t \in later : \E r \in Rows(q) : t.v = r.v
  BY Restamp DEF Rows
<1>3. \A r \in Rows(q) : \E t \in later : t.v = r.v
  BY Restamp DEF Rows
<1>4. \A t, u \in later : t.v = u.v => t = u
  BY Restamp
<1>5. QED
  BY <1>1, <1>2, <1>3, <1>4, NumbersKept

\* Steps that change rubrics only.
LEMMA RubricWritten ==
  ASSUME TaskInv, "race" \notin slips, UNCHANGED <<kind, task, item, handed>>, OneInForce', RubricsFit'
  PROVE  Untouched'
BY DEF TaskInv, Untouched, Handed, FrozenOnceHanded, Texts

LEMMA GenerateStep ==
  ASSUME TaskInv, NEW d \in Desks, Generate(d)
  PROVE  TaskInv'
<1> DEFINE q == desk[d].q
<1>1. CASE Fails(d)
  BY <1>1, FailsStep
<1>2. CASE ~Fails(d)
  <2> DEFINE new == Made(q, desk[d].item[q], "draft")
  <2>1. /\ rubric' = rubric \cup {new} /\ UNCHANGED <<task, item, handed, slips>> /\ kind' = kind
        /\ desk' \in [Desks -> DeskRow] /\ DeskKnows' /\ q \in Questions
        /\ q \in DOMAIN desk[d].item /\ desk[d].item \in Sheets
    BY <1>2, OffDesk DEF Generate, TaskInv, DeskKnows, DeskOK, TaskType, DeskRow
  <2>2. Cardinality(Rows(q)) \in Nat /\ \A p \in Questions : Numbers(Rows(p))
    BY <2>1, FS_CardinalityType DEF TaskInv, Numbered, Numbers
  <2>3. /\ new \in RubricRow /\ new.q = q /\ new.v = Cardinality(Rows(q)) + 1 /\ new.status = "draft"
    <3>1. desk[d].item[q] \in Sheet
      BY <2>1, SheetsAre
    <3>2. QED
      BY <2>1, <2>2, <3>1 DEF Made, NextVersion, Source, Sheet, RubricRow, SourceType
  <2> HIDE DEF new
  <2>4. TaskType'
    BY <2>1, <2>3 DEF TaskInv, TaskType
  <2>5. Numbered'
    <3>1. SUFFICES ASSUME NEW p \in Questions PROVE Numbers(Rows(p)')
      BY DEF Numbered, Numbers, Rows
    <3>2. Rows(p)' = IF p = q THEN Rows(p) \cup {new} ELSE Rows(p)
      BY <2>1, <2>3 DEF Rows
    <3>3. QED
      BY <2>2, <2>3, <3>2, NumbersNext
  <2>6. \A p : Locked(p)' = Locked(p)
    BY <2>1, <2>3 DEF Locked, Rows
  <2>7. ASSUME "race" \notin slips' PROVE Untouched'
    <3>1. Gate' <=> Gate
      <4>1. item' = item /\ kind' = kind
        BY <2>1
      <4>2. \A p, it : Fits(p, it)' <=> Fits(p, it)
        BY <2>6 DEF Fits, Latest, Source
      <4>3. QED
        BY <2>6, <4>1, <4>2 DEF Gate, Assisted
    <3>2. OneInForce' /\ RubricsFit'
      BY <2>1, <2>6, <2>7, <3>1 DEF TaskInv, Untouched, OneInForce, RubricsFit
    <3>3. QED
      BY <2>1, <2>7, <3>2, RubricWritten
  <2>8. QED
    BY <2>1, <2>4, <2>5, <2>7 DEF TaskInv
<1>3. QED
  BY <1>1, <1>2

LEMMA LockStep ==
  ASSUME TaskInv, NEW d \in Desks, Lock(d)
  PROVE  TaskInv'
<1> DEFINE q == desk[d].q
           chosen == {r \in Rows(q) : r.v = desk[d].v}
           seen == {r \in Rows(q) : r.v \in desk[d].todo}
<1>1. CASE chosen = {}
  BY <1>1, FailsStep DEF Lock
<1>2. CASE chosen # {}
  <2>1. /\ rubric' = Restamped(seen, chosen) /\ UNCHANGED <<task, item, handed>> /\ kind' = kind
        /\ Overtaken(Configurable /\ seen = Locked(q))
        /\ desk' \in [Desks -> DeskRow] /\ DeskKnows' /\ q \in Questions /\ desk[d].v \notin desk[d].todo
    BY <1>2, OffDesk DEF Lock, TaskInv, DeskKnows, DeskOK, Restamped
  <2>2. chosen \in SUBSET rubric /\ seen \in SUBSET rubric /\ seen \cap chosen = {}
        /\ \A r \in chosen \cup seen : r.q = q
    BY <2>1 DEF Rows
  <2>3. /\ slips' \in SUBSET {"race", "config"}
        /\ "race" \notin slips' => "race" \notin slips /\ Configurable /\ seen = Locked(q)
        /\ "config" \notin slips' => "config" \notin slips
    BY <2>1 DEF Overtaken, TaskInv, TaskType
  <2> HIDE DEF chosen, seen
  <2>4. TaskType'
    BY <2>1, <2>2, <2>3, Restamp DEF TaskInv, TaskType
  <2>5. Numbered'
    <3>1. SUFFICES ASSUME NEW p \in Questions PROVE Numbers(Rows(p)')
      BY DEF Numbered, Numbers, Rows
    <3>2. Rows(p)' = {t \in Restamped(seen, chosen) : t.q = p}
      BY <2>1 DEF Rows
    <3>3. QED
      BY <2>2, <3>2, RestampedRows
  <2>6. ASSUME "race" \notin slips' PROVE Untouched'
    <3>1. \A t \in rubric' : t.status = "locked" /\ t.q = q => \E r \in chosen : t.v = r.v
      <4>1. SUFFICES ASSUME NEW t \in rubric', t.status = "locked", t.q = q PROVE \E r \in chosen : t.v = r.v
        OBVIOUS
      <4>2. PICK r \in rubric : /\ t.q = r.q /\ t.v = r.v
                                /\ r \in chosen \/ (r \notin seen /\ t = r)
        BY <2>1, <2>2, <4>1, Restamp
      <4>3. CASE r \in chosen
        BY <4>2, <4>3
      <4>4. CASE r \notin seen /\ t = r
        BY <2>3, <2>6, <4>1, <4>4 DEF Locked, Rows
      <4>5. QED
        BY <4>2, <4>3, <4>4
    <3>2. \A t, u \in rubric' : t.q = u.q /\ t.v = u.v => t = u
      BY <2>1, <2>2, Restamp
    <3>3. \A r, s \in chosen : r.v = s.v
      BY DEF chosen
    <3>4. OneInForce'
      <4>1. SUFFICES ASSUME NEW p \in Questions, NEW t \in Locked(p)', NEW u \in Locked(p)' PROVE t = u
        BY DEF OneInForce
      <4>2. t \in rubric' /\ u \in rubric' /\ t.q = p /\ u.q = p /\ t.status = "locked" /\ u.status = "locked"
        BY DEF Locked, Rows
      <4>3. CASE p = q
        BY <3>1, <3>2, <3>3, <4>2, <4>3
      <4>4. CASE p # q
        <5>1. t \in rubric /\ u \in rubric
          BY <2>1, <2>2, <4>2, <4>4, Restamp
        <5>2. t \in Locked(p) /\ u \in Locked(p)
          BY <4>2, <5>1 DEF Locked, Rows
        <5>3. QED
          BY <2>3, <2>6, <5>2 DEF TaskInv, Untouched, OneInForce
      <4>5. QED
        BY <4>3, <4>4
    <3>5. RubricsFit'
      <4>1. SUFFICES ASSUME task'.status = "published", "config" \notin slips' PROVE Gate'
        BY DEF RubricsFit
      <4>2. kind = "exam" /\ Gate
        BY <2>1, <2>3, <2>6, <4>1 DEF Configurable, Editable, TaskInv, TaskType, Untouched, RubricsFit
      <4>3. SUFFICES ASSUME NEW p \in Assisted(item) PROVE Locked(p)' # {}
        BY <2>1, <4>2 DEF Gate, Assisted
      <4>4. PICK r \in rubric : r.q = p /\ r.status = "locked"
        BY <4>2 DEF Gate, Locked, Rows
      <4>5. CASE p = q
        <5>1. PICK s \in chosen : TRUE
          BY <1>2 DEF chosen
        <5>2. PICK t \in rubric' : t.q = s.q /\ t.status = "locked"
          BY <2>1, <2>2, <5>1, Restamp
        <5>3. s.q = q
          BY <2>2, <5>1
        <5>4. QED
          BY <4>5, <5>2, <5>3 DEF Locked, Rows
      <4>6. CASE p # q
        <5>1. r \notin chosen \cup seen
          BY <2>2, <4>4, <4>6
        <5>2. r \in rubric'
          BY <2>1, <2>2, <4>4, <5>1, Restamp
        <5>3. QED
          BY <4>4, <5>2 DEF Locked, Rows
      <4>7. QED
        BY <4>5, <4>6
    <3>6. QED
      BY <2>1, <2>3, <2>6, <3>4, <3>5, RubricWritten
  <2>7. QED
    BY <2>1, <2>4, <2>5, <2>6 DEF TaskInv
<1>3. QED
  BY <1>1, <1>2

-----------------------------------------------------------------------------
(* Publication.                                                            *)

LEMMA PublishRubricStep ==
  ASSUME TaskInv, NEW d \in Desks, NEW q \in Questions, PublishRubric(d, q)
  PROVE  TaskInv'
<1> DEFINE it == desk[d].item[q]
           mine == [desk[d] EXCEPT !.todo = @ \ {q}]
<1>1. /\ desk[d].op = "publish" /\ q \in desk[d].todo /\ UNCHANGED <<kind, task, item, handed>>
      /\ desk' = [desk EXCEPT ![d] = mine]
  BY DEF PublishRubric
<1>2. desk' \in [Desks -> DeskRow] /\ DeskKnows'
  <2>1. desk[d] \in DeskRow /\ DeskOK(desk[d])
    BY DEF TaskInv, TaskType, DeskKnows
  <2>2. mine \in DeskRow /\ DeskOK(mine)
    BY <1>1, <2>1 DEF DeskRow, DeskOK
  <2> HIDE DEF mine
  <2>3. QED
    BY <1>1, <2>2, OnDesk
<1> HIDE DEF mine
<1>3. CASE UNCHANGED <<rubric, slips>>
  BY <1>1, <1>2, <1>3, RowsKept
<1>4. CASE ~UNCHANGED <<rubric, slips>>
  <2> DEFINE new == Made(q, it, "locked")
             out == Locked(q)
  <2>1. /\ rubric' = Superseded(out) \cup {new} /\ Overtaken(item[q] = it)
        /\ q \in DOMAIN item
    BY <1>4 DEF PublishRubric, Known
  <2>2. /\ slips' \in SUBSET {"race", "config"}
        /\ "race" \notin slips' => "race" \notin slips /\ item[q] = it
        /\ "config" \notin slips' => "config" \notin slips
    BY <2>1 DEF Overtaken, TaskInv, TaskType
  <2>3. out \in SUBSET rubric /\ \A r \in out : r.q = q /\ r.status = "locked"
    BY DEF Locked, Rows
  <2>4. Superseded(out) = Restamped(out, {})
    BY DEF Restamped
  <2>5. Cardinality(Rows(q)) \in Nat
    BY FS_CardinalityType DEF TaskInv, Numbered, Numbers
  <2>6. new \in RubricRow /\ new.q = q /\ new.v = Cardinality(Rows(q)) + 1 /\ new.status = "locked"
        /\ new.of = Source(it)
    <3>1. it \in Sheet
      <4>1. desk[d].item \in Sheets /\ q \in DOMAIN desk[d].item
        BY <1>1 DEF TaskInv, TaskType, DeskRow, DeskKnows, DeskOK
      <4>2. QED
        BY <4>1, SheetsAre
    <3>2. QED
      BY <2>5, <3>1 DEF Made, NextVersion, Source, Sheet, RubricRow, SourceType
  <2> HIDE DEF new, out
  <2>7. /\ Restamped(out, {}) \in SUBSET RubricRow
        /\ \A t \in Restamped(out, {}) : \E r \in rubric :
              /\ t.q = r.q /\ t.v = r.v /\ (t.status = "locked" => r \notin out /\ t = r)
        /\ \A r \in rubric : r \notin out => r \in Restamped(out, {})
        /\ \A p \in Questions : /\ Numbers({t \in Restamped(out, {}) : t.q = p})
                                /\ Cardinality({t \in Restamped(out, {}) : t.q = p}) = Cardinality(Rows(p))
    <3>1. {} \in SUBSET rubric /\ out \cap {} = {}
      OBVIOUS
    <3>2. \A p \in Questions : /\ Numbers({t \in Restamped(out, {}) : t.q = p})
                               /\ Cardinality({t \in Restamped(out, {}) : t.q = p}) = Cardinality(Rows(p))
      BY <2>3, <3>1, RestampedRows
    <3>3. /\ Restamped(out, {}) \in SUBSET RubricRow
          /\ \A t \in Restamped(out, {}) : \E r \in rubric :
                /\ t.q = r.q /\ t.v = r.v
                /\ t.status = "locked" => r \in {} \/ (r \notin out /\ t = r)
          /\ \A r \in rubric : \E t \in Restamped(out, {}) :
                /\ t.q = r.q /\ t.v = r.v
                /\ r \in {} => t.status = "locked"
                /\ r \notin {} \cup out => t = r
      BY <2>3, <3>1, Restamp
    <3>4. QED
      BY <3>2, <3>3
  <2>8. TaskType'
    BY <1>1, <1>2, <2>1, <2>2, <2>4, <2>6, <2>7 DEF TaskInv, TaskType
  <2>9. Numbered'
    <3>1. SUFFICES ASSUME NEW p \in Questions PROVE Numbers(Rows(p)')
      BY DEF Numbered, Numbers, Rows
    <3>2. Rows(p)' = {t \in Restamped(out, {}) : t.q = p} \cup (IF p = q THEN {new} ELSE {})
      BY <2>1, <2>4, <2>6 DEF Rows
    <3>3. CASE p = q
      <4> DEFINE S == {t \in Restamped(out, {}) : t.q = q}
      <4>1. Numbers(S) /\ new.v = Cardinality(S) + 1
        BY <2>6, <2>7
      <4>2. Numbers(S \cup {new})
        BY <4>1, NumbersNext
      <4>3. QED
        BY <3>2, <3>3, <4>2
    <3>4. CASE p # q
      <4>1. Rows(p)' = {t \in Restamped(out, {}) : t.q = p}
        BY <3>2, <3>4
      <4>2. QED
        BY <2>7, <4>1
    <3>5. QED
      BY <3>3, <3>4
  <2>10. ASSUME "race" \notin slips' PROVE Untouched'
    <3>1. Locked(q)' = {new}
      <4>1. \A t \in Restamped(out, {}) : t.status = "locked" => t.q # q
        BY <2>7 DEF out, Locked, Rows
      <4>2. QED
        BY <2>1, <2>4, <2>6, <4>1 DEF Locked, Rows
    <3>2. \A p \in Questions : p # q => Locked(p)' = Locked(p)
      <4>1. SUFFICES ASSUME NEW p \in Questions, p # q PROVE Locked(p)' = Locked(p)
        OBVIOUS
      <4>2. Locked(p)' \subseteq Locked(p)
        BY <2>1, <2>4, <2>6, <2>7, <4>1 DEF Locked, Rows
      <4>3. Locked(p) \subseteq Locked(p)'
        BY <2>1, <2>3, <2>4, <2>7, <4>1 DEF Locked, Rows
      <4>4. QED
        BY <4>2, <4>3
    <3>3. OneInForce'
      BY <2>2, <2>10, <3>1, <3>2 DEF TaskInv, Untouched, OneInForce
    <3>4. RubricsFit'
      <4>1. SUFFICES ASSUME task'.status = "published", "config" \notin slips' PROVE Gate'
        BY DEF RubricsFit
      <4>2. Gate
        BY <1>1, <2>2, <2>10, <4>1 DEF TaskInv, Untouched, RubricsFit
      <4>3. Fits(q, item[q])'
        <5>1. Latest({new}) = new
          <6>1. \A r \in {new} : (\A l \in {new} : l.v <= r.v) <=> r = new
            BY <2>5, <2>6
          <6>2. QED
            BY <6>1 DEF Latest
        <5>2. new.of = Source(item[q])
          BY <2>2, <2>6, <2>10
        <5>3. item' = item
          BY <1>1
        <5>4. QED
          BY <3>1, <5>1, <5>2, <5>3 DEF Fits, Latest, Source
      <4>4. \A p \in Questions : p # q => (Fits(p, item[p])' <=> Fits(p, item[p]))
        BY <1>1, <3>2 DEF Fits, Latest, Source
      <4>5. Assisted(item) \subseteq Questions /\ item' = item /\ kind' = kind
        BY <1>1, SheetsAre DEF Assisted, TaskInv, TaskType
      <4>6. CASE kind = "exam"
        BY <3>1, <3>2, <4>2, <4>5, <4>6 DEF Gate, Assisted
      <4>7. CASE kind # "exam"
        BY <4>2, <4>3, <4>4, <4>5, <4>7 DEF Gate, Assisted
      <4>8. QED
        BY <4>6, <4>7
    <3>5. QED
      BY <1>1, <2>2, <2>10, <3>3, <3>4, RubricWritten
  <2>11. QED
    BY <1>2, <2>8, <2>9, <2>10 DEF TaskInv
<1>5. QED
  BY <1>3, <1>4

\* Publication, withdrawal and a student who begins.
LEMMA PublishStep ==
  ASSUME TaskInv, NEW d \in Desks, Publish(d) \/ Unpublish(d)
  PROVE  TaskInv'
<1>1. CASE Fails(d)
  BY <1>1, FailsStep
<1>2. CASE ~Fails(d)
  <2>1. PICK status \in {"published", "draft"} :
          /\ task' = [task EXCEPT !.status = status] /\ UNCHANGED <<item, rubric, handed>> /\ Ends(d)
          /\ status = "published" => Overtaken(Gate /\ desk[d].item = item)
          /\ status = "draft" => Overtaken(kind = "exam" => ~Handed)
    BY <1>2 DEF Publish, Unpublish
  <2>2. desk' \in [Desks -> DeskRow] /\ DeskKnows' /\ kind' = kind
    BY <2>1, OffDesk
  <2>3. /\ slips' \in SUBSET {"race", "config"} /\ ("race" \notin slips' => "race" \notin slips)
        /\ "race" \notin slips' /\ status = "published" => Gate
        /\ "race" \notin slips' /\ status = "draft" => (kind = "exam" => ~Handed)
    BY <2>1 DEF Overtaken, TaskInv, TaskType
  <2>4. /\ task' \in [status : {"none", "draft", "published"}, env : {0, 1}]
        /\ task'.status = status /\ task'.env = task.env
    BY <2>1 DEF TaskInv, TaskType
  <2>5. TaskType' /\ Numbered'
    BY <2>1, <2>2, <2>3, <2>4 DEF TaskInv, TaskType, Numbered, Rows
  <2>6. ASSUME "race" \notin slips' PROVE Untouched'
    <3>1. Untouched
      BY <2>3, <2>6 DEF TaskInv
    <3>2. FrozenOnceHanded' /\ OneInForce'
      BY <2>1, <2>2, <2>4, <3>1 DEF Untouched, FrozenOnceHanded, Texts, OneInForce, Locked, Rows
    <3>3. RubricsFit'
      BY <2>1, <2>2, <2>3, <2>4, <2>6 DEF RubricsFit, Gate, Assisted, Fits, Latest, Source, Locked, Rows
    <3>4. kind' = "exam" /\ Handed' => task'.status = "published"
      BY <2>1, <2>2, <2>3, <2>4, <2>6 DEF Handed
    <3>5. QED
      BY <3>2, <3>3, <3>4 DEF Untouched
  <2>7. QED
    BY <2>2, <2>5, <2>6 DEF TaskInv
<1>3. QED
  BY <1>1, <1>2

LEMMA TakeTaskStep ==
  ASSUME TaskInv, NEW d \in Desks, TakeTask(d)
  PROVE  TaskInv'
<1>1. CASE task.status = "none"
  BY <1>1, FailsStep DEF TakeTask
<1>2. CASE task.status # "none"
  <2> DEFINE s == desk[d].q
             copy == [item |-> desk[d].item, env |-> desk[d].env, made |-> TRUE]
  <2>1. /\ handed' = [handed EXCEPT ![s] = copy] /\ UNCHANGED <<task, item, rubric>> /\ kind' = kind
        /\ Overtaken(task.status = "published" /\ desk[d].item = item /\ desk[d].env = task.env)
        /\ desk' \in [Desks -> DeskRow] /\ DeskKnows' /\ s \in Takers
    BY <1>2, OffDesk DEF TakeTask, TaskInv, DeskKnows, DeskOK
  <2>2. /\ slips' \in SUBSET {"race", "config"} /\ ("config" \notin slips' => "config" \notin slips)
        /\ "race" \notin slips' => /\ "race" \notin slips /\ task.status = "published"
                                   /\ copy.item = item /\ copy.env = task.env
    BY <2>1 DEF Overtaken, TaskInv, TaskType
  <2>3. copy \in Copy /\ handed \in [Takers -> Copy]
    BY DEF TaskInv, TaskType, DeskRow, Copy
  <2> HIDE DEF copy
  <2>4. handed' \in [Takers -> Copy] /\ \A t \in Takers : handed'[t] = IF t = s THEN copy ELSE handed[t]
    BY <2>1, <2>3
  <2>5. TaskType' /\ Numbered'
    BY <2>1, <2>2, <2>4 DEF TaskInv, TaskType, Numbered, Rows
  <2>6. ASSUME "race" \notin slips' PROVE Untouched'
    <3>1. Untouched /\ task.status = "published"
      BY <2>2, <2>6 DEF TaskInv
    <3>2. FrozenOnceHanded'
      BY <2>1, <2>2, <2>4, <2>6, <3>1 DEF Untouched, FrozenOnceHanded, Texts
    <3>3. OneInForce' /\ RubricsFit'
      BY <2>1, <2>2, <3>1 DEF Untouched, OneInForce, RubricsFit, Gate, Assisted, Fits, Latest, Source,
                              Locked, Rows
    <3>4. QED
      BY <2>1, <3>1, <3>2, <3>3 DEF Untouched
  <2>7. QED
    BY <2>1, <2>5, <2>6 DEF TaskInv
<1>3. QED
  BY <1>1, <1>2

-----------------------------------------------------------------------------
\* The inductive invariant of the authoring: a question's rubrics are numbered without a
\* gap, a lock replaces other versions; and, unless a request was overtaken between its
\* check and its write, what was handed out stands, one rubric is in force and it fits.
THEOREM AuthoringInvariant == TaskSpec => []TaskInv
<1>1. TaskInit => TaskInv
  <2>1. SUFFICES ASSUME TaskInit PROVE TaskInv
    OBVIOUS
  <2>2. NotHanded \in Copy /\ NoItems \in Sheets /\ AtRest \in DeskRow /\ DeskOK(AtRest)
    BY NoneAsked DEF NotHanded, Copy
  <2>3. TaskType /\ DeskKnows
    BY <2>1, <2>2 DEF TaskInit, TaskType, DeskKnows
  <2>4. \A q : Rows(q) = {} /\ Locked(q) = {}
    BY <2>1 DEF TaskInit, Rows, Locked
  <2>5. Numbered
    <3>1. {r.v : r \in {}} = 1 .. 0
      OBVIOUS
    <3>2. Numbers({})
      BY <3>1, NumbersOf
    <3>3. QED
      BY <2>4, <3>2 DEF Numbered
  <2>6. Untouched
    <3>1. ~Handed /\ FrozenOnceHanded
      BY <2>1 DEF TaskInit, Handed, FrozenOnceHanded, NotHanded
    <3>2. OneInForce /\ RubricsFit
      BY <2>1, <2>4 DEF TaskInit, OneInForce, RubricsFit
    <3>3. QED
      BY <3>1, <3>2 DEF Untouched
  <2>7. QED
    BY <2>3, <2>5, <2>6 DEF TaskInv
<1>2. TaskInv /\ [TaskNext]_taskVars => TaskInv'
  <2>1. SUFFICES ASSUME TaskInv, [TaskNext]_taskVars PROVE TaskInv'
    OBVIOUS
  <2>2. CASE CreateAssignment \/ CreateExam
    BY <2>1, <2>2, CreatedStep DEF CreateAssignment, CreateExam
  <2>3. CASE UNCHANGED taskVars
    <3>1. UNCHANGED <<kind, task, item, rubric, handed, slips, desk>>
      BY <2>3 DEF taskVars
    <3>2. desk' \in [Desks -> DeskRow] /\ DeskKnows'
      BY <2>1, <3>1 DEF TaskInv, TaskType, DeskKnows
    <3>3. QED
      BY <2>1, <3>1, <3>2, RowsKept
  <2>4. ASSUME NEW d \in Desks,
               \/ \E op \in {"environment", "add", "change", "remove"}, q \in Questions : AskEdit(d, op, q)
               \/ \E q \in Questions : AskConfigure(d, q)
               \/ \E s \in Takers : CreateSubmission(d, s) \/ StartExam(d, s)
               \/ AskDelete(d) \/ AskPublishAssignment(d) \/ AskPublishExam(d) \/ AskUnpublish(d)
        PROVE  TaskInv'
    BY <2>1, <2>4, AskSteps
  <2>5. ASSUME NEW d \in Desks, NEW q \in Questions, AskGenerate(d, q) \/ PublishRubric(d, q)
        PROVE  TaskInv'
    BY <2>1, <2>5, AskGenerateStep, PublishRubricStep
  <2>6. ASSUME NEW d \in Desks, NEW r \in rubric, AskLock(d, r)
        PROVE  TaskInv'
    BY <2>1, <2>6, AskLockStep
  <2>7. ASSUME NEW d \in Desks, EditRefused(d) \/ PublishRefused(d)
        PROVE  TaskInv'
    BY <2>1, <2>7, FailsStep DEF EditRefused, PublishRefused
  <2>8. ASSUME NEW d \in Desks,
               UpdateAssignment(d) \/ CreateQuestion(d) \/ UpdateQuestion(d) \/ DeleteQuestion(d)
        PROVE  TaskInv'
    BY <2>1, <2>8, EditSteps
  <2>9. ASSUME NEW d \in Desks, Delete(d) \/ Configure(d) \/ Generate(d) \/ Lock(d)
        PROVE  TaskInv'
    BY <2>1, <2>9, DeleteStep, ConfigureStep, GenerateStep, LockStep
  <2>10. ASSUME NEW d \in Desks, Publish(d) \/ Unpublish(d) \/ TakeTask(d)
         PROVE  TaskInv'
    BY <2>1, <2>10, PublishStep, TakeTaskStep
  <2>11. QED
    BY <2>1, <2>2, <2>3, <2>4, <2>5, <2>6, <2>7, <2>8, <2>9, <2>10 DEF TaskNext
<1>3. QED
  BY <1>1, <1>2, PTL DEF TaskSpec

(* As long as no request writes what another has just made inadmissible,   *)
(* no order of edits, configurations, publications and withdrawals changes *)
(* what a student was given, and while a task is published the rubric in   *)
(* force was made from each question as it is (an exam's is only there,    *)
(* if its configuration was not changed after publication), for any        *)
(* number of questions, students and requests (api/assignments.py,         *)
(* api/exams.py, rubric_service.py).                                       *)
THEOREM StudentsGradedAsShown == TaskSpec => []GradedAsShown
<1>1. TaskInv => GradedAsShown
  <2>1. SUFFICES ASSUME TaskInv, "race" \notin slips PROVE FrozenOnceHanded /\ OneLocked /\ RubricsFit
    BY DEF GradedAsShown
  <2>2. Untouched
    BY <2>1 DEF TaskInv
  <2>3. ASSUME NEW q \in Questions PROVE Cardinality(Locked(q)) <= 1
    <3>1. CASE Locked(q) = {}
      BY <3>1, FS_EmptySet
    <3>2. CASE Locked(q) # {}
      <4>1. PICK r \in Locked(q) : TRUE
        BY <3>2
      <4>2. Locked(q) = {r}
        BY <2>2, <4>1 DEF Untouched, OneInForce
      <4>3. QED
        BY <4>2, FS_Singleton
    <3>3. QED
      BY <3>1, <3>2
  <2>4. QED
    BY <2>2, <2>3 DEF Untouched, OneLocked
<1>2. QED
  BY <1>1, AuthoringInvariant, PTL

-----------------------------------------------------------------------------
(* ConfigPanel                                                              *)

PanelSpec == PanelInit /\ [][PanelNext]_panelVars

Config == [of : SUBSET (Items \cup {NoItem}), n : Nat]
PanelRow == [q : Items \cup {NoItem}, cfg : Config, base : Config, seq : Nat, opened : Nat,
             loading : BOOLEAN, failed : BOOLEAN, saving : BOOLEAN, generating : BOOLEAN, wants : BOOLEAN]
Letter == [what : {"load", "save", "autosave", "groups", "rubric"}, q : Items, cfg : Config, seq : Nat,
           for : Items, n : Nat, tries : {0, 1}, done : BOOLEAN, ok : BOOLEAN]
PanelType ==
  /\ panel \in PanelRow /\ stored \in [Items -> Config] /\ posted \in SUBSET Letter /\ typed \in Nat
  /\ posted # {} => panel.q \in Items
  /\ hasty \in SUBSET {"select", "type"}

\* Configurations are numbered by the changes so far.
NumbersTyped ==
  /\ panel.cfg.n <= typed /\ \A q \in Items : stored[q].n <= typed
  /\ \A m \in posted : m.cfg.n <= typed

Stored(m) == m.what \in {"save", "autosave"}
Loads(m) == m.what = "load"

\* Of a teacher who waits before going to another question: one load is on its way, for the
\* question shown, and what is loaded, shown or to be stored belongs to its question.
OwnedLetter(m) == /\ Loads(m) => panel.loading /\ m.q = panel.q
                  /\ Loads(m) \/ Stored(m) => m.cfg.of = {m.q}
HeldOwn ==
  /\ \A m \in posted : OwnedLetter(m)
  /\ \A m, k \in posted : Loads(m) /\ Loads(k) => m = k
  /\ Open => panel.cfg.of = {panel.q}
  /\ \A q \in Items : stored[q].of = {q}

\* Of one who also types nothing meanwhile: what is being stored is what is shown, and a
\* rubric is asked for what is stored already.
FreshLetter(m) ==
  /\ Stored(m) => /\ m.cfg = panel.cfg /\ m.q = panel.q /\ m.for = panel.q /\ m.n = panel.cfg.n
                  /\ stored[m.q].n <= m.cfg.n /\ ~panel.loading
                  /\ m.done /\ m.ok => stored[m.q] = m.cfg
  /\ Loads(m) => (m.done /\ m.ok => m.cfg = stored[m.q])
  /\ m.what = "rubric" => m.q = m.for /\ m.n <= stored[m.q].n
Fresh == /\ \A m \in posted : FreshLetter(m)
         /\ Open => panel.base.n <= stored[panel.q].n /\ stored[panel.q].n <= panel.cfg.n
         /\ \A r \in sources : r.q = r.for /\ r.from >= r.shown

PInv == PanelType /\ NumbersTyped /\ ("select" \notin hasty => HeldOwn) /\ (hasty = {} => Fresh)


\* What a letter has to be, to be on its way.
Proper(k) == /\ k \in Letter /\ k.cfg.n <= typed
             /\ "select" \notin hasty => OwnedLetter(k)
             /\ hasty = {} => FreshLetter(k)

\* A step that shows no other question and stores nothing.
LEMMA PanelFrame ==
  ASSUME PInv, UNCHANGED <<stored, sources, typed, hasty>>, panel' \in PanelRow,
         panel'.q = panel.q, panel'.cfg = panel.cfg, panel'.loading = panel.loading,
         Open' => Open,
         hasty = {} /\ Open' => panel'.base.n <= stored[panel.q].n,
         NEW new, posted' \subseteq posted \cup new,
         new # {} => panel.q \in Items,
         \A k \in new : Proper(k),
         "select" \notin hasty => \A k \in new : Loads(k) => \A j \in posted' : Loads(j) => j = k
  PROVE  PInv'
<1>1. PanelType'
  BY DEF PInv, PanelType, Proper
<1>2. NumbersTyped'
  BY DEF PInv, NumbersTyped, Proper
<1>3. ASSUME "select" \notin hasty PROVE HeldOwn'
  BY <1>3 DEF PInv, HeldOwn, OwnedLetter, Proper, Open, Loads, Stored
<1>4. ASSUME hasty = {} PROVE Fresh'
  BY <1>4 DEF PInv, Fresh, FreshLetter, Proper, Open, Loads, Stored
<1>5. QED
  BY <1>1, <1>2, <1>3, <1>4 DEF PInv

\* A letter that is answered, or asked again.
LEMMA Swapped ==
  ASSUME PInv, NEW m \in posted, UNCHANGED <<panel, stored, sources, typed, hasty>>,
         NEW k, Proper(k), k.what = m.what, posted' = (posted \ {m}) \cup {k}
  PROVE  PInv'
<1>1. "select" \notin hasty => \A j \in posted' : Loads(k) /\ Loads(j) => j = k
  BY DEF PInv, HeldOwn, Loads
<1>2. panel \in PanelRow /\ panel.q \in Items
  BY DEF PInv, PanelType
<1>3. hasty = {} /\ Open => panel.base.n <= stored[panel.q].n
  BY DEF PInv, Fresh
<1>4. Open' <=> Open
  BY DEF Open
<1>5. posted' \subseteq posted \cup {k} /\ \A j \in {k} : Proper(j)
  OBVIOUS
<1>6. "select" \notin hasty => \A i \in {k} : Loads(i) => \A j \in posted' : Loads(j) => j = i
  BY <1>1
<1>7. /\ panel' \in PanelRow /\ panel'.q = panel.q /\ panel'.cfg = panel.cfg
      /\ panel'.loading = panel.loading /\ (Open' => Open)
      /\ (hasty = {} /\ Open' => panel'.base.n <= stored[panel.q].n)
      /\ ({k} # {} => panel.q \in Items)
  BY <1>2, <1>3, <1>4
<1> DEFINE new == {k}
<1>8. /\ posted' \subseteq posted \cup new /\ (new # {} => panel.q \in Items)
      /\ \A j \in new : Proper(j)
      /\ "select" \notin hasty => \A i \in new : Loads(i) => \A j \in posted' : Loads(j) => j = i
  BY <1>5, <1>6, <1>7
<1> HIDE DEF new
<1>9. QED
  BY <1>7, <1>8, PanelFrame

LEMMA LettersAre ==
  ASSUME PInv, NEW m \in posted
  PROVE  /\ m \in Letter /\ m.cfg \in Config /\ m.cfg.n <= typed /\ Proper(m)
         /\ m.q \in Items /\ m.n \in Nat /\ panel.q \in Items /\ panel \in PanelRow
BY DEF PInv, PanelType, Letter, NumbersTyped, HeldOwn, Fresh, Proper

LEMMA ReadsStep ==
  ASSUME PInv, NEW m \in posted, Reads(m)
  PROVE  PInv'
<1> DEFINE k == [m EXCEPT !.done = TRUE, !.ok = TRUE, !.cfg = stored[m.q]]
<1>1. m.what = "load" /\ posted' = (posted \ {m}) \cup {k} /\ UNCHANGED <<panel, stored, sources, typed, hasty>>
  BY DEF Reads
<1>2. m \in Letter /\ m.q \in Items /\ Proper(m) /\ stored[m.q] \in Config /\ stored[m.q].n <= typed
  BY LettersAre DEF PInv, PanelType, NumbersTyped
<1>3. /\ k \in Letter /\ k.what = m.what /\ k.q = m.q /\ k.for = m.for /\ k.n = m.n
      /\ k.cfg = stored[m.q]
  BY <1>2 DEF Letter
<1> HIDE DEF k
<1>4. "select" \notin hasty => OwnedLetter(k)
  BY <1>1, <1>2, <1>3 DEF PInv, HeldOwn, OwnedLetter, Loads, Stored, Proper
<1>5. hasty = {} => FreshLetter(k)
  BY <1>1, <1>3 DEF FreshLetter, Loads, Stored
<1>6. Proper(k)
  BY <1>2, <1>3, <1>4, <1>5 DEF Proper
<1>7. QED
  BY <1>1, <1>3, <1>6, Swapped

\* A letter about which nothing is known anew.
LEMMA SameLetter ==
  ASSUME PInv, NEW m \in posted, NEW k \in Letter,
         k.what = m.what, k.q = m.q, k.cfg = m.cfg, k.for = m.for, k.n = m.n,
         k.done /\ k.ok => ~Loads(k) /\ ~Stored(k)
  PROVE  Proper(k)
<1>1. Proper(m)
  BY LettersAre
<1>2. hasty = {} => FreshLetter(k)
  BY <1>1 DEF Proper, FreshLetter, Loads, Stored
<1>3. QED
  BY <1>1, <1>2 DEF Proper, OwnedLetter, Loads, Stored

LEMMA GroupsStep ==
  ASSUME PInv, NEW m \in posted, Groups(m) \/ Refuse(m)
  PROVE  PInv'
<1> DEFINE a == [m EXCEPT !.done = TRUE, !.ok = TRUE]
           b == [m EXCEPT !.done = TRUE, !.ok = FALSE]
           c == [m EXCEPT !.tries = 1]
<1>1. UNCHANGED <<panel, stored, sources, typed, hasty>>
  BY DEF Groups, Refuse
<1>2. /\ \/ m.what = "groups" /\ posted' = (posted \ {m}) \cup {a}
         \/ posted' = (posted \ {m}) \cup {b}
         \/ m.what = "groups" /\ posted' = (posted \ {m}) \cup {c}
  BY DEF Groups, Refuse, Replied
<1>3. m \in Letter
  BY LettersAre
<1>4. /\ a \in Letter /\ a.what = m.what /\ a.q = m.q /\ a.cfg = m.cfg /\ a.for = m.for /\ a.n = m.n
      /\ b \in Letter /\ b.what = m.what /\ b.q = m.q /\ b.cfg = m.cfg /\ b.for = m.for /\ b.n = m.n /\ b.ok = FALSE
      /\ c \in Letter /\ c.what = m.what /\ c.q = m.q /\ c.cfg = m.cfg /\ c.for = m.for /\ c.n = m.n
  BY <1>3 DEF Letter
<1> HIDE DEF a, b, c
<1>5. CASE m.what = "groups" /\ posted' = (posted \ {m}) \cup {a}
  <2>1. Proper(a)
    BY <1>4, <1>5, SameLetter DEF Loads, Stored
  <2>2. QED
    BY <1>1, <1>4, <1>5, <2>1, Swapped
<1>6. CASE posted' = (posted \ {m}) \cup {b}
  <2>1. Proper(b)
    BY <1>4, SameLetter
  <2>2. QED
    BY <1>1, <1>4, <1>6, <2>1, Swapped
<1>7. CASE m.what = "groups" /\ posted' = (posted \ {m}) \cup {c}
  <2>1. Proper(c)
    BY <1>4, <1>7, SameLetter DEF Loads, Stored
  <2>2. QED
    BY <1>1, <1>4, <1>7, <2>1, Swapped
<1>8. QED
  BY <1>2, <1>5, <1>6, <1>7


LEMMA StoresStep ==
  ASSUME PInv, NEW m \in posted, Stores(m)
  PROVE  PInv'
<1> DEFINE k == [m EXCEPT !.done = TRUE, !.ok = TRUE]
<1>1. /\ Stored(m) /\ posted' = (posted \ {m}) \cup {k} /\ stored' = [stored EXCEPT ![m.q] = m.cfg]
      /\ UNCHANGED <<panel, sources, typed, hasty>>
  BY DEF Stores, Replied, Stored
<1>2. m \in Letter /\ m.cfg \in Config /\ m.q \in Items /\ m.cfg.n <= typed /\ Proper(m) /\ panel.q \in Items
  BY LettersAre
<1>3. k \in Letter /\ k.what = m.what /\ k.q = m.q /\ k.cfg = m.cfg /\ k.for = m.for /\ k.n = m.n
  BY <1>2 DEF Letter
<1> HIDE DEF k
<1>4. /\ stored' \in [Items -> Config] /\ stored'[m.q] = m.cfg
      /\ \A q \in Items : q # m.q => stored'[q] = stored[q]
  BY <1>1, <1>2 DEF PInv, PanelType
<1>5. PanelType'
  BY <1>1, <1>2, <1>3, <1>4 DEF PInv, PanelType
<1>6. NumbersTyped'
  BY <1>1, <1>2, <1>3, <1>4 DEF PInv, NumbersTyped
<1>7. Open' <=> Open
  BY <1>1 DEF Open
<1>8. ASSUME "select" \notin hasty PROVE HeldOwn'
  <2>1. m.cfg.of = {m.q}
    BY <1>1, <1>2, <1>8 DEF Proper, OwnedLetter
  <2>2. \A q \in Items : stored'[q].of = {q}
    BY <1>4, <1>8, <2>1 DEF PInv, HeldOwn
  <2>3. \A j \in posted' : OwnedLetter(j)'
    BY <1>1, <1>3, <1>8, <2>1 DEF PInv, HeldOwn, OwnedLetter, Loads, Stored
  <2>4. \A i, j \in posted' : Loads(i) /\ Loads(j) => i = j
    BY <1>1, <1>3, <1>8 DEF PInv, HeldOwn, Loads, Stored
  <2>5. QED
    BY <1>1, <1>7, <1>8, <2>2, <2>3, <2>4 DEF PInv, HeldOwn, Loads
<1>9. ASSUME hasty = {} PROVE Fresh'
  <2>1. /\ m.cfg = panel.cfg /\ m.q = panel.q /\ m.for = panel.q /\ m.n = panel.cfg.n
        /\ stored[m.q].n <= m.cfg.n /\ ~panel.loading
    BY <1>1, <1>2, <1>9 DEF Proper, FreshLetter
  <2>2. \A j \in posted : ~Loads(j)
    BY <1>9, <2>1 DEF PInv, HeldOwn, OwnedLetter
  <2>3. stored[panel.q].n \in Nat /\ panel.cfg.n \in Nat /\ panel.base.n \in Nat
    BY <1>2 DEF PInv, PanelType, PanelRow, Config
  <2>4. ASSUME NEW j \in posted, FreshLetter(j), j \in Letter PROVE FreshLetter(j)'
    <3>1. Stored(j) => FreshLetter(j)'
      BY <1>1, <1>2, <1>4, <2>1, <2>3, <2>4 DEF FreshLetter, Loads, Stored
    <3>2. ASSUME j.what = "rubric" PROVE j.n <= stored'[j.q].n
      <4>1. j.n \in Nat /\ j.q \in Items /\ stored[j.q].n \in Nat
        BY <2>4 DEF Letter, PInv, PanelType, Config
      <4>2. QED
        BY <1>4, <2>1, <2>3, <2>4, <3>2, <4>1 DEF FreshLetter
    <3>3. QED
      BY <1>1, <2>2, <2>4, <3>1, <3>2 DEF FreshLetter, Loads, Stored
  <2>5. FreshLetter(k)'
    BY <1>1, <1>3, <1>4, <2>1, <2>3 DEF FreshLetter, Loads, Stored
  <2>6. \A j \in posted' : FreshLetter(j)'
    BY <1>1, <1>9, <2>4, <2>5 DEF PInv, Fresh, PanelType
  <2>7. Open' => panel'.base.n <= stored'[panel'.q].n /\ stored'[panel'.q].n <= panel'.cfg.n
    BY <1>1, <1>4, <1>7, <1>9, <2>1, <2>3 DEF PInv, Fresh
  <2>8. QED
    BY <1>1, <1>9, <2>6, <2>7 DEF PInv, Fresh
<1>10. QED
  BY <1>1, <1>5, <1>6, <1>8, <1>9 DEF PInv

\* A rubric is made from the row as it is then.
LEMMA DraftsStep ==
  ASSUME PInv, NEW m \in posted, Drafts(m)
  PROVE  PInv'
<1> DEFINE k == [m EXCEPT !.done = TRUE, !.ok = TRUE]
           made == [q |-> m.q, from |-> stored[m.q].n, for |-> m.for, shown |-> m.n]
<1>1. /\ m.what = "rubric" /\ posted' = (posted \ {m}) \cup {k} /\ sources' = sources \cup {made}
      /\ UNCHANGED <<panel, stored, typed, hasty>>
  BY DEF Drafts, Replied
<1>2. m \in Letter /\ Proper(m) /\ panel.q \in Items /\ m.n \in Nat /\ stored[m.q].n \in Nat
  BY LettersAre DEF PInv, PanelType, Config
<1>3. k \in Letter /\ k.what = m.what /\ k.q = m.q /\ k.cfg = m.cfg /\ k.for = m.for /\ k.n = m.n
  BY <1>2 DEF Letter
<1>4. made.q = m.q /\ made.from = stored[m.q].n /\ made.for = m.for /\ made.shown = m.n
  OBVIOUS
<1> HIDE DEF k, made
<1>5. Proper(k)
  BY <1>1, <1>3, SameLetter DEF Loads, Stored
<1>6. PanelType' /\ NumbersTyped'
  BY <1>1, <1>2, <1>3, <1>5 DEF PInv, PanelType, NumbersTyped, Proper
<1>7. ("select" \notin hasty => HeldOwn)'
  BY <1>1, <1>3, <1>5 DEF PInv, HeldOwn, OwnedLetter, Open, Loads, Stored, Proper
<1>8. ASSUME hasty = {} PROVE Fresh'
  <2>1. made.q = made.for /\ made.from >= made.shown
    BY <1>1, <1>2, <1>4, <1>8 DEF Proper, FreshLetter
  <2>2. QED
    BY <1>1, <1>5, <1>8, <2>1 DEF PInv, Fresh, FreshLetter, Open, Proper, Stored, Loads
<1>9. QED
  BY <1>1, <1>6, <1>7, <1>8 DEF PInv


LEMMA PanelFields ==
  ASSUME PInv
  PROVE  /\ panel \in PanelRow /\ panel.cfg \in Config /\ panel.base \in Config
         /\ panel.cfg.n \in Nat /\ panel.base.n \in Nat /\ panel.cfg.n <= typed /\ typed \in Nat
         /\ panel.seq \in Nat /\ panel.opened \in Nat
         /\ panel.q \in Items => stored[panel.q] \in Config /\ stored[panel.q].n \in Nat
                                 /\ stored[panel.q].n <= typed
         /\ Open => panel.q \in Items
BY DEF PInv, PanelType, PanelRow, Config, NumbersTyped, Open

\* A request other than a load, as the panel is shown.
LEMMA Written ==
  ASSUME PInv, Open, NEW what \in {"save", "groups", "autosave", "rubric"},
         what = "rubric" => ~Dirty
  PROVE  /\ Proper(Message(what, panel.cfg)) /\ Message(what, panel.cfg).what = what
         /\ Message(what, panel.cfg) \in Letter
<1> DEFINE k == Message(what, panel.cfg)
<1>1. /\ k.what = what /\ k.q = panel.q /\ k.cfg = panel.cfg /\ k.for = panel.q /\ k.n = panel.cfg.n
      /\ k.done = FALSE /\ k.ok = FALSE /\ k.seq = panel.seq /\ k.tries = 0
  BY DEF Message
<1>2. k \in Letter
  BY PanelFields DEF Message, Letter
<1> HIDE DEF k
<1>3. "select" \notin hasty => OwnedLetter(k)
  BY <1>1, PanelFields DEF PInv, HeldOwn, OwnedLetter, Loads, Stored
<1>4. ASSUME hasty = {} PROVE FreshLetter(k)
  <2>1. stored[panel.q].n <= panel.cfg.n /\ panel.base.n <= stored[panel.q].n
    BY <1>4 DEF PInv, Fresh
  <2>2. Stored(k) => FreshLetter(k)
    BY <1>1, <2>1 DEF FreshLetter, Stored, Loads, Open
  <2>3. what = "rubric" => k.n <= stored[k.q].n
    BY <1>1, <2>1 DEF Dirty
  <2>4. QED
    BY <1>1, <2>2, <2>3 DEF FreshLetter, Stored, Loads
<1>5. Proper(k)
  BY <1>1, <1>2, <1>3, <1>4, PanelFields DEF Proper
<1>6. QED
  BY <1>1, <1>2, <1>5 DEF k

LEMMA SaveStep ==
  ASSUME PInv, Save
  PROVE  PInv'
<1> DEFINE new == {Message("save", panel.cfg)}
<1>1. /\ Open /\ panel' = [panel EXCEPT !.saving = TRUE] /\ posted' = posted \cup new
      /\ UNCHANGED <<stored, sources, typed, hasty>>
  BY DEF Save, Post
<1>2. \A k \in new : Proper(k) /\ ~Loads(k)
  BY <1>1, Written DEF Loads
<1> HIDE DEF new
<1>3. /\ panel' \in PanelRow /\ panel'.q = panel.q /\ panel'.cfg = panel.cfg /\ panel'.base = panel.base
      /\ panel'.loading = panel.loading /\ panel'.failed = panel.failed
  BY <1>1, PanelFields DEF PanelRow
<1>4. /\ (Open' => Open) /\ panel.q \in Items
      /\ (hasty = {} /\ Open' => panel'.base.n <= stored[panel.q].n)
  BY <1>1, <1>3, PanelFields DEF Open, PInv, Fresh
<1>5. QED
  BY <1>1, <1>2, <1>3, <1>4, PanelFrame

LEMMA GenerateGroupsStep ==
  ASSUME PInv, GenerateGroups
  PROVE  PInv'
<1> DEFINE k == Message("groups", panel.cfg)
           j == [k EXCEPT !.seq = panel.seq + 1]
           new == {j}
<1>1. /\ Open /\ panel' = [panel EXCEPT !.generating = TRUE, !.seq = @ + 1] /\ posted' = posted \cup new
      /\ UNCHANGED <<stored, sources, typed, hasty>>
  BY DEF GenerateGroups, Post
<1>2. Proper(k) /\ k.what = "groups" /\ k \in Letter
  BY <1>1, Written
<1>3. j \in Letter /\ j.what = "groups" /\ j.cfg = k.cfg
  BY <1>2, PanelFields DEF Letter
<1> HIDE DEF k, j
<1>4. Proper(j) /\ ~Loads(j)
  BY <1>2, <1>3 DEF Proper, OwnedLetter, FreshLetter, Loads, Stored
<1>5. \A i \in new : Proper(i) /\ ~Loads(i)
  BY <1>4
<1> HIDE DEF new
<1>6. /\ panel' \in PanelRow /\ panel'.q = panel.q /\ panel'.cfg = panel.cfg /\ panel'.base = panel.base
      /\ panel'.loading = panel.loading /\ panel'.failed = panel.failed
  <2>1. PICK s \in Nat : s = panel.seq + 1
    BY PanelFields
  <2>2. panel' = [panel EXCEPT !.generating = TRUE, !.seq = s]
    BY <1>1, <2>1
  <2>3. QED
    BY <2>2, PanelFields DEF PanelRow
<1>7. /\ (Open' => Open) /\ panel.q \in Items
      /\ (hasty = {} /\ Open' => panel'.base.n <= stored[panel.q].n)
  BY <1>1, <1>6, PanelFields DEF Open, PInv, Fresh
<1>8. QED
  BY <1>1, <1>5, <1>6, <1>7, PanelFrame

LEMMA MakeRubricStep ==
  ASSUME PInv, MakeRubric
  PROVE  PInv'
<1> DEFINE what == IF Dirty THEN "autosave" ELSE "rubric"
           new == {Message(what, panel.cfg)}
<1>1. /\ Open /\ panel' = [panel EXCEPT !.wants = TRUE, !.saving = @ \/ Dirty, !.failed = FALSE]
      /\ posted' = posted \cup new /\ UNCHANGED <<stored, sources, typed, hasty>>
  BY DEF MakeRubric, Post
<1>2. what \in {"save", "groups", "autosave", "rubric"} /\ (what = "rubric" => ~Dirty) /\ what # "load"
  OBVIOUS
<1> HIDE DEF what
<1>3. \A k \in new : Proper(k) /\ ~Loads(k)
  BY <1>1, <1>2, Written DEF Loads
<1> HIDE DEF new
<1>4. panel' \in PanelRow
  BY <1>1, PanelFields DEF PanelRow, Dirty
<1>5. /\ panel'.q = panel.q /\ panel'.cfg = panel.cfg /\ panel'.base = panel.base
      /\ panel'.loading = panel.loading /\ panel'.failed = FALSE
  BY <1>1, PanelFields DEF PanelRow
<1>6. /\ (Open' => Open) /\ panel.q \in Items
      /\ (hasty = {} /\ Open' => panel'.base.n <= stored[panel.q].n)
  BY <1>1, <1>5, PanelFields DEF Open, PInv, Fresh
<1>7. QED
  BY <1>1, <1>3, <1>4, <1>5, <1>6, PanelFrame

\* What is answered: what is shown stays, and is taken for what is stored only when it is.
LEMMA AnsweredStep ==
  ASSUME PInv, NEW m \in posted, Confirmed(m) \/ Drafted(m)
  PROVE  PInv'
<1>1. /\ posted' = posted \ {m} /\ UNCHANGED <<stored, sources, typed, hasty>>
      /\ \/ m.what = "save" /\ m.done /\ panel' = [panel EXCEPT !.saving = FALSE, !.base = IF m.ok THEN panel.cfg ELSE @]
         \/ panel' = [panel EXCEPT !.wants = FALSE, !.failed = @ \/ ~m.ok]
  BY DEF Confirmed, Drafted, Heard
<1>2. m \in Letter /\ Proper(m) /\ panel.q \in Items
  BY LettersAre
<1>3. panel' \in PanelRow
  <2>1. m.ok \in BOOLEAN
    BY <1>2 DEF Letter
  <2>2. QED
    BY <1>1, <2>1, PanelFields DEF PanelRow
<1>4. /\ panel'.q = panel.q /\ panel'.cfg = panel.cfg /\ panel'.loading = panel.loading
      /\ panel'.failed = FALSE => panel.failed = FALSE
      /\ \/ panel'.base = panel.base
         \/ m.what = "save" /\ m.done /\ m.ok /\ panel'.base = panel.cfg
  BY <1>1, PanelFields DEF PanelRow
<1>5. Open' => Open
  BY <1>3, <1>4, PanelFields DEF Open, PanelRow
<1>6. hasty = {} /\ Open' => panel'.base.n <= stored[panel.q].n
  BY <1>2, <1>4, <1>5, PanelFields DEF PInv, Fresh, Proper, FreshLetter, Stored
<1> DEFINE new == {}
<1>7. /\ posted' \subseteq posted \cup new /\ (new # {} => panel.q \in Items) /\ \A k \in new : Proper(k)
      /\ "select" \notin hasty => \A k \in new : Loads(k) => \A j \in posted' : Loads(j) => j = k
  BY <1>1
<1> HIDE DEF new
<1>8. QED
  BY <1>1, <1>3, <1>4, <1>5, <1>6, <1>7, PanelFrame


LEMMA AutoSavedStep ==
  ASSUME PInv, NEW m \in posted, AutoSaved(m)
  PROVE  PInv'
<1> DEFINE r == Message("rubric", panel.cfg)
           k == [r EXCEPT !.for = m.for, !.n = m.n]
           new == IF m.ok THEN {k} ELSE {}
<1>1. /\ m.what = "autosave" /\ m.done /\ UNCHANGED <<stored, sources, typed, hasty>>
      /\ posted' = (posted \ {m}) \cup new
      /\ panel' = [panel EXCEPT !.saving = FALSE, !.base = IF m.ok THEN panel.cfg ELSE @,
                                !.wants = m.ok, !.failed = @ \/ ~m.ok]
  BY DEF AutoSaved
<1>2. m \in Letter /\ Proper(m) /\ panel.q \in Items /\ m.n \in Nat /\ m.for \in Items /\ m.ok \in BOOLEAN
  BY LettersAre DEF Letter
<1>3. /\ r \in Letter /\ r.what = "rubric" /\ r.q = panel.q /\ r.cfg = panel.cfg
  BY <1>2, PanelFields DEF Message, Letter
<1> HIDE DEF r
<1>4. /\ k \in Letter /\ k.what = "rubric" /\ k.q = panel.q /\ k.cfg = panel.cfg /\ k.for = m.for /\ k.n = m.n
  BY <1>2, <1>3 DEF Letter
<1> HIDE DEF k
<1>5. ASSUME m.ok PROVE Proper(k)
  <2>1. ASSUME hasty = {} PROVE k.q = k.for /\ k.n <= stored[k.q].n
    <3>1. /\ m.cfg = panel.cfg /\ m.q = panel.q /\ m.for = panel.q /\ m.n = panel.cfg.n
          /\ stored[m.q] = m.cfg
      BY <1>1, <1>2, <1>5, <2>1 DEF Proper, FreshLetter, Stored
    <3>2. QED
      BY <1>4, <3>1, PanelFields
  <2>2. QED
    BY <1>4, <2>1, PanelFields DEF Proper, OwnedLetter, FreshLetter, Stored, Loads
<1>6. \A i \in new : Proper(i) /\ ~Loads(i)
  BY <1>4, <1>5 DEF Loads
<1> HIDE DEF new
<1>7. panel' \in PanelRow
  BY <1>1, <1>2, PanelFields DEF PanelRow
<1>8. /\ panel'.q = panel.q /\ panel'.cfg = panel.cfg /\ panel'.loading = panel.loading
      /\ panel'.failed = FALSE => panel.failed = FALSE
      /\ \/ panel'.base = panel.base
         \/ m.ok /\ panel'.base = panel.cfg
  BY <1>1, PanelFields DEF PanelRow
<1>9. Open' => Open
  BY <1>7, <1>8, PanelFields DEF Open, PanelRow
<1>10. hasty = {} /\ Open' => panel'.base.n <= stored[panel.q].n
  BY <1>1, <1>2, <1>8, <1>9, PanelFields DEF PInv, Fresh, Proper, FreshLetter, Stored
<1>11. /\ posted' \subseteq posted \cup new
       /\ "select" \notin hasty => \A i \in new : Loads(i) => \A j \in posted' : Loads(j) => j = i
  BY <1>1, <1>6
<1>12. QED
  BY <1>1, <1>2, <1>6, <1>7, <1>8, <1>9, <1>10, <1>11, PanelFrame

LEMMA ConfigLoadedStep ==
  ASSUME PInv, NEW m \in posted, ConfigLoaded(m)
  PROVE  PInv'
<1>1. /\ Loads(m) /\ m.done /\ posted' = posted \ {m} /\ UNCHANGED <<stored, sources, typed, hasty>>
  BY DEF ConfigLoaded, Heard, Loads
<1>2. m \in Letter /\ Proper(m) /\ panel.q \in Items /\ m.q \in Items /\ m.cfg \in Config
      /\ m.cfg.n <= typed /\ m.cfg.n \in Nat
  BY LettersAre DEF Config
<1>3. CASE ~m.ok
  <2>1. panel' = [panel EXCEPT !.loading = FALSE, !.failed = TRUE]
    BY <1>3 DEF ConfigLoaded
  <2>2. /\ panel' \in PanelRow /\ panel'.q = panel.q /\ panel'.cfg = panel.cfg
        /\ panel'.failed = TRUE /\ panel'.loading = FALSE
    BY <2>1, PanelFields DEF PanelRow
  <2>3. ~Open'
    BY <2>2 DEF Open
  <2>4. PanelType' /\ NumbersTyped'
    BY <1>1, <1>2, <2>2 DEF PInv, PanelType, NumbersTyped
  <2>5. ASSUME "select" \notin hasty PROVE HeldOwn'
    <3>1. \A j \in posted' : ~Loads(j)
      BY <1>1, <2>5 DEF PInv, HeldOwn
    <3>2. QED
      BY <1>1, <2>3, <2>5, <3>1 DEF PInv, HeldOwn, OwnedLetter, Loads, Stored
  <2>6. ASSUME hasty = {} PROVE Fresh'
    <3>1. \A j \in posted : ~Stored(j)
      BY <1>1, <1>2, <2>6 DEF PInv, Fresh, FreshLetter, Proper, OwnedLetter
    <3>2. QED
      BY <1>1, <2>3, <2>6, <3>1 DEF PInv, Fresh, FreshLetter, Loads, Stored
  <2>7. QED
    BY <1>1, <2>4, <2>5, <2>6 DEF PInv
<1>4. CASE m.ok
  <2>1. panel' = [panel EXCEPT !.loading = FALSE, !.cfg = m.cfg, !.base = m.cfg]
    BY <1>4 DEF ConfigLoaded
  <2>2. /\ panel' \in PanelRow /\ panel'.q = panel.q /\ panel'.cfg = m.cfg /\ panel'.base = m.cfg
        /\ panel'.loading = FALSE
    BY <1>2, <2>1, PanelFields DEF PanelRow
  <2>3. PanelType' /\ NumbersTyped'
    BY <1>1, <1>2, <2>2 DEF PInv, PanelType, NumbersTyped
  <2>4. ASSUME "select" \notin hasty PROVE HeldOwn'
    <3>1. \A j \in posted' : ~Loads(j)
      BY <1>1, <2>4 DEF PInv, HeldOwn
    <3>2. m.q = panel.q /\ m.cfg.of = {panel.q}
      BY <1>1, <1>2, <2>4 DEF Proper, OwnedLetter
    <3>3. QED
      BY <1>1, <2>2, <2>4, <3>1, <3>2 DEF PInv, HeldOwn, OwnedLetter, Loads, Stored
  <2>5. ASSUME hasty = {} PROVE Fresh'
    <3>1. \A j \in posted : ~Stored(j)
      BY <1>1, <1>2, <2>5 DEF PInv, Fresh, FreshLetter, Proper, OwnedLetter
    <3>2. m.q = panel.q /\ m.cfg = stored[panel.q]
      BY <1>1, <1>2, <1>4, <2>5 DEF Proper, OwnedLetter, FreshLetter
    <3>3. QED
      BY <1>1, <1>2, <2>2, <2>5, <3>1, <3>2 DEF PInv, Fresh, FreshLetter, Loads, Stored
  <2>6. QED
    BY <1>1, <2>3, <2>4, <2>5 DEF PInv
<1>5. QED
  BY <1>3, <1>4


\* A change of what is shown, by the teacher or by the groups generated for the question shown.
LEMMA Retyped ==
  ASSUME PInv, NEW cfg \in Config, cfg.n = typed + 1, cfg.of = panel.cfg.of \cup {panel.q},
         panel' \in PanelRow, panel'.q = panel.q, panel'.cfg = cfg, panel'.base = panel.base,
         panel'.loading = panel.loading, panel'.failed = panel.failed, typed' = typed + 1,
         hasty' = hasty \cup (IF Storing THEN {"type"} ELSE {}),
         posted' \subseteq posted, UNCHANGED <<stored, sources>>
  PROVE  PInv'
<1>1. Open' <=> Open
  BY DEF Open
<1>2. PanelType'
  BY PanelFields DEF PInv, PanelType
<1>3. NumbersTyped'
  <2>1. \A q \in Items : stored[q].n \in Nat
    BY DEF PInv, PanelType, Config
  <2>2. \A m \in posted : m.cfg.n \in Nat
    BY DEF PInv, PanelType, Letter, Config
  <2>3. QED
    BY <2>1, <2>2, PanelFields DEF PInv, NumbersTyped
<1>4. ASSUME "select" \notin hasty' PROVE HeldOwn'
  BY <1>1, <1>4 DEF PInv, HeldOwn, OwnedLetter, Loads, Stored
<1>5. ASSUME hasty' = {} PROVE Fresh'
  <2>1. hasty = {} /\ \A m \in posted : ~Stored(m)
    BY <1>5 DEF Storing, Stored
  <2>2. Open => stored[panel.q].n <= cfg.n
    BY PanelFields
  <2>3. QED
    BY <1>1, <2>1, <2>2 DEF PInv, Fresh, FreshLetter, Loads, Stored
<1>6. QED
  BY <1>2, <1>3, <1>4, <1>5 DEF PInv

LEMMA TypeStep ==
  ASSUME PInv, Type
  PROVE  PInv'
<1>1. /\ Open /\ typed' = typed + 1 /\ panel' = [panel EXCEPT !.cfg = Changed(panel.cfg, panel.q)]
      /\ hasty' = hasty \cup (IF Storing THEN {"type"} ELSE {}) /\ UNCHANGED <<stored, posted, sources>>
  BY DEF Type
<1> DEFINE cfg == Changed(panel.cfg, panel.q)
<1>2. /\ cfg \in Config /\ cfg.n = typed + 1 /\ cfg.of = panel.cfg.of \cup {panel.q}
  BY PanelFields DEF Changed, Config, PInv, PanelType, PanelRow
<1> HIDE DEF cfg
<1>3. /\ panel' \in PanelRow /\ panel'.q = panel.q /\ panel'.cfg = cfg /\ panel'.base = panel.base
      /\ panel'.loading = panel.loading /\ panel'.failed = panel.failed
  BY <1>1, <1>2, PanelFields DEF PanelRow, cfg
<1>4. QED
  BY <1>1, <1>2, <1>3, Retyped

LEMMA GeneratedStep ==
  ASSUME PInv, NEW m \in posted, Generated(m)
  PROVE  PInv'
<1>1. /\ m.what = "groups" /\ posted' = posted \ {m} /\ UNCHANGED <<stored, sources>>
      /\ hasty' = hasty \cup (IF Storing /\ typed' # typed THEN {"type"} ELSE {})
  BY DEF Generated, Heard
<1>2. m \in Letter /\ panel.q \in Items
  BY LettersAre
<1>3. CASE typed' = typed /\ (panel' = panel \/ panel' = [panel EXCEPT !.generating = FALSE])
  <2>1. /\ panel' \in PanelRow /\ panel'.q = panel.q /\ panel'.cfg = panel.cfg /\ panel'.base = panel.base
        /\ panel'.loading = panel.loading /\ panel'.failed = panel.failed
    BY <1>3, PanelFields DEF PanelRow
  <2>2. (Open' => Open) /\ (hasty = {} /\ Open' => panel'.base.n <= stored[panel.q].n)
    BY <2>1 DEF Open, PInv, Fresh
  <2> DEFINE new == {}
  <2>3. /\ posted' \subseteq posted \cup new /\ (new # {} => panel.q \in Items) /\ \A k \in new : Proper(k)
        /\ "select" \notin hasty => \A k \in new : Loads(k) => \A j \in posted' : Loads(j) => j = k
    BY <1>1
  <2> HIDE DEF new
  <2>4. hasty' = hasty
    BY <1>1, <1>3
  <2>5. QED
    BY <1>1, <1>3, <2>1, <2>2, <2>3, <2>4, PanelFrame
<1>4. CASE /\ m.q = panel.q /\ typed' = typed + 1
           /\ panel' = [panel EXCEPT !.generating = FALSE, !.cfg = Changed(panel.cfg, m.q)]
  <2> DEFINE cfg == Changed(panel.cfg, panel.q)
  <2>1. /\ cfg \in Config /\ cfg.n = typed + 1 /\ cfg.of = panel.cfg.of \cup {panel.q}
    BY PanelFields DEF Changed, Config, PInv, PanelType, PanelRow
  <2>2. panel' = [panel EXCEPT !.generating = FALSE, !.cfg = cfg]
    BY <1>4
  <2> HIDE DEF cfg
  <2>3. /\ panel' \in PanelRow /\ panel'.q = panel.q /\ panel'.cfg = cfg /\ panel'.base = panel.base
        /\ panel'.loading = panel.loading /\ panel'.failed = panel.failed
    BY <2>1, <2>2, PanelFields DEF PanelRow
  <2>4. hasty' = hasty \cup (IF Storing THEN {"type"} ELSE {})
    BY <1>1, <1>4, PanelFields
  <2>5. QED
    BY <1>1, <1>4, <2>1, <2>3, <2>4, Retyped
<1>5. QED
  BY <1>3, <1>4 DEF Generated

\* Another question is opened.
LEMMA SelectStep ==
  ASSUME PInv, NEW q \in Items, Select(q)
  PROVE  PInv'
<1> DEFINE k == [what |-> "load", q |-> q, cfg |-> Clean(q), seq |-> panel.opened, for |-> q, n |-> 0,
                 tries |-> 0, done |-> FALSE, ok |-> FALSE]
<1>1. /\ posted' = posted \cup {k} /\ UNCHANGED <<stored, sources, typed>>
      /\ hasty' = hasty \cup (IF panel.loading \/ Storing THEN {"select"} ELSE {})
  BY DEF Select, Post
<1>2. /\ k \in Letter /\ k.what = "load" /\ k.q = q /\ k.cfg.of = {q} /\ k.cfg.n = 0 /\ k.done = FALSE
  BY PanelFields DEF Letter, Config, Clean
<1> HIDE DEF k
<1>3. panel' \in PanelRow /\ panel'.q = q /\ panel'.cfg = panel.cfg /\ panel'.loading = TRUE
  <2>1. PICK s \in Nat, o \in Nat : s = panel.seq + 1 /\ o = panel.opened + 1
    BY PanelFields
  <2>2. panel' = [panel EXCEPT !.q = q, !.seq = s, !.opened = o, !.loading = TRUE,
                               !.failed = FALSE, !.generating = FALSE]
    BY <2>1 DEF Select
  <2>3. QED
    BY <2>2, PanelFields DEF PanelRow
<1>4. ~Open'
  BY <1>3 DEF Open
<1>5. PanelType' /\ NumbersTyped'
  BY <1>1, <1>2, <1>3, PanelFields DEF PInv, PanelType, NumbersTyped
<1>6. ASSUME "select" \notin hasty' PROVE HeldOwn'
  <2>1. "select" \notin hasty /\ ~panel.loading
    BY <1>1, <1>6
  <2>2. \A j \in posted : ~Loads(j)
    BY <2>1 DEF PInv, HeldOwn, OwnedLetter
  <2>3. QED
    BY <1>1, <1>2, <1>3, <1>4, <2>1, <2>2 DEF PInv, HeldOwn, OwnedLetter, Loads, Stored
<1>7. ASSUME hasty' = {} PROVE Fresh'
  <2>1. hasty = {} /\ \A j \in posted : ~Stored(j)
    BY <1>1, <1>7 DEF Storing, Stored
  <2>2. QED
    BY <1>1, <1>2, <1>4, <2>1 DEF PInv, Fresh, FreshLetter, Loads, Stored
<1>8. QED
  BY <1>5, <1>6, <1>7 DEF PInv

LEMMA PanelStep ==
  ASSUME PInv, [PanelNext]_panelVars
  PROVE  PInv'
<1>1. ASSUME NEW q \in Items, Select(q) PROVE PInv'
  BY <1>1, SelectStep
<1>2. CASE Type
  BY <1>2, TypeStep
<1>3. CASE Save
  BY <1>3, SaveStep
<1>4. CASE GenerateGroups
  BY <1>4, GenerateGroupsStep
<1>5. CASE MakeRubric
  BY <1>5, MakeRubricStep
<1>6. ASSUME NEW m \in posted,
             \/ Reads(m) \/ Stores(m) \/ Drafts(m) \/ Groups(m) \/ Refuse(m)
             \/ ConfigLoaded(m) \/ Confirmed(m) \/ AutoSaved(m) \/ Drafted(m) \/ Generated(m)
      PROVE  PInv'
  BY <1>6, ReadsStep, StoresStep, DraftsStep, GroupsStep, ConfigLoadedStep, AnsweredStep,
     AutoSavedStep, GeneratedStep
<1>7. CASE UNCHANGED panelVars
  BY <1>7 DEF panelVars, PInv, PanelType, NumbersTyped, HeldOwn, OwnedLetter, Fresh, FreshLetter,
              Open, Loads, Stored
<1>8. QED
  BY <1>1, <1>2, <1>3, <1>4, <1>5, <1>6, <1>7 DEF PanelNext

\* The panel always satisfies PInv, whatever the teacher does and however late an answer is
\* (AIQuestionConfig.vue).
THEOREM PanelInvariant == PanelSpec => []PInv
<1>1. PanelInit => PInv
  <2>1. SUFFICES ASSUME PanelInit PROVE PInv
    OBVIOUS
  <2>2. \A q \in Items \cup {NoItem} : Clean(q) \in Config /\ Clean(q).n = 0 /\ Clean(q).of = {q}
    BY DEF Clean, Config
  <2>3. PanelType /\ NumbersTyped
    BY <2>1, <2>2 DEF PanelInit, PanelType, PanelRow, NumbersTyped
  <2>4. HeldOwn /\ Fresh
    BY <2>1, <2>2, PanelAssumption DEF PanelInit, HeldOwn, Fresh, Open
  <2>5. QED
    BY <2>3, <2>4 DEF PInv
<1>2. PInv /\ [PanelNext]_panelVars => PInv'
  BY PanelStep
<1>3. QED
  BY <1>1, <1>2, PTL DEF PanelSpec

\* A teacher who waits for the panel never stores in a question what was typed or generated
\* for another; and, typing nothing while it saves, gets a rubric for the question it was
\* asked for, from nothing older than what was shown (AIQuestionConfig.vue load, save,
\* startGenerate, generateRubricAction).
THEOREM PanelIsKeptApart == PanelSpec => []PanelKeepsApart
<1>1. PInv => PanelKeepsApart
  BY DEF PInv, HeldOwn, Fresh, PanelKeepsApart, OwnConfiguration, RubricFromShown
<1>2. QED
  BY <1>1, PanelInvariant, PTL
-----------------------------------------------------------------------------
(* ReadModels                                                               *)

PageSpec == PageInit /\ [][PageNext]_pageVars

Topics == {"assignment", "exam", "experiment", "module"}
WorkStates == {"none", "waiting", "completed", "system_error"}
WorkRow == [gs : WorkStates, broken : BOOLEAN, scored : BOOLEAN, flagged : BOOLEAN]
AttemptStates == {"none", "started", "submitted", "grading", "graded", "review_required"}
ReportStates == {"none", "started", "submitted", "commented", "scored"}
Modes == {"all_enrolled", "selected_classes", "whitelist_only"}
ReachRow == [mode : Modes, include : SUBSET Pupils, exclude : SUBSET Pupils]
RosterRow == [enrolled : SUBSET Pupils, members : SUBSET Pupils]
Flags == {"score", "questions", "answers"}

PageType ==
  /\ topic \in Topics /\ hour \in Nat /\ close \in Nat /\ OpensAt < close
  /\ public \in BOOLEAN /\ issued \in BOOLEAN
  /\ reach \in ReachRow /\ roster \in RosterRow
  /\ work \in [Pupils \X Exercises -> WorkRow]
  /\ attempt \in [Pupils -> AttemptStates] /\ report \in [Pupils -> ReportStates]
  /\ released \in BOOLEAN /\ reopened \in BOOLEAN /\ show \in SUBSET Flags
  /\ asking \in SUBSET Pupils /\ releasing \in BOOLEAN /\ overtaken \in BOOLEAN

\* Who has begun an exam keeps it published, and a published exam shows no answers
\* without the questions; nobody sits an exam whose answers are out; unless a start
\* or a release was overtaken.
ExamShown ==
  /\ topic # "exam" => Began = {} /\ ~released /\ show = {} /\ asking = {} /\ ~releasing
  /\ topic = "exam" /\ Began # {} /\ ~overtaken => issued
  /\ topic = "exam" /\ issued => ShownTogether(show)
OverWhenReleased ==
  released /\ ~reopened /\ ~overtaken => close <= hour /\ \A s \in Pupils : attempt[s] # "started"
CompletedRan == \A p \in Pupils \X Exercises : work[p].gs = "completed" => ~work[p].broken

PageInv == PageType /\ ExamShown /\ OverWhenReleased /\ CompletedRan

-----------------------------------------------------------------------------
(* The rows.                                                                *)

LEMMA PageBegins == ASSUME PageInit PROVE PageInv
<1>1. /\ topic \in Topics /\ hour = 0 /\ close = 2 /\ public = TRUE /\ issued \in BOOLEAN
      /\ reach = [mode |-> "all_enrolled", include |-> {}, exclude |-> {}]
      /\ roster = [enrolled |-> Pupils, members |-> {}]
      /\ released = FALSE /\ reopened = FALSE /\ show = {}
      /\ asking = {} /\ releasing = FALSE /\ overtaken = FALSE
      /\ attempt = [s \in Pupils |-> "none"] /\ report = [s \in Pupils |-> "none"]
  BY DEF PageInit, Topics
<1>2. work \in [Pupils \X Exercises -> WorkRow] /\ \A p \in Pupils \X Exercises : work[p] = NoWork
  <2>1. NoWork \in WorkRow
    BY DEF NoWork, WorkRow, WorkStates
  <2> QED BY <2>1 DEF PageInit
<1>3. reach \in ReachRow /\ roster \in RosterRow
  BY <1>1 DEF ReachRow, RosterRow, Modes
<1>4. PageType
  <2>1. hour \in Nat /\ close \in Nat /\ OpensAt < close
    BY <1>1 DEF OpensAt
  <2> QED BY <1>1, <1>2, <1>3, <2>1 DEF PageType, AttemptStates, ReportStates, Flags
<1>5. ExamShown
  BY <1>1 DEF ExamShown, Began, ShownTogether
<1>6. OverWhenReleased
  BY <1>1 DEF OverWhenReleased
<1>7. CompletedRan
  BY <1>2 DEF CompletedRan, NoWork
<1> QED BY <1>4, <1>5, <1>6, <1>7 DEF PageInv

\* The requests of the teacher that touch neither the exam nor anybody's work.
LEMMA SettingsKeep ==
  ASSUME PageInv, UNCHANGED <<topic, close, issued, released, reopened, show>>, UNCHANGED rowVars,
         hour' \in Nat, hour <= hour', public' \in BOOLEAN, reach' \in ReachRow, roster' \in RosterRow
  PROVE  PageInv'
<1> USE DEF rowVars, sitVars
<1>1. PageType'
  BY DEF PageInv, PageType
<1>2. ExamShown'
  BY DEF PageInv, ExamShown, Began, ShownTogether
<1>3. OverWhenReleased'
  <2>1. hour \in Nat /\ close \in Nat
    BY DEF PageInv, PageType
  <2> QED BY <2>1 DEF PageInv, OverWhenReleased
<1>4. CompletedRan'
  BY DEF PageInv, CompletedRan
<1> QED BY <1>1, <1>2, <1>3, <1>4 DEF PageInv

LEMMA HourKeeps == ASSUME PageInv, HourPasses PROVE PageInv'
<1>1. hour \in Nat /\ public \in BOOLEAN /\ reach \in ReachRow /\ roster \in RosterRow
  BY DEF PageInv, PageType
<1>2. /\ UNCHANGED <<topic, close, public, issued, reach, roster, released, reopened, show>>
      /\ UNCHANGED rowVars /\ hour' = hour + 1
  BY DEF HourPasses
<1>3. hour' \in Nat /\ hour <= hour'
  BY <1>1, <1>2
<1> QED BY <1>1, <1>2, <1>3, SettingsKeep

LEMMA TurnKeeps == ASSUME PageInv, TurnCourse PROVE PageInv'
<1>1. hour \in Nat /\ public \in BOOLEAN /\ reach \in ReachRow /\ roster \in RosterRow
  BY DEF PageInv, PageType
<1>2. /\ UNCHANGED <<topic, hour, close, issued, reach, roster, released, reopened, show>>
      /\ UNCHANGED rowVars /\ public' = ~public
  BY DEF TurnCourse, Edited
<1>3. hour' \in Nat /\ hour <= hour' /\ public' \in BOOLEAN
  BY <1>1, <1>2
<1> QED BY <1>1, <1>2, <1>3, SettingsKeep

LEMMA MoveKeeps == ASSUME PageInv, NEW s \in Pupils, MoveStudent(s) PROVE PageInv'
<1>1. hour \in Nat /\ public \in BOOLEAN /\ reach \in ReachRow /\ roster \in RosterRow
  BY DEF PageInv, PageType
<1>2. /\ UNCHANGED <<topic, hour, close, public, issued, reach, released, reopened, show>>
      /\ UNCHANGED rowVars
  BY DEF MoveStudent, Edited
<1>3. PICK list \in {"enrolled", "members"} :
        roster' = [roster EXCEPT ![list] = IF s \in @ THEN @ \ {s} ELSE @ \cup {s}]
  BY DEF MoveStudent
<1>4. roster' \in RosterRow
  BY <1>1, <1>3 DEF RosterRow
<1>5. hour' \in Nat /\ hour <= hour'
  BY <1>1, <1>2
<1> QED BY <1>1, <1>2, <1>4, <1>5, SettingsKeep

LEMMA AudienceKeeps == ASSUME PageInv, SaveAudience PROVE PageInv'
<1>1. hour \in Nat /\ public \in BOOLEAN /\ reach \in ReachRow /\ roster \in RosterRow
  BY DEF PageInv, PageType
<1>2. /\ UNCHANGED <<topic, hour, close, public, issued, roster, released, reopened, show>>
      /\ UNCHANGED rowVars
  BY DEF SaveAudience, Edited
<1>3. reach' \in ReachRow
  BY DEF SaveAudience, ReachRow, Modes
<1>4. hour' \in Nat /\ hour <= hour'
  BY <1>1, <1>2
<1> QED BY <1>1, <1>2, <1>3, <1>4, SettingsKeep

LEMMA ImportKeeps == ASSUME PageInv, NEW s \in Pupils, ImportAudience(s) PROVE PageInv'
<1>1. hour \in Nat /\ public \in BOOLEAN /\ reach \in ReachRow /\ roster \in RosterRow
  BY DEF PageInv, PageType
<1>2. /\ UNCHANGED <<topic, hour, close, public, issued, roster, released, reopened, show>>
      /\ UNCHANGED rowVars
  BY DEF ImportAudience, Edited
<1>3. PICK list \in {"include", "exclude"} : reach' = [reach EXCEPT ![list] = @ \cup {s}]
  BY DEF ImportAudience
<1>4. reach' \in ReachRow
  BY <1>1, <1>3 DEF ReachRow
<1>5. hour' \in Nat /\ hour <= hour'
  BY <1>1, <1>2
<1> QED BY <1>1, <1>2, <1>4, <1>5, SettingsKeep

LEMMA IssueKeeps == ASSUME PageInv, IssueTask PROVE PageInv'
<1>1. /\ UNCHANGED <<topic, hour, close, public, reach, roster, released, reopened, show>>
      /\ UNCHANGED rowVars /\ issued' = TRUE /\ (topic = "exam" => ShownTogether(show))
  BY DEF IssueTask, Edited
<1> USE <1>1 DEF rowVars, sitVars
<1>2. PageType'
  BY DEF PageInv, PageType
<1>3. ExamShown'
  BY DEF PageInv, ExamShown, Began, ShownTogether
<1>4. OverWhenReleased' /\ CompletedRan'
  BY DEF PageInv, OverWhenReleased, CompletedRan
<1> QED BY <1>2, <1>3, <1>4 DEF PageInv

LEMMA WithdrawKeeps == ASSUME PageInv, WithdrawTask PROVE PageInv'
<1>1. /\ UNCHANGED <<topic, hour, close, public, reach, roster, released, reopened, show>>
      /\ UNCHANGED rowVars /\ issued' = FALSE /\ (topic = "exam" => Began = {})
  BY DEF WithdrawTask, Edited
<1> USE <1>1 DEF rowVars, sitVars
<1>2. PageType'
  BY DEF PageInv, PageType
<1>3. ExamShown'
  BY DEF PageInv, ExamShown, Began
<1>4. OverWhenReleased' /\ CompletedRan'
  BY DEF PageInv, OverWhenReleased, CompletedRan
<1> QED BY <1>2, <1>3, <1>4 DEF PageInv

LEMMA PostponeKeeps == ASSUME PageInv, Postpone PROVE PageInv'
<1>1. /\ UNCHANGED <<topic, hour, public, issued, reach, roster, released, show>>
      /\ UNCHANGED rowVars /\ close' = close + 1 /\ reopened' = (reopened \/ released)
  BY DEF Postpone, Edited
<1> USE <1>1 DEF rowVars, sitVars
<1>2. PageType'
  BY DEF PageInv, PageType, OpensAt
<1>3. ExamShown'
  BY DEF PageInv, ExamShown, Began, ShownTogether
<1>4. OverWhenReleased' /\ CompletedRan'
  BY DEF PageInv, OverWhenReleased, CompletedRan
<1> QED BY <1>2, <1>3, <1>4 DEF PageInv

LEMMA ShowKeeps ==
  ASSUME PageInv, NEW flag \in Flags, NEW on \in BOOLEAN, SaveShown(flag, on) PROVE PageInv'
<1>1. /\ UNCHANGED <<topic, hour, close, public, issued, reach, roster, released, reopened>>
      /\ UNCHANGED rowVars /\ topic = "exam" /\ (issued => ShownTogether(show'))
  BY DEF SaveShown, Edited
<1> USE <1>1 DEF rowVars, sitVars
<1>2. show' \in SUBSET Flags
  BY DEF SaveShown, PageInv, PageType, Flags
<1>3. PageType'
  BY <1>2 DEF PageInv, PageType
<1>4. ExamShown'
  BY DEF PageInv, ExamShown, Began, ShownTogether
<1>5. OverWhenReleased' /\ CompletedRan'
  BY DEF PageInv, OverWhenReleased, CompletedRan
<1> QED BY <1>3, <1>4, <1>5 DEF PageInv

LEMMA AskKeeps == ASSUME PageInv, AskToRelease PROVE PageInv'
<1>1. /\ UNCHANGED <<topic, hour, close, public, issued, reach, roster, released, reopened, show>>
      /\ UNCHANGED <<work, attempt, report, asking, overtaken>> /\ topic = "exam" /\ releasing' = TRUE
  BY DEF AskToRelease, settingVars
<1> USE <1>1
<1>2. PageType'
  BY DEF PageInv, PageType
<1>3. ExamShown'
  BY DEF PageInv, ExamShown, Began, ShownTogether
<1>4. OverWhenReleased' /\ CompletedRan'
  BY DEF PageInv, OverWhenReleased, CompletedRan
<1> QED BY <1>2, <1>3, <1>4 DEF PageInv

LEMMA ReleaseKeeps == ASSUME PageInv, ReleaseReview PROVE PageInv'
<1>1. /\ UNCHANGED <<topic, hour, close, public, issued, reach, roster, reopened, show>>
      /\ UNCHANGED <<work, attempt, report, asking>>
      /\ releasing /\ releasing' = FALSE /\ released' = TRUE
      /\ overtaken' = (overtaken \/ ~(close <= hour /\ \A s \in Pupils : attempt[s] # "started"))
  BY DEF ReleaseReview, MayRelease
<1>2. topic = "exam"
  BY <1>1 DEF PageInv, PageType, ExamShown
<1>3. overtaken' \in BOOLEAN /\ (~overtaken' => ~overtaken)
  BY <1>1
<1> USE <1>1
<1>4. PageType'
  BY <1>3 DEF PageInv, PageType
<1>5. ExamShown'
  BY <1>2, <1>3 DEF PageInv, ExamShown, Began, ShownTogether
<1>6. OverWhenReleased' /\ CompletedRan'
  BY DEF PageInv, OverWhenReleased, CompletedRan
<1> QED BY <1>4, <1>5, <1>6 DEF PageInv

\* Work that is handed in or judged.
LEMMA WorkKeeps ==
  ASSUME PageInv, NEW s \in Pupils, NEW q \in Exercises, NEW new \in WorkRow,
         new.gs = "completed" => ~new.broken, work' = [work EXCEPT ![<<s, q>>] = new],
         UNCHANGED <<topic, taskRowVars, attempt, report>>
  PROVE  PageInv'
<1> USE DEF taskRowVars, settingVars, sitVars
<1>1. work' \in [Pupils \X Exercises -> WorkRow]
  BY DEF PageInv, PageType
<1>2. \A p \in Pupils \X Exercises : work'[p] = work[p] \/ work'[p] = new
  BY DEF PageInv, PageType
<1>3. PageType'
  BY <1>1 DEF PageInv, PageType
<1>4. ExamShown' /\ OverWhenReleased'
  BY DEF PageInv, ExamShown, Began, ShownTogether, OverWhenReleased
<1>5. CompletedRan'
  BY <1>2 DEF PageInv, CompletedRan
<1> QED BY <1>3, <1>4, <1>5 DEF PageInv

LEMMA HandInKeeps ==
  ASSUME PageInv, NEW s \in Pupils, NEW q \in Exercises, HandInWork(s, q) PROVE PageInv'
<1>1. PICK new : new = [work[<<s, q>>] EXCEPT !.gs = "waiting"]
  OBVIOUS
<1>2. work[<<s, q>>] \in WorkRow
  BY DEF PageInv, PageType
<1>3. new \in WorkRow /\ new.gs = "waiting"
  BY <1>1, <1>2 DEF WorkRow, WorkStates
<1>4. work' = [work EXCEPT ![<<s, q>>] = new] /\ UNCHANGED <<topic, taskRowVars, attempt, report>>
  BY <1>1 DEF HandInWork
<1> QED BY <1>3, <1>4, WorkKeeps

LEMMA JudgeKeeps ==
  ASSUME PageInv, NEW s \in Pupils, NEW q \in Exercises, JudgeWork(s, q) PROVE PageInv'
<1>1. PICK mine : mine = work[<<s, q>>]
  OBVIOUS
<1>2. mine \in WorkRow /\ (mine.gs = "completed" => ~mine.broken)
  BY <1>1 DEF PageInv, PageType, CompletedRan
<1>3. PICK new \in AfterJudge(mine) : work' = [work EXCEPT ![<<s, q>>] = new]
  BY <1>1 DEF JudgeWork
<1>4. new \in WorkRow /\ (new.gs = "completed" => ~new.broken)
  <2>1. CASE mine.gs = "waiting"
    <3>1. \/ new = [mine EXCEPT !.broken = TRUE]
          \/ new = [mine EXCEPT !.broken = TRUE, !.gs = "system_error"]
          \/ \E b \in BOOLEAN : new = [mine EXCEPT !.broken = FALSE, !.gs = "completed", !.scored = b]
      BY <1>3, <2>1 DEF AfterJudge
    <3> QED BY <1>2, <2>1, <3>1 DEF WorkRow, WorkStates
  <2>2. CASE mine.gs = "completed"
    <3>1. \/ new = [mine EXCEPT !.scored = TRUE, !.flagged = FALSE]
          \/ new = [mine EXCEPT !.scored = TRUE] \/ new = [mine EXCEPT !.flagged = TRUE]
      BY <1>3, <2>2 DEF AfterJudge
    <3> QED BY <1>2, <2>2, <3>1 DEF WorkRow, WorkStates
  <2> QED BY <1>3, <2>1, <2>2 DEF AfterJudge
<1>5. UNCHANGED <<topic, taskRowVars, attempt, report>>
  BY DEF JudgeWork
<1> QED BY <1>3, <1>4, <1>5, WorkKeeps

LEMMA AskToSitKeeps == ASSUME PageInv, NEW s \in Pupils, AskToSit(s) PROVE PageInv'
<1>1. /\ UNCHANGED <<topic, hour, close, public, issued, reach, roster, released, reopened, show>>
      /\ UNCHANGED <<work, attempt, report, releasing, overtaken>> /\ topic = "exam"
      /\ asking' = asking \cup {s}
  BY DEF AskToSit, settingVars
<1> USE <1>1
<1>2. PageType'
  BY DEF PageInv, PageType
<1>3. ExamShown'
  BY DEF PageInv, ExamShown, Began, ShownTogether
<1>4. OverWhenReleased' /\ CompletedRan'
  BY DEF PageInv, OverWhenReleased, CompletedRan
<1> QED BY <1>2, <1>3, <1>4 DEF PageInv

\* One attempt gets another status.
LEMMA AttemptKeeps ==
  ASSUME PageInv, topic = "exam", NEW s \in Pupils, NEW new \in AttemptStates,
         attempt' = [attempt EXCEPT ![s] = new],
         UNCHANGED <<topic, hour, close, public, issued, reach, roster, released, reopened, show>>,
         UNCHANGED <<work, report, releasing>>, asking' \in SUBSET Pupils, overtaken' \in BOOLEAN,
         ~overtaken' => ~overtaken /\ issued /\ (new = "started" => ~released \/ attempt[s] = "started")
  PROVE  PageInv'
<1>1. attempt \in [Pupils -> AttemptStates] /\ hour \in Nat /\ close \in Nat
  BY DEF PageInv, PageType
<1>2. PageType'
  BY <1>1 DEF PageInv, PageType
<1>3. ExamShown'
  BY DEF PageInv, ExamShown, ShownTogether
<1>4. OverWhenReleased'
  <2>1. SUFFICES ASSUME released, ~reopened, ~overtaken' PROVE close <= hour /\ \A t \in Pupils : attempt'[t] # "started"
    BY DEF OverWhenReleased
  <2>2. close <= hour /\ \A t \in Pupils : attempt[t] # "started"
    BY <2>1 DEF PageInv, OverWhenReleased
  <2>3. new # "started"
    BY <2>1, <2>2
  <2> QED BY <1>1, <2>2, <2>3
<1>5. CompletedRan'
  BY DEF PageInv, CompletedRan
<1> QED BY <1>2, <1>3, <1>4, <1>5 DEF PageInv

LEMMA StartKeeps == ASSUME PageInv, NEW s \in Pupils, BeginExam(s) PROVE PageInv'
<1>1. PICK new : new = IF attempt[s] = "none" THEN "started" ELSE attempt[s]
  OBVIOUS
<1>2. /\ UNCHANGED <<topic, hour, close, public, issued, reach, roster, released, reopened, show>>
      /\ UNCHANGED <<work, report, releasing>> /\ s \in asking /\ asking' = asking \ {s}
      /\ attempt' = [attempt EXCEPT ![s] = new] /\ overtaken' = (overtaken \/ ~issued \/ released)
  BY <1>1 DEF BeginExam, settingVars
<1>3. topic = "exam" /\ new \in AttemptStates /\ asking' \in SUBSET Pupils
  BY <1>1, <1>2 DEF PageInv, PageType, ExamShown, AttemptStates
<1>4. overtaken' \in BOOLEAN /\ (~overtaken' => ~overtaken /\ issued /\ ~released)
  BY <1>2
<1> QED BY <1>2, <1>3, <1>4, AttemptKeeps

LEMMA SitKeeps == ASSUME PageInv, NEW s \in Pupils, SitExam(s) PROVE PageInv'
<1>1. PICK new \in AfterAttempt(attempt[s]) : attempt' = [attempt EXCEPT ![s] = new]
  BY DEF SitExam
<1>2. /\ UNCHANGED <<topic, hour, close, public, issued, reach, roster, released, reopened, show>>
      /\ UNCHANGED <<work, report, asking, releasing, overtaken>> /\ topic = "exam"
  BY DEF SitExam, taskRowVars, settingVars, sitVars
<1>3. new \in AttemptStates /\ new # "started" /\ attempt[s] # "none"
  BY <1>1 DEF AfterAttempt, AttemptStates
<1>4. ~overtaken => issued
  BY <1>2, <1>3 DEF PageInv, ExamShown, Began
<1>5. asking' \in SUBSET Pupils /\ overtaken' \in BOOLEAN
  BY <1>2 DEF PageInv, PageType
<1> QED BY <1>1, <1>2, <1>3, <1>4, <1>5, AttemptKeeps

LEMMA ReportKeeps == ASSUME PageInv, NEW s \in Pupils, WriteReport(s) PROVE PageInv'
<1>1. PICK new \in AfterReport(report[s]) : report' = [report EXCEPT ![s] = new]
  BY DEF WriteReport
<1>2. new \in ReportStates
  BY <1>1 DEF AfterReport, ReportStates
<1>3. /\ UNCHANGED <<topic, hour, close, public, issued, reach, roster, released, reopened, show>>
      /\ UNCHANGED <<work, attempt, asking, releasing, overtaken>>
  BY DEF WriteReport, taskRowVars, settingVars, sitVars
<1> USE <1>3
<1>4. PageType'
  BY <1>1, <1>2 DEF PageInv, PageType
<1>5. ExamShown' /\ OverWhenReleased' /\ CompletedRan'
  BY DEF PageInv, ExamShown, Began, ShownTogether, OverWhenReleased, CompletedRan
<1> QED BY <1>4, <1>5 DEF PageInv

LEMMA PagesStep == ASSUME PageInv, [PageNext]_pageVars PROVE PageInv'
<1>1. PageNext \/ UNCHANGED pageVars
  BY DEF pageVars
<1>2. CASE UNCHANGED pageVars
  BY <1>1, <1>2 DEF pageVars, sitVars, rowVars, PageInv, PageType, ExamShown, Began, ShownTogether,
                    OverWhenReleased, CompletedRan
<1>3. CASE \E flag \in {"score", "questions", "answers"}, on \in BOOLEAN : SaveShown(flag, on)
  BY <1>1, <1>3, ShowKeeps DEF Flags
<1>4. CASE \E s \in Pupils : MoveStudent(s) \/ ImportAudience(s) \/ WriteReport(s)
  BY <1>1, <1>4, MoveKeeps, ImportKeeps, ReportKeeps
<1>5. CASE \E s \in Pupils : AskToSit(s) \/ BeginExam(s) \/ SitExam(s)
  BY <1>1, <1>5, AskToSitKeeps, StartKeeps, SitKeeps
<1>6. CASE \E s \in Pupils, q \in Exercises : HandInWork(s, q) \/ JudgeWork(s, q)
  BY <1>1, <1>6, HandInKeeps, JudgeKeeps
<1> QED BY <1>1, <1>2, <1>3, <1>4, <1>5, <1>6, HourKeeps, TurnKeeps, AudienceKeeps, IssueKeeps,
           WithdrawKeeps, PostponeKeeps, AskKeeps, ReleaseKeeps DEF PageNext

\* What the pages read is consistent after every request, hand-in, judgement and hour: a
\* published exam shows no answers without its questions, its answers are out only when
\* nobody sits it and its end is past (if no start or release was overtaken), and a completed
\* submission has run (assignment_service.py, exam_service.py, judge_worker.py).
THEOREM PageInvariant == PageSpec => []PageInv
BY PageBegins, PagesStep, PTL DEF PageSpec

-----------------------------------------------------------------------------
(* A CASE of SQL.                                                           *)

LEMMA LeastIs ==
  ASSUME NEW S, NEW m \in S, S \in SUBSET Nat, \A k \in S : m <= k
  PROVE  Min(S) = m
<1>1. \E x \in S : \A y \in S : x <= y
  OBVIOUS
<1>2. PICK x \in S : x = Min(S) /\ \A y \in S : x <= y
  BY <1>1 DEF Min
<1>3. x <= m /\ m <= x /\ x \in Nat /\ m \in Nat
  BY <1>2
<1> QED BY <1>2, <1>3

LEMMA FirstClause ==
  ASSUME NEW clauses, NEW n \in Nat, DOMAIN clauses = 1..n, NEW otherwise
  PROVE  /\ (\A i \in 1..n : ~clauses[i][1]) => CaseOf(clauses, otherwise) = otherwise
         /\ \A i \in 1..n : clauses[i][1] /\ (\A j \in 1..n : j < i => ~clauses[j][1]) =>
              CaseOf(clauses, otherwise) = clauses[i][2]
<1>1. ASSUME \A i \in 1..n : ~clauses[i][1] PROVE CaseOf(clauses, otherwise) = otherwise
  BY <1>1 DEF CaseOf
<1>2. ASSUME NEW i \in 1..n, clauses[i][1], \A j \in 1..n : j < i => ~clauses[j][1]
      PROVE  CaseOf(clauses, otherwise) = clauses[i][2]
  <2> DEFINE true == {j \in 1..n : clauses[j][1]}
  <2>1. i \in true /\ true \in SUBSET Nat
    BY <1>2
  <2>2. \A j \in true : i <= j
    BY <1>2
  <2>3. CaseOf(clauses, otherwise) = IF true = {} THEN otherwise ELSE clauses[Min(true)][2]
    BY DEF CaseOf
  <2> HIDE DEF true
  <2>4. Min(true) = i
    BY <2>1, <2>2, LeastIs
  <2> QED BY <2>1, <2>3, <2>4
<1> QED BY <1>1, <1>2

LEMMA FourClauses ==
  ASSUME NEW a \in BOOLEAN, NEW b \in BOOLEAN, NEW c \in BOOLEAN, NEW d \in BOOLEAN,
         NEW w, NEW x, NEW y, NEW z, NEW o
  PROVE  CaseOf(<< <<a, w>>, <<b, x>>, <<c, y>>, <<d, z>> >>, o) =
           IF a THEN w ELSE IF b THEN x ELSE IF c THEN y ELSE IF d THEN z ELSE o
<1>1. PICK s : s = << <<a, w>>, <<b, x>>, <<c, y>>, <<d, z>> >>
  OBVIOUS
<1>2. /\ DOMAIN s = 1..4 /\ s[1][1] = a /\ s[2][1] = b /\ s[3][1] = c /\ s[4][1] = d
      /\ s[1][2] = w /\ s[2][2] = x /\ s[3][2] = y /\ s[4][2] = z
  BY <1>1
<1>3. /\ (\A i \in 1..4 : ~s[i][1]) => CaseOf(s, o) = o
      /\ \A i \in 1..4 : s[i][1] /\ (\A j \in 1..4 : j < i => ~s[j][1]) => CaseOf(s, o) = s[i][2]
  BY <1>2, FirstClause
<1>4. \A i \in 1..4 : i = 1 \/ i = 2 \/ i = 3 \/ i = 4
  OBVIOUS
<1>5. CASE a
  <2>1. 1 \in 1..4 /\ s[1][1] /\ \A j \in 1..4 : j < 1 => ~s[j][1]
    BY <1>2, <1>4, <1>5
  <2>2. CaseOf(s, o) = w
    BY <1>2, <1>3, <2>1
  <2> QED BY <1>1, <1>5, <2>2
<1>6. CASE ~a /\ b
  <2>1. 2 \in 1..4 /\ s[2][1] /\ \A j \in 1..4 : j < 2 => ~s[j][1]
    BY <1>2, <1>4, <1>6
  <2>2. CaseOf(s, o) = x
    BY <1>2, <1>3, <2>1
  <2> QED BY <1>1, <1>6, <2>2
<1>7. CASE ~a /\ ~b /\ c
  <2>1. 3 \in 1..4 /\ s[3][1] /\ \A j \in 1..4 : j < 3 => ~s[j][1]
    BY <1>2, <1>4, <1>7
  <2>2. CaseOf(s, o) = y
    BY <1>2, <1>3, <2>1
  <2> QED BY <1>1, <1>7, <2>2
<1>8. CASE ~a /\ ~b /\ ~c /\ d
  <2>1. 4 \in 1..4 /\ s[4][1] /\ \A j \in 1..4 : j < 4 => ~s[j][1]
    BY <1>2, <1>4, <1>8
  <2>2. CaseOf(s, o) = z
    BY <1>2, <1>3, <2>1
  <2> QED BY <1>1, <1>8, <2>2
<1>9. CASE ~a /\ ~b /\ ~c /\ ~d
  <2>1. \A i \in 1..4 : ~s[i][1]
    BY <1>2, <1>4, <1>9
  <2>2. CaseOf(s, o) = o
    BY <1>3, <2>1
  <2> QED BY <1>1, <1>9, <2>2
<1> QED BY <1>5, <1>6, <1>7, <1>8, <1>9

LEMMA ThreeClauses ==
  ASSUME NEW a \in BOOLEAN, NEW b \in BOOLEAN, NEW c \in BOOLEAN, NEW w, NEW x, NEW y, NEW o
  PROVE  CaseOf(<< <<a, w>>, <<b, x>>, <<c, y>> >>, o) =
           IF a THEN w ELSE IF b THEN x ELSE IF c THEN y ELSE o
<1>1. PICK s : s = << <<a, w>>, <<b, x>>, <<c, y>> >>
  OBVIOUS
<1>2. /\ DOMAIN s = 1..3 /\ s[1][1] = a /\ s[2][1] = b /\ s[3][1] = c
      /\ s[1][2] = w /\ s[2][2] = x /\ s[3][2] = y
  BY <1>1
<1>3. /\ (\A i \in 1..3 : ~s[i][1]) => CaseOf(s, o) = o
      /\ \A i \in 1..3 : s[i][1] /\ (\A j \in 1..3 : j < i => ~s[j][1]) => CaseOf(s, o) = s[i][2]
  BY <1>2, FirstClause
<1>4. \A i \in 1..3 : i = 1 \/ i = 2 \/ i = 3
  OBVIOUS
<1>5. CASE a
  <2>1. 1 \in 1..3 /\ s[1][1] /\ \A j \in 1..3 : j < 1 => ~s[j][1]
    BY <1>2, <1>4, <1>5
  <2>2. CaseOf(s, o) = w
    BY <1>2, <1>3, <2>1
  <2> QED BY <1>1, <1>5, <2>2
<1>6. CASE ~a /\ b
  <2>1. 2 \in 1..3 /\ s[2][1] /\ \A j \in 1..3 : j < 2 => ~s[j][1]
    BY <1>2, <1>4, <1>6
  <2>2. CaseOf(s, o) = x
    BY <1>2, <1>3, <2>1
  <2> QED BY <1>1, <1>6, <2>2
<1>7. CASE ~a /\ ~b /\ c
  <2>1. 3 \in 1..3 /\ s[3][1] /\ \A j \in 1..3 : j < 3 => ~s[j][1]
    BY <1>2, <1>4, <1>7
  <2>2. CaseOf(s, o) = y
    BY <1>2, <1>3, <2>1
  <2> QED BY <1>1, <1>7, <2>2
<1>8. CASE ~a /\ ~b /\ ~c
  <2>1. \A i \in 1..3 : ~s[i][1]
    BY <1>2, <1>4, <1>8
  <2>2. CaseOf(s, o) = o
    BY <1>3, <2>1
  <2> QED BY <1>1, <1>8, <2>2
<1> QED BY <1>5, <1>6, <1>7, <1>8

LEMMA OneClause ==
  ASSUME NEW a \in BOOLEAN, NEW w, NEW o
  PROVE  CaseOf(<< <<a, w>> >>, o) = IF a THEN w ELSE o
<1>1. PICK s : s = << <<a, w>> >>
  OBVIOUS
<1>2. DOMAIN s = 1..1 /\ s[1][1] = a /\ s[1][2] = w
  BY <1>1
<1>3. \A i \in 1..1 : i = 1
  OBVIOUS
<1>4. CaseOf(s, o) = IF a THEN w ELSE o
  <2>1. /\ (\A i \in 1..1 : ~s[i][1]) => CaseOf(s, o) = o
        /\ \A i \in 1..1 : s[i][1] /\ (\A j \in 1..1 : j < i => ~s[j][1]) => CaseOf(s, o) = s[i][2]
    BY <1>2, FirstClause
  <2>2. CASE a
    <3>1. 1 \in 1..1 /\ s[1][1] /\ \A j \in 1..1 : j < 1 => ~s[j][1]
      BY <1>2, <1>3, <2>2
    <3> QED BY <1>2, <2>1, <2>2, <3>1
  <2>3. CASE ~a
    <3>1. \A i \in 1..1 : ~s[i][1]
      BY <1>2, <1>3, <2>3
    <3> QED BY <2>1, <2>3, <3>1
  <2> QED BY <2>2, <2>3
<1> QED BY <1>1, <1>4

LEMMA TwoClauses ==
  ASSUME NEW a \in BOOLEAN, NEW b \in BOOLEAN, NEW w, NEW x, NEW o
  PROVE  CaseOf(<< <<a, w>>, <<b, x>> >>, o) = IF a THEN w ELSE IF b THEN x ELSE o
<1>1. PICK t : t = << <<a, w>>, <<b, x>> >>
  OBVIOUS
<1>2. DOMAIN t = 1..2 /\ t[1][1] = a /\ t[2][1] = b /\ t[1][2] = w /\ t[2][2] = x
  BY <1>1
<1>3. \A i \in 1..2 : i = 1 \/ i = 2
  OBVIOUS
<1>4. CaseOf(t, o) = IF a THEN w ELSE IF b THEN x ELSE o
  <2>1. /\ (\A i \in 1..2 : ~t[i][1]) => CaseOf(t, o) = o
        /\ \A i \in 1..2 : t[i][1] /\ (\A j \in 1..2 : j < i => ~t[j][1]) => CaseOf(t, o) = t[i][2]
    BY <1>2, FirstClause
  <2>2. CASE a
    <3>1. 1 \in 1..2 /\ t[1][1] /\ \A j \in 1..2 : j < 1 => ~t[j][1]
      BY <1>2, <1>3, <2>2
    <3> QED BY <1>2, <2>1, <2>2, <3>1
  <2>3. CASE ~a /\ b
    <3>1. 2 \in 1..2 /\ t[2][1] /\ \A j \in 1..2 : j < 2 => ~t[j][1]
      BY <1>2, <1>3, <2>3
    <3> QED BY <1>2, <2>1, <2>3, <3>1
  <2>4. CASE ~a /\ ~b
    <3>1. \A i \in 1..2 : ~t[i][1]
      BY <1>2, <1>3, <2>4
    <3> QED BY <2>1, <2>4, <3>1
  <2> QED BY <2>2, <2>3, <2>4
<1> QED BY <1>1, <1>4

LEMMA WorkCaseIs ==
  ASSUME NEW w \in WorkRow PROVE WorkCase(w) = WorkWord(w) /\ WorkTone(w) = Tones[WorkWord(w)]
         /\ WorkWord(w) \in {"pending_grading", "graded", "review_required", "failed"}
<1>1. PICK a \in BOOLEAN : a = (w.broken \/ w.gs = "system_error")
  BY DEF WorkRow
<1>2. PICK b \in BOOLEAN : b = (w.gs = "waiting")
  OBVIOUS
<1>3. PICK c \in BOOLEAN : c = w.flagged
  BY DEF WorkRow
<1>4. PICK d \in BOOLEAN : d = w.scored
  BY DEF WorkRow
<1>5. WorkCase(w) = CaseOf(<< <<a, "failed">>, <<b, "pending_grading">>, <<c, "review_required">>,
                              <<d, "graded">> >>, "pending_grading")
  BY <1>1, <1>2, <1>3, <1>4 DEF WorkCase
<1>6. WorkTone(w) = CaseOf(<< <<a, "danger">>, <<b, "warning">>, <<c, "info">>,
                              <<d, "success">> >>, "warning")
  BY <1>1, <1>2, <1>3, <1>4 DEF WorkTone
<1>7. WorkWord(w) = IF a THEN "failed" ELSE IF b THEN "pending_grading"
                    ELSE IF c THEN "review_required" ELSE IF d THEN "graded" ELSE "pending_grading"
  BY <1>1, <1>2, <1>3, <1>4 DEF WorkWord
<1>8. WorkCase(w) = WorkWord(w)
  BY <1>5, <1>7, FourClauses
<1>9. WorkTone(w) = IF a THEN "danger" ELSE IF b THEN "warning" ELSE IF c THEN "info"
                    ELSE IF d THEN "success" ELSE "warning"
  BY <1>6, FourClauses
<1>10. WorkTone(w) = Tones[WorkWord(w)]
  BY <1>7, <1>9 DEF Tones
<1> QED BY <1>7, <1>8, <1>10

LEMMA OtherCasesAre ==
  /\ \A a : AttemptCase(a) = AttemptWord(a)
  /\ \A r : ReportCase(r) = ReportWord(r)
<1>1. ASSUME NEW a PROVE AttemptCase(a) = AttemptWord(a)
  <2>1. PICK b \in BOOLEAN : b = (a = "review_required")
    OBVIOUS
  <2>2. PICK c \in BOOLEAN : c = (a = "graded")
    OBVIOUS
  <2>3. AttemptCase(a) = CaseOf(<< <<b, "review_required">>, <<c, "graded">> >>, "pending_grading")
    BY <2>1, <2>2 DEF AttemptCase
  <2>4. AttemptCase(a) = IF b THEN "review_required" ELSE IF c THEN "graded" ELSE "pending_grading"
    BY <2>3, TwoClauses
  <2> QED BY <2>1, <2>2, <2>4 DEF AttemptWord
<1>2. ASSUME NEW r PROVE ReportCase(r) = ReportWord(r)
  <2>1. PICK b \in BOOLEAN : b = (r # "scored")
    OBVIOUS
  <2>2. ReportCase(r) = CaseOf(<< <<b, "pending_grading">> >>, "graded")
    BY <2>1 DEF ReportCase
  <2>3. ReportCase(r) = IF b THEN "pending_grading" ELSE "graded"
    BY <2>2, OneClause
  <2> QED BY <2>1, <2>3 DEF ReportWord
<1> QED BY <1>1, <1>2

-----------------------------------------------------------------------------
(* The pages agree.                                                         *)

LEMMA SetsFinite ==
  ASSUME PageInv
  PROVE  /\ IsFiniteSet(Works) /\ IsFiniteSet(Began) /\ IsFiniteSet(Reports) /\ IsFiniteSet(GradeRows)
         /\ Effective \in SUBSET Pupils /\ roster.enrolled \in SUBSET Pupils
<1>1. IsFiniteSet(Pupils) /\ IsFiniteSet(Pupils \X Exercises)
  BY PagesAssumption, FS_Product
<1>2. Works \in SUBSET (Pupils \X Exercises)
  BY DEF Works
<1>3. Began \in SUBSET Pupils /\ Reports \in SUBSET Pupils /\ GradeRows \in SUBSET Pupils
  BY DEF Began, Reports, GradeRows
<1>4. reach \in ReachRow /\ roster \in RosterRow
  BY DEF PageInv, PageType
<1>5. roster.enrolled \in SUBSET Pupils /\ Base \in SUBSET Pupils /\ reach.include \in SUBSET Pupils
  BY <1>4 DEF Base, ReachRow, RosterRow
<1>6. Effective \in SUBSET Pupils
  BY <1>5 DEF Effective
<1> QED BY <1>1, <1>2, <1>3, <1>5, <1>6, FS_Subset

\* The figures of the submission centre add up.
LEMMA TallyAddsUp ==
  ASSUME PageInv
  PROVE  Tally("pending_grading") + Tally("graded") + Tally("review_required") + Tally("failed") = AllRows
<1> DEFINE key == [s \in Pupils |-> AttemptCase(attempt[s])]
           note == [s \in Pupils |-> ReportCase(report[s])]
           W(k) == HowMany(Works, CentreWords, k)
           A(k) == HowMany(Began, key, k)
           R(k) == HowMany(Reports, note, k)
<1>1. \A p \in Works : CentreWords[p] \in {"pending_grading", "graded", "review_required", "failed"}
  <2>1. TAKE p \in Works
  <2>2. work[p] \in WorkRow /\ CentreWords[p] = WorkCase(work[p])
    BY DEF PageInv, PageType, Works, CentreWords
  <2> QED BY <2>2, WorkCaseIs
<1>2. \A s \in Began : key[s] \in {"pending_grading", "graded", "review_required", "failed"}
  BY OtherCasesAre DEF AttemptWord, Began
<1>3. \A s \in Reports : note[s] \in {"pending_grading", "graded", "review_required", "failed"}
  BY OtherCasesAre DEF ReportWord, Reports
<1>4. \A k : /\ {s \in Began : key[s] = k} = {s \in Began : AttemptCase(attempt[s]) = k}
             /\ {s \in Reports : note[s] = k} = {s \in Reports : ReportCase(report[s]) = k}
  BY DEF Began, Reports
<1>5. \A k : Tally(k) = W(k) + A(k) + R(k)
  BY <1>4 DEF Tally, HowMany
<1> HIDE DEF key, note
<1>6. /\ W("pending_grading") \in Nat /\ W("graded") \in Nat /\ W("review_required") \in Nat /\ W("failed") \in Nat
      /\ Cardinality(Works) = W("pending_grading") + W("graded") + W("review_required") + W("failed")
  BY <1>1, SetsFinite, FourParts
<1>7. /\ A("pending_grading") \in Nat /\ A("graded") \in Nat /\ A("review_required") \in Nat /\ A("failed") \in Nat
      /\ Cardinality(Began) = A("pending_grading") + A("graded") + A("review_required") + A("failed")
  BY <1>2, SetsFinite, FourParts
<1>8. /\ R("pending_grading") \in Nat /\ R("graded") \in Nat /\ R("review_required") \in Nat /\ R("failed") \in Nat
      /\ Cardinality(Reports) = R("pending_grading") + R("graded") + R("review_required") + R("failed")
  BY <1>3, SetsFinite, FourParts
<1>9. AllRows = Cardinality(Works) + Cardinality(Began) + Cardinality(Reports)
  BY DEF AllRows
<1> HIDE DEF W, A, R
<1> QED BY <1>5, <1>6, <1>7, <1>8, <1>9

LEMMA WordsAlike == ASSUME PageInv PROVE WordsAgree
<1>1. \A p \in Works : Recent[p] = CentreWords[p] /\ Tones[Recent[p]] = WorkTone(work[p])
  <2>1. TAKE p \in Works
  <2>2. work[p] \in WorkRow
    BY DEF PageInv, PageType, Works
  <2>3. CentreWords[p] = WorkCase(work[p]) /\ Recent[p] = WorkWord(work[p])
    BY DEF CentreWords, Recent
  <2> QED BY <2>2, <2>3, WorkCaseIs
<1> QED BY <1>1, OtherCasesAre, TallyAddsUp DEF WordsAgree

LEMMA RangesAlike == ASSUME PageInv PROVE RangesAgree
<1>1. \A s \in Pupils : (issued => (Visible(s) <=> s \in Effective)) /\ (OnGradesPage(s) <=> s \in Effective)
  BY DEF Visible, OnGradesPage, Effective
<1>2. ExpectedCount = Cardinality(Effective)
  <2>1. CASE reach.mode = "all_enrolled" /\ reach.include = {} /\ reach.exclude = {}
    <3>1. Effective = roster.enrolled
      BY <2>1 DEF Effective, Base
    <3> QED BY <2>1, <3>1 DEF ExpectedCount
  <2> QED BY <2>1 DEF ExpectedCount
<1> QED BY <1>1, <1>2 DEF RangesAgree

LEMMA ShownAlikeHolds == ASSUME PageInv PROVE ShownAlike
<1>1. SUFFICES ASSUME NEW s \in Pupils, attempt[s] # "none", ~overtaken PROVE MyGrade(s) = Session(s)
  BY DEF ShownAlike
<1>2. s \in Began
  BY <1>1 DEF Began
<1>3. ShownTogether(show)
  BY <1>1, <1>2 DEF PageInv, ExamShown
<1>4. (released /\ "answers" \in show) <=> (released /\ {"questions", "answers"} \subseteq show)
  BY <1>3 DEF ShownTogether
<1>5. (attempt[s] = "graded" /\ "score" \in show) <=> ("score" \in show /\ attempt[s] = "graded")
  OBVIOUS
<1> QED BY <1>4, <1>5 DEF MyGrade, Session

LEMMA AnswersAfterHolds == ASSUME PageInv PROVE AnswersAfterExam
<1>1. SUFFICES ASSUME NEW s \in Pupils, NEW t \in Pupils, SeesAnswers(s), ~reopened, ~overtaken
               PROVE  ~CanStart(t) /\ attempt[t] # "started"
  BY DEF AnswersAfterExam
<1>2. released
  BY <1>1 DEF SeesAnswers, Session, MyGrade
<1>3. close <= hour /\ attempt[t] # "started" /\ close \in Nat /\ hour \in Nat
      /\ attempt[t] \in AttemptStates
  BY <1>1, <1>2 DEF PageInv, PageType, OverWhenReleased
<1>4. hour >= close
  BY <1>3
<1> QED BY <1>3, <1>4 DEF CanStart, ExamStatus, AttemptStates

\* The grades page.
LEMMA StatusIs ==
  ASSUME PageInv, NEW s \in Pupils
  PROVE  /\ GradeStatus(s) = ExamStatus(s) /\ ExamStatus(s) \in StatusKeys
         /\ \A key \in StatusKeys : GradeFilter(s, key) <=> ExamStatus(s) = key
         /\ attempt[s] \in CompletedStatuses <=> ExamStatus(s) \in CompletedStatuses
<1>1. attempt[s] \in AttemptStates /\ hour \in Nat /\ close \in Nat /\ OpensAt = 1 /\ OpensAt < close
  BY DEF PageInv, PageType, OpensAt
<1>2. PICK a \in BOOLEAN : a = (attempt[s] # "none")
  OBVIOUS
<1>3. PICK b \in BOOLEAN : b = (OpensAt > hour)
  <2>1. (OpensAt > hour) \in BOOLEAN
    BY <1>1
  <2> QED BY <2>1, Zenon
<1>4. PICK c \in BOOLEAN : c = (close <= hour)
  <2>1. (close <= hour) \in BOOLEAN
    BY <1>1
  <2> QED BY <2>1, Zenon
<1>5. PICK w : w = IF attempt[s] = "started" THEN "in_progress" ELSE attempt[s]
  OBVIOUS
<1>6. GradeStatus(s) = CaseOf(<< <<a, w>>, <<b, "scheduled">>, <<c, "missed">> >>, "ready")
  BY <1>2, <1>3, <1>4, <1>5 DEF GradeStatus
<1>7. GradeStatus(s) = IF a THEN w ELSE IF b THEN "scheduled" ELSE IF c THEN "missed" ELSE "ready"
  BY <1>6, ThreeClauses
<1>8. (b <=> hour < OpensAt) /\ (c <=> hour >= close) /\ (~b <=> OpensAt <= hour) /\ (~c <=> close > hour)
  <2>1. (b <=> OpensAt > hour) /\ (c <=> close <= hour)
    BY <1>3, <1>4, Zenon
  <2> QED BY <1>1, <2>1
<1>9. ExamStatus(s) = IF a THEN w ELSE IF b THEN "scheduled" ELSE IF c THEN "missed" ELSE "ready"
  BY <1>2, <1>5, <1>8 DEF ExamStatus
<1>10. ExamStatus(s) \in StatusKeys /\ (attempt[s] \in CompletedStatuses <=> ExamStatus(s) \in CompletedStatuses)
  BY <1>1, <1>2, <1>5, <1>9 DEF StatusKeys, AttemptStates, CompletedStatuses
<1>11. ASSUME NEW key \in StatusKeys PROVE GradeFilter(s, key) <=> ExamStatus(s) = key
  <2>1. GradeFilter(s, key) <=>
          \/ key = "in_progress" /\ attempt[s] = "started"
          \/ key = "scheduled" /\ attempt[s] = "none" /\ OpensAt > hour
          \/ key = "ready" /\ attempt[s] = "none" /\ OpensAt <= hour /\ close > hour
          \/ key = "missed" /\ attempt[s] = "none" /\ close <= hour
          \/ key \notin {"in_progress", "scheduled", "ready", "missed"} /\ attempt[s] = key
    BY <1>11 DEF GradeFilter
  <2>2. c => ~b
    BY <1>1, <1>8
  <2> QED BY <1>1, <1>2, <1>3, <1>4, <1>5, <1>8, <1>9, <1>11, <2>1, <2>2 DEF StatusKeys, AttemptStates
<1> QED BY <1>7, <1>9, <1>10, <1>11

\* The counts of the grades page, added up.
LEMMA StatusSum ==
  ASSUME PageInv, NEW S, IsFiniteSet(S)
  PROVE  MapThenSumSet(StatusCount, S) = Cardinality({s \in GradeRows : GradeStatus(s) \in S})
<1> DEFINE f == [k \in S |-> StatusCount(k)]
           iter == CHOOSE it : it = [s \in SUBSET S |->
                      IF s = {} THEN 0 ELSE StatusCount(Chosen(s)) + it[s \ {Chosen(s)}]]
           key == [s \in GradeRows |-> GradeStatus(s)]
<1>1. \A k \in S : f[k] = HowMany(GradeRows, key, k)
  <2>1. \A k \in S : {s \in GradeRows : key[s] = k} = {s \in GradeRows : GradeStatus(s) = k}
    OBVIOUS
  <2> HIDE DEF key
  <2> QED BY <2>1 DEF StatusCount, HowMany
<1>2. f \in [S -> Nat]
  <2>1. \A k \in S : StatusCount(k) \in Nat
    <3>1. \A k : {s \in GradeRows : GradeStatus(s) = k} \in SUBSET GradeRows
      OBVIOUS
    <3> QED BY <3>1, SetsFinite, FS_Subset, FS_CardinalityType DEF StatusCount
  <2> QED BY <2>1
<1>3. PICK g \in [SUBSET S -> Nat] : \A s \in SUBSET S : Adds(g, f, s)
  <2> HIDE DEF f
  <2> QED BY <1>2, FoldExists
<1>4. \A s \in SUBSET S : s # {} => Chosen(s) \in S /\ f[Chosen(s)] = StatusCount(Chosen(s))
  BY DEF Chosen
<1>5. g = [s \in SUBSET S |-> IF s = {} THEN 0 ELSE StatusCount(Chosen(s)) + g[s \ {Chosen(s)}]]
  <2> HIDE DEF f
  <2> QED BY <1>3, <1>4 DEF Adds
<1>6. iter = [s \in SUBSET S |-> IF s = {} THEN 0 ELSE StatusCount(Chosen(s)) + iter[s \ {Chosen(s)}]]
  BY <1>5
<1>7. \A s \in SUBSET S : Adds(iter, f, s)
  <2> HIDE DEF iter, f
  <2> QED BY <1>4, <1>6 DEF Adds
<1>8. iter[S] = Among(GradeRows, key, S)
  <2> HIDE DEF iter, f, key
  <2> QED BY <1>1, <1>7, SetsFinite, SumOfParts
<1>9. {s \in GradeRows : key[s] \in S} = {s \in GradeRows : GradeStatus(s) \in S}
  OBVIOUS
<1>10. MapThenSumSet(StatusCount, S) = iter[S]
  BY DEF MapThenSumSet, MapThenFoldSet, Chosen
<1> HIDE DEF iter, key
<1> QED BY <1>8, <1>9, <1>10 DEF Among

LEMMA SmallSetsFinite ==
  /\ IsFiniteSet(StatusKeys) /\ IsFiniteSet(CompletedStatuses)
<1>1. \A x, y, z, w : IsFiniteSet({x, y, z, w})
  <2>1. ASSUME NEW x, NEW y, NEW z, NEW w PROVE IsFiniteSet({x, y, z, w})
    <3>1. IsFiniteSet({x})
      BY FS_Singleton
    <3>2. IsFiniteSet({x} \cup {y})
      BY <3>1, FS_AddElement
    <3>3. IsFiniteSet({x} \cup {y} \cup {z})
      BY <3>2, FS_AddElement
    <3>4. IsFiniteSet({x} \cup {y} \cup {z} \cup {w})
      BY <3>3, FS_AddElement
    <3>5. {x} \cup {y} \cup {z} \cup {w} = {x, y, z, w}
      OBVIOUS
    <3> QED BY <3>4, <3>5
  <2> QED BY <2>1
<1>2. StatusKeys = {"scheduled", "ready", "in_progress", "missed"}
                   \cup {"submitted", "grading", "graded", "review_required"}
  BY DEF StatusKeys
<1> QED BY <1>1, <1>2, FS_Union DEF CompletedStatuses

LEMMA GradesAlike == ASSUME PageInv PROVE GradesAgree
<1>1. \A s \in GradeRows : s \in Pupils
  BY DEF GradeRows
<1>2. \A s \in GradeRows : /\ GradeStatus(s) = ExamStatus(s)
                           /\ \A key \in StatusKeys : GradeFilter(s, key) <=> ExamStatus(s) = key
  BY <1>1, StatusIs
<1>3. MapThenSumSet(StatusCount, StatusKeys) = Cardinality(GradeRows)
  <2>1. {s \in GradeRows : GradeStatus(s) \in StatusKeys} = GradeRows
    BY <1>1, StatusIs
  <2> QED BY <2>1, StatusSum, SmallSetsFinite
<1>4. ExpectedInStatistics <= Cardinality(GradeRows)
  <2>1. \A s \in Effective : s \in Pupils /\ OnGradesPage(s)
    BY SetsFinite, RangesAlike DEF RangesAgree
  <2>2. Effective \in SUBSET GradeRows /\ Began \in SUBSET GradeRows
    BY <2>1 DEF GradeRows, Began
  <2>3. Cardinality(Effective) <= Cardinality(GradeRows) /\ Cardinality(Began) <= Cardinality(GradeRows)
    BY <2>2, SetsFinite, FS_Subset
  <2> QED BY <2>3 DEF ExpectedInStatistics
<1>5. MapThenSumSet(StatusCount, CompletedStatuses) = Participants
  <2>1. \A s \in Pupils : attempt[s] \in CompletedStatuses => s \in GradeRows
    BY DEF CompletedStatuses, GradeRows
  <2>2. {s \in GradeRows : GradeStatus(s) \in CompletedStatuses} = {s \in Pupils : attempt[s] \in CompletedStatuses}
    BY <1>1, <2>1, StatusIs
  <2> QED BY <2>2, StatusSum, SmallSetsFinite DEF Participants
<1>6. hour \in Nat /\ close \in Nat /\ OpensAt < close /\ OpensAt = 1
  BY DEF PageInv, PageType, OpensAt
<1>7. Cardinality({key \in {"draft", "published", "ended"} : InFilter(key)}) = 1
  <2>1. /\ InFilter("draft") <=> ~issued
        /\ InFilter("published") <=> issued /\ close >= hour
        /\ InFilter("ended") <=> issued /\ close < hour
    BY DEF InFilter
  <2>2. close >= hour <=> ~(close < hour)
    BY <1>6
  <2>3. \E x : {key \in {"draft", "published", "ended"} : InFilter(key)} = {x}
    <3>1. CASE ~issued
      <4>1. {key \in {"draft", "published", "ended"} : InFilter(key)} = {"draft"}
        BY <2>1, <3>1
      <4> QED BY <4>1
    <3>2. CASE issued /\ close >= hour
      <4>1. {key \in {"draft", "published", "ended"} : InFilter(key)} = {"published"}
        BY <2>1, <2>2, <3>2
      <4> QED BY <4>1
    <3>3. CASE issued /\ close < hour
      <4>1. {key \in {"draft", "published", "ended"} : InFilter(key)} = {"ended"}
        BY <2>1, <2>2, <3>3
      <4> QED BY <4>1
    <3> QED BY <2>2, <3>1, <3>2, <3>3
  <2> QED BY <2>3, FS_Singleton
<1>8. InFilter("ended") => \A s \in Pupils : ExamStatus(s) \notin {"scheduled", "ready"}
  <2>1. InFilter("ended") => close < hour
    BY DEF InFilter
  <2>2. close < hour => hour >= OpensAt /\ hour >= close /\ ~(hour < OpensAt)
    BY <1>6
  <2>3. \A s \in Pupils : attempt[s] \in AttemptStates
    BY DEF PageInv, PageType
  <2> QED BY <2>1, <2>2, <2>3 DEF ExamStatus, AttemptStates
<1> QED BY <1>2, <1>3, <1>4, <1>5, <1>7, <1>8 DEF GradesAgree

LEMMA ReportsAlike == ASSUME PageInv PROVE ReportsAgree
<1>1. \A s \in Reports : s \in Pupils /\ report[s] \in {"submitted", "commented", "scored"}
  BY DEF PageInv, PageType, ReportStates, Reports
<1>2. ASSUME NEW teacher \in {"of the course", "of the module"}
      PROVE  /\ \A s \in Reports : s \in ReportList(teacher, "all") <=> OwnsRecord(teacher)
             /\ \A status \in {"all", "pending", "graded"} :
                  ReportSummary(teacher)[status] = Cardinality(ReportList(teacher, status))
             /\ \A s \in ReportList(teacher, "all") :
                  s \in ReportList(teacher, "pending") <=> ReportCase(report[s]) = "pending_grading"
  <2>1. TeacherSees(teacher) <=> OwnsRecord(teacher)
    BY <1>2 DEF TeacherSees, OwnsRecord
  <2> DEFINE seen == {s \in Reports : TeacherSees(teacher)}
             pending == {s \in Reports : TeacherSees(teacher) /\ report[s] # "scored"}
             graded == {s \in Reports : TeacherSees(teacher) /\ report[s] = "scored"}
  <2>2. /\ ReportList(teacher, "all") = seen /\ ReportList(teacher, "pending") = pending
        /\ ReportList(teacher, "graded") = graded
    BY DEF ReportList
  <2>3. /\ ReportSummary(teacher).all = Cardinality(seen)
        /\ ReportSummary(teacher).pending = Cardinality(pending)
        /\ ReportSummary(teacher).graded = Cardinality(seen) - Cardinality(pending)
    BY DEF ReportSummary
  <2>4. seen = pending \cup graded /\ pending \cap graded = {} /\ seen \in SUBSET Reports
    OBVIOUS
  <2>5. \A s \in seen : s \in pending <=> ReportCase(report[s]) = "pending_grading"
    BY OtherCasesAre DEF ReportWord
  <2>6. \A s \in Reports : s \in seen <=> OwnsRecord(teacher)
    BY <2>1
  <2> HIDE DEF seen, pending, graded
  <2>7. IsFiniteSet(seen)
    BY <2>4, SetsFinite, FS_Subset
  <2>8. IsFiniteSet(pending \cup graded)
    BY <2>4, <2>7
  <2>9. Cardinality(seen) - Cardinality(pending) = Cardinality(graded)
    BY <2>4, <2>8, TwoParts
  <2> QED BY <2>2, <2>3, <2>5, <2>6, <2>9
<1>3. Unreviewed \subseteq ReportList("of the course", "pending")
  BY DEF Unreviewed, Reports, ReportList, TeacherSees
<1> QED BY <1>2, <1>3 DEF ReportsAgree

LEMMA StudentAlike == ASSUME PageInv PROVE StudentAgrees
<1>1. Effective \in SUBSET Pupils /\ IsFiniteSet(Exercises) /\ Exercises # {}
  BY SetsFinite, PagesAssumption
<1>2. hour \in Nat /\ close \in Nat /\ OpensAt = 1 /\ OpensAt < close /\ topic \in Topics
      /\ public \in BOOLEAN /\ issued \in BOOLEAN
  BY DEF PageInv, PageType, OpensAt
<1>3. DeadlineStats[1] = Cardinality({s \in Effective : IsSubmitted(s)})
  <2> DEFINE answered(s) == {q \in Exercises : <<s, q>> \in Works}
  <2>1. ASSUME NEW s \in Pupils
        PROVE  Cardinality(answered(s)) >= Cardinality(Exercises) <=> IsSubmitted(s)
    <3>1. \A q \in Exercises : <<s, q>> \in Works <=> work[<<s, q>>] # NoWork
      BY DEF Works
    <3>2. answered(s) = Exercises <=> IsSubmitted(s)
      BY <1>1, <3>1 DEF IsSubmitted
    <3>3. answered(s) \in SUBSET Exercises
      OBVIOUS
    <3> HIDE DEF answered
    <3>4. PICK m \in Nat, k \in Nat : m = Cardinality(answered(s)) /\ k = Cardinality(Exercises)
      BY <1>1, <3>3, FS_Subset, FS_CardinalityType
    <3>5. m <= k /\ (m = k => answered(s) = Exercises) /\ (answered(s) = Exercises => m = k)
      BY <1>1, <3>3, <3>4, FS_Subset
    <3>6. m >= k <=> m = k
      BY <3>4, <3>5
    <3> QED BY <3>2, <3>4, <3>5, <3>6
  <2> DEFINE done == {s \in Pupils : Cardinality(answered(s)) >= Cardinality(Exercises)}
  <2>2. DeadlineStats[1] = Cardinality(done \cap Effective)
    BY DEF DeadlineStats
  <2> HIDE DEF answered
  <2>3. done \cap Effective = {s \in Effective : IsSubmitted(s)}
    BY <1>1, <2>1
  <2> QED BY <2>2, <2>3
<1>4. ASSUME NEW s \in Pupils, issued
      PROVE  /\ topic = "assignment" => /\ ToDo(s) <=> ListedTo(s) /\ ~IsSubmitted(s)
                                        /\ ToDo(s) /\ hour < close => MayHandIn(s)
             /\ topic = "exam" /\ ListedTo(s) /\ CanStart(s) => ToCome(s) /\ MaySit(s)
             /\ ToCome(s) => ExamStatus(s) \in {"scheduled", "ready", "in_progress", "review_required"}
             /\ OnCourseList(s) => CourseCard(s).todo = ToDo(s) /\ CourseCard(s).tocome = ToCome(s)
             /\ UnderWay(s) => GoOnWith(s) = "notebook"
             /\ \A q \in Exercises : <<"assignment", q>> \in Feedback(s) =>
                  WorkWord(work[<<s, q>>]) \in {"graded", "review_required"}
  <2>1. Visible(s) <=> s \in Effective
    BY <1>4, RangesAlike DEF RangesAgree
  <2>2. attempt[s] \in AttemptStates
    BY DEF PageInv, PageType
  <2>3. topic = "assignment" => /\ ToDo(s) <=> ListedTo(s) /\ ~IsSubmitted(s)
                                /\ ToDo(s) /\ hour < close => MayHandIn(s)
    BY <1>1, <1>4, <2>1 DEF ToDo, ListedTo, IsSubmitted, MayHandIn
  <2>4. ExamStatus(s) = "ready" => /\ attempt[s] = "none" /\ OpensAt <= hour /\ hour < close /\ close > hour
    BY <1>2, <2>2 DEF ExamStatus, AttemptStates
  <2>5. topic = "exam" /\ ListedTo(s) /\ CanStart(s) => ToCome(s) /\ MaySit(s)
    BY <1>4, <2>1, <2>4 DEF ListedTo, CanStart, ToCome, MaySit
  <2>6. ToCome(s) => ExamStatus(s) \in {"scheduled", "ready", "in_progress", "review_required"}
    <3>1. OpensAt > hour \/ close > hour => hour < OpensAt \/ ~(hour >= close)
      BY <1>2
    <3> QED BY <2>2, <3>1 DEF ToCome, ExamStatus, AttemptStates
  <2>7. OnCourseList(s) => CourseCard(s).todo = ToDo(s) /\ CourseCard(s).tocome = ToCome(s)
    <3>1. SUFFICES ASSUME public = TRUE PROVE CourseCard(s).todo = ToDo(s) /\ CourseCard(s).tocome = ToCome(s)
      BY <1>2 DEF OnCourseList
    <3> QED BY <3>1 DEF CourseCard, ToDo, ToCome
  <2>8. UnderWay(s) => GoOnWith(s) = "notebook"
    BY DEF UnderWay, GoOnWith
  <2>9. ASSUME NEW q \in Exercises, <<"assignment", q>> \in Feedback(s)
        PROVE  WorkWord(work[<<s, q>>]) \in {"graded", "review_required"}
    <3>1. work[<<s, q>>].gs = "completed" /\ work[<<s, q>>].scored
      BY <2>9 DEF Feedback
    <3>2. ~work[<<s, q>>].broken /\ work[<<s, q>>] \in WorkRow
      BY <3>1 DEF PageInv, PageType, CompletedRan
    <3> QED BY <3>1, <3>2 DEF WorkWord
  <2> QED BY <2>3, <2>5, <2>6, <2>7, <2>8, <2>9
<1> QED BY <1>3, <1>4 DEF StudentAgrees

\* The lines of the dashboard, added up.
Lines(kinds) == {i \in WorkItems : i.kind \in kinds}

LEMMA CountIs ==
  ASSUME NEW kinds, IsFiniteSet(Lines(kinds)), \A i \in Lines(kinds) : i.count \in Nat
  PROVE  /\ Lines(kinds) = {} => CountOf(kinds) = 0
         /\ \A a : Lines(kinds) = {a} => CountOf(kinds) = a.count
         /\ \A a, b : Lines(kinds) = {a, b} /\ a # b => CountOf(kinds) = a.count + b.count
<1> DEFINE S == Lines(kinds)
           f == [i \in S |-> i.count]
           iter == CHOOSE it : it = [s \in SUBSET S |->
                      IF s = {} THEN 0 ELSE Chosen(s).count + it[s \ {Chosen(s)}]]
<1>1. f \in [S -> Nat]
  OBVIOUS
<1>2. PICK g \in [SUBSET S -> Nat] : \A s \in SUBSET S : Adds(g, f, s)
  <2> HIDE DEF f, S
  <2>1. IsFiniteSet(S)
    BY DEF S
  <2> QED BY <1>1, <2>1, FoldExists
<1>3. \A s \in SUBSET S : s # {} => Chosen(s) \in S /\ f[Chosen(s)] = Chosen(s).count
  BY DEF Chosen
<1> HIDE DEF S
<1>4. g = [s \in SUBSET S |-> IF s = {} THEN 0 ELSE Chosen(s).count + g[s \ {Chosen(s)}]]
  <2> HIDE DEF f
  <2> QED BY <1>2, <1>3 DEF Adds
<1>5. iter = [s \in SUBSET S |-> IF s = {} THEN 0 ELSE Chosen(s).count + iter[s \ {Chosen(s)}]]
  BY <1>4
<1>6. \A s \in SUBSET S : Adds(iter, f, s)
  <2> HIDE DEF iter, f
  <2> QED BY <1>3, <1>5 DEF Adds
<1>7. CountOf(kinds) = iter[S]
  BY DEF CountOf, MapThenSumSet, MapThenFoldSet, Chosen, S, Lines
<1>8. \A i \in S : f[i] = i.count
  OBVIOUS
<1>9. /\ iter[{}] = 0 /\ \A a \in S : iter[{a}] = f[a]
      /\ \A a, b \in S : a # b => iter[{a, b}] = f[a] + f[b]
  <2> HIDE DEF iter, f
  <2>1. iter[{}] = 0
    BY <1>6, NoneSum
  <2>2. ASSUME NEW a \in S PROVE iter[{a}] = f[a]
    <3>1. AddsOne(iter, f, a)
      BY <1>1, <1>6, <2>2, OneSum
    <3> QED BY <3>1 DEF AddsOne
  <2>3. ASSUME NEW a \in S, NEW b \in S, a # b PROVE iter[{a, b}] = f[a] + f[b]
    BY <1>1, <1>6, <2>3, TwoSum
  <2> QED BY <2>1, <2>2, <2>3
<1>10. S = Lines(kinds)
  BY DEF S
<1> HIDE DEF iter, f
<1>11. Lines(kinds) = {} => CountOf(kinds) = 0
  BY <1>7, <1>9, <1>10
<1>12. \A a : Lines(kinds) = {a} => CountOf(kinds) = a.count
  BY <1>7, <1>8, <1>9, <1>10
<1>13. \A a, b : Lines(kinds) = {a, b} /\ a # b => CountOf(kinds) = a.count + b.count
  <2>1. SUFFICES ASSUME NEW a, NEW b, Lines(kinds) = {a, b}, a # b
                 PROVE  CountOf(kinds) = a.count + b.count
    OBVIOUS
  <2>2. a \in S /\ b \in S /\ CountOf(kinds) = iter[{a, b}]
    BY <1>7, <1>10, <2>1
  <2>3. iter[{a, b}] = f[a] + f[b]
    BY <1>9, <2>1, <2>2
  <2> QED BY <1>8, <2>2, <2>3
<1> QED BY <1>11, <1>12, <1>13

LEMMA OneLine ==
  ASSUME NEW kinds, NEW a, a.count \in Nat, Lines(kinds) = {i \in {a} : i.count > 0}
  PROVE  CountOf(kinds) = a.count
<1>1. CASE a.count > 0
  <2>1. Lines(kinds) = {a} /\ IsFiniteSet({a})
    BY <1>1, FS_Singleton
  <2> QED BY <2>1, CountIs
<1>2. CASE a.count = 0
  <2>1. Lines(kinds) = {} /\ IsFiniteSet({})
    BY <1>2, FS_EmptySet
  <2> QED BY <1>2, <2>1, CountIs
<1> QED BY <1>1, <1>2

LEMMA TwoLines ==
  ASSUME NEW kinds, NEW a, NEW b, a # b, a.count \in Nat, b.count \in Nat,
         Lines(kinds) = {i \in {a, b} : i.count > 0}
  PROVE  CountOf(kinds) = a.count + b.count
<1>1. CASE a.count > 0 /\ b.count > 0
  <2>1. Lines(kinds) = {a, b} /\ {a, b} = {a} \cup {b} /\ IsFiniteSet({a})
    BY <1>1, FS_Singleton
  <2>2. IsFiniteSet(Lines(kinds)) /\ \A i \in Lines(kinds) : i.count \in Nat
    BY <2>1, FS_AddElement
  <2> QED BY <2>1, <2>2, CountIs
<1>2. CASE a.count = 0
  <2>1. Lines(kinds) = {i \in {b} : i.count > 0}
    BY <1>2
  <2> QED BY <1>2, <2>1, OneLine
<1>3. CASE b.count = 0
  <2>1. Lines(kinds) = {i \in {a} : i.count > 0}
    BY <1>3
  <2> QED BY <1>3, <2>1, OneLine
<1> QED BY <1>1, <1>2, <1>3

LEMMA CountsAlike == ASSUME PageInv PROVE CountsAgree
<1>1. PICK e \in Nat : e = Cardinality(Unreviewed)
  <2>1. Unreviewed \in SUBSET Pupils
    BY DEF Unreviewed
  <2> QED BY <2>1, PagesAssumption, FS_Subset, FS_CardinalityType
<1>2. PICK v \in Nat : v = Cardinality(Flagged)
  <2>1. Flagged \in SUBSET Works
    BY DEF Flagged
  <2> QED BY <2>1, SetsFinite, FS_Subset, FS_CardinalityType
<1>3. PICK g \in Nat : g = Cardinality(InQueue)
  <2>1. InQueue \in SUBSET Works
    BY DEF InQueue
  <2> QED BY <2>1, SetsFinite, FS_Subset, FS_CardinalityType
<1>4. PICK r \in Nat : r = IF ToRelease THEN 1 ELSE 0
  OBVIOUS
<1>5. PICK d \in Nat : d = IF DueSoon /\ ~AllDone THEN 1 ELSE 0
  OBVIOUS
<1>6. PICK l1, l2, l3, l4, l5 :
        /\ l1 = [kind |-> "experiment_review", count |-> e]
        /\ l2 = [kind |-> "assignment_grading", count |-> g]
        /\ l3 = [kind |-> "ai_review", count |-> v]
        /\ l4 = [kind |-> "exam_release", count |-> r]
        /\ l5 = [kind |-> "deadline", count |-> d]
  OBVIOUS
<1>7. WorkItems = {i \in {l1, l2, l3, l4, l5} : i.count > 0}
  BY <1>1, <1>2, <1>3, <1>4, <1>5, <1>6 DEF WorkItems
<1>8. /\ l1.kind = "experiment_review" /\ l2.kind = "assignment_grading" /\ l3.kind = "ai_review"
      /\ l4.kind = "exam_release" /\ l5.kind = "deadline"
      /\ l1.count = e /\ l2.count = g /\ l3.count = v /\ l4.count = r /\ l5.count = d
      /\ l1 # l2 /\ l1 # l3
  BY <1>6
<1>9. /\ Lines({"experiment_review", "assignment_grading"}) = {i \in {l1, l2} : i.count > 0}
      /\ Lines({"experiment_review", "ai_review"}) = {i \in {l1, l3} : i.count > 0}
      /\ Lines({"exam_release"}) = {i \in {l4} : i.count > 0}
      /\ Lines({"deadline"}) = {i \in {l5} : i.count > 0}
  BY <1>7, <1>8 DEF Lines
<1>10. CountOf({"experiment_review", "assignment_grading"}) = e + g
  BY <1>8, <1>9, TwoLines
<1>11. CountOf({"experiment_review", "ai_review"}) = e + v
  BY <1>8, <1>9, TwoLines
<1>12. CountOf({"exam_release"}) = r /\ CountOf({"deadline"}) = d
  BY <1>8, <1>9, OneLine
<1>13. /\ Badges.grading = e + g /\ Badges.review = e + v /\ Badges.release = r
       /\ Badges.due = IF DueSoon THEN 1 ELSE 0
       /\ CourseHealth.review = e + v /\ CourseHealth.due = IF DueSoon THEN 1 ELSE 0
  BY <1>1, <1>2, <1>3, <1>4 DEF Badges, CourseHealth
<1>14. CountOf({"deadline"}) <= Badges.due
  BY <1>5, <1>12, <1>13
<1>15. \A p \in InQueue : work[p].broken \/ CentreWords[p] = "pending_grading"
  <2>1. SUFFICES ASSUME NEW p \in InQueue, ~work[p].broken PROVE CentreWords[p] = "pending_grading"
    OBVIOUS
  <2>2. p \in Works /\ work[p] \in WorkRow /\ work[p].gs = "waiting"
    BY DEF InQueue, Works, PageInv, PageType
  <2>3. CentreWords[p] = WorkWord(work[p])
    BY <2>2, WorkCaseIs DEF CentreWords
  <2> QED BY <2>1, <2>2, <2>3 DEF WorkWord
<1>16. \A s \in Unreviewed : ReportCase(report[s]) = "pending_grading"
  BY OtherCasesAre DEF Unreviewed, ReportWord
<1> QED BY <1>10, <1>11, <1>12, <1>13, <1>14, <1>15, <1>16 DEF CountsAgree

LEMMA InvariantAgrees == ASSUME PageInv PROVE PagesAgree
BY WordsAlike, RangesAlike, GradesAlike, CountsAlike, StudentAlike, ReportsAlike,
   ShownAlikeHolds, AnswersAfterHolds DEF PagesAgree

\* For any students, questions and lists: the pages of the student, the course, the centre
\* and the statistics use the same words for the same rows, count the same students, show
\* a grade or a report alike, and show answers only after the exam, unless a start or a
\* release was overtaken between its check and its write (dashboard_service.py,
\* unified_submission_service.py, statistics_service.py, api/exams.py).
THEOREM PagesAlwaysAgree == PageSpec => []PagesAgree
BY InvariantAgrees, PageInvariant, PTL

\* The pages stay as they are while another part of the coursework moves: they agree in
\* every state of the whole (the services named above).
THEOREM PagesAreSound == CourseworkSpec => []PagesSound
<1>1. CourseworkInit => PageInv
  BY PageBegins DEF CourseworkInit
<1>2. PageInv /\ [CourseworkNext]_courseworkVars => PageInv'
  BY PagesStep DEF CourseworkNext, courseworkVars
<1>3. PageInv => PagesSound
  BY InvariantAgrees DEF PagesSound
<1> QED BY <1>1, <1>2, <1>3, PTL DEF CourseworkSpec
=============================================================================
