----------------------------- MODULE ExamProofs -----------------------------
(***************************************************************************)
(* Theorems about ExamGrading, for any numbers of questions, requests,     *)
(* scanners and workers, checked by TLAPS.  The first part needs no        *)
(* assumption.  The second one is about attempts that no teacher marks by  *)
(* hand, overrides or grades anew, and about judges that no recovery       *)
(* overtakes (Undisturbed): without it the total need not be the sum.  The *)
(* refinement at the end only needs a mark by hand not to be overtaken.    *)
(***************************************************************************)
EXTENDS ExamGrading, SumProofs, FiniteSetTheorems, TLAPS

\* Nobody marks, overrides or grades anew, and the judge is not overtaken.
Undisturbed == "judge" \notin Slow /\ Acts \subseteq {"reopen"}

Ops == {"none", "save", "handin", "scan", "extend", "retry", "judge", "recover", "ai", "manual"}
Steps == {"idle", "loaded", "claimed", "extending", "enqueue", "finalize", "locked", "promote", "promoting",
          "judging", "clearing", "completing", "creating", "asking", "scored"}
Answers == [Questions -> AnswerType]
SeenType == [sub : SubType, ans : Answers]
ProcRow == [op : Ops, step : Steps, q : SUBSET Questions, text : Texts, seen : SeenType,
            todo : SUBSET Questions, to : Statuses, total : Numbers]

TypeInv == /\ sub \in SubType /\ grade \in Numbers /\ ans \in Answers
           /\ cg \in [Questions -> GradeStatuses] /\ proc \in [Procs -> ProcRow]

-----------------------------------------------------------------------------
(* A sum of points is a number.                                             *)

LEMMA TotalType ==
  ASSUME NEW points \in [Questions -> Nat]
  PROVE  Total(points) \in Nat
<1> DEFINE iter == CHOOSE it : it = [s \in SUBSET Questions |->
                      IF s = {} THEN 0 ELSE points[Chosen(s)] + it[s \ {Chosen(s)}]]
<1>1. IsFiniteSet(Questions)
  BY ExamAssumption
<1>2. PICK g \in [SUBSET Questions -> Nat] : \A s \in SUBSET Questions : Adds(g, points, s)
  BY <1>1, FoldExists
<1>3. g = [s \in SUBSET Questions |-> IF s = {} THEN 0 ELSE points[Chosen(s)] + g[s \ {Chosen(s)}]]
  BY <1>2 DEF Adds
<1>4. iter = [s \in SUBSET Questions |-> IF s = {} THEN 0 ELSE points[Chosen(s)] + iter[s \ {Chosen(s)}]]
  BY <1>3
<1>5. \A s \in SUBSET Questions : Adds(iter, points, s)
  <2> HIDE DEF iter
  <2>1. QED
    BY <1>4 DEF Adds
<1>6. iter[Questions] \in Nat
  <2> HIDE DEF iter
  <2>1. QED
    BY <1>1, <1>5, FoldType
<1>7. Total(points) = iter[Questions]
  BY DEF Total, MapThenSumSet, MapThenFoldSet, Chosen
<1>8. QED
  BY <1>6, <1>7
-----------------------------------------------------------------------------
(* The inductive invariant that holds without assumptions.                  *)

\* A process works on, and has read, answers that exist.
Real(r, answers) ==
  /\ \A q \in r.todo : answers[q].text # "absent"
  /\ \A q \in Questions : r.seen.ans[q].text # "absent" => answers[q].text # "absent"
  /\ r.op \in {"judge", "ai"} => \A q \in r.q : answers[q].text # "absent"
  /\ r.op = "judge" => \A q \in r.q : r.seen.ans[q].text # "absent"
  /\ \A q, k \in r.q : q = k
  /\ r.step \in {"locked", "promoting"} => r.to \in {"graded", "review_required"}

\* Before the attempt is handed in, nobody has seen a graded answer.
Early == {"none", "started", "submitted"}
Fresh(r) == /\ r.op \in {"none", "save", "handin", "scan", "extend"}
            /\ r.step \in {"idle", "loaded", "claimed", "extending", "finalize"}
            /\ \A q \in Questions : r.seen.ans[q].gs = "pending"

RowsReal == /\ \A q \in Questions : ans[q].text = "absent" => ans[q] = NoAnswer /\ cg[q] = "none"
            /\ \A p \in Procs : Real(proc[p], ans)
UntouchedEarly ==
  sub.status \in Early => /\ \A q \in Questions : ans[q].gs = "pending" /\ cg[q] = "none"
                          /\ \A p \in Procs : Fresh(proc[p])

BaseInv == TypeInv /\ RowsReal /\ UntouchedEarly

-----------------------------------------------------------------------------
(* The inductive invariant of an undisturbed attempt.                       *)

NoMarks == \A p \in Procs : proc[p].op # "manual"

\* Only an answer that is completed has points.
PointsLast == \A q \in Questions : ans[q].gs # "completed" => ans[q].score = Null

\* What a judge finds when it comes back to its answer; one judge runs it.  An
\* active answer has no points before it has an AI grade.
Judges ==
  /\ \A p \in Procs : \A q \in proc[p].q :
       /\ proc[p].step = "judging" => proc[p].op = "judge" /\ ans[q].gs = "running"
       /\ proc[p].step = "clearing" => proc[p].op = "judge" /\ ans[q].gs \in {"system_error", "pending"}
       /\ proc[p].step \in {"completing", "creating"} =>
            /\ ans[q].gs = "completed" /\ Kind[q] # "choice"
            /\ Kind[q] = "active" /\ cg[q] = "none" => ans[q].score = Null
       /\ proc[p].step = "creating" => Kind[q] = "active"
  /\ \A p, r \in Procs : /\ proc[p].step = "judging" /\ proc[r].step = "judging"
                          /\ proc[p].q \cap proc[r].q # {}
                         => p = r

\* A grade is of a judged answer; an AI worker's is open, and nobody else's.
Graders ==
  /\ \A q \in Questions : cg[q] # "none" => ans[q].gs = "completed"
  /\ \A p \in Procs : proc[p].step \in {"asking", "scored"} =>
       proc[p].op = "ai" /\ \A q \in proc[p].q : cg[q] = "open"
  /\ \A p, r \in Procs : /\ proc[p].op = "ai" /\ proc[r].op = "ai"
                          /\ proc[p].q \cap proc[r].q # {}
                         => p = r

\* Nothing is on its way any more; an answer that was saved too late lies idle.
Settled ==
  \A q \in Questions :
    /\ cg[q] \notin {"open", "review_required"}
    /\ \/ ans[q].gs = "completed" /\ ans[q].score # Null
       \/ ans[q].gs = "pending" /\ \A p \in Procs : q \notin proc[p].todo
AllDone == \A q \in Questions : Written(q) => ans[q].gs = "completed"

\* What finalize and promote have read still holds when they commit.
Locks ==
  /\ \A p \in Procs : proc[p].step = "locked" =>
       /\ sub.status = "grading"
       /\ proc[p].to = "graded" => Settled /\ AllDone /\ proc[p].total = Sum(ans)
  /\ \A p, r \in Procs : proc[p].step = "locked" /\ proc[r].step = "locked" => p = r
Promotions ==
  \A p \in Procs : proc[p].step = "promoting" =>
    /\ sub.status \in {"review_required", "graded"} /\ proc[p].to = "graded"
    /\ Settled /\ AllDone /\ (\A q \in Questions : Written(q)) /\ proc[p].total = Sum(ans)

\* A closed attempt shows the sum of its points.
Published == sub.status = "graded" => Settled /\ sub.total = Sum(ans) /\ grade = sub.total

Inv == BaseInv /\ NoMarks /\ PointsLast /\ Judges /\ Graders /\ Locks /\ Promotions /\ Published

-----------------------------------------------------------------------------
(* Rows are well formed.                                                    *)

LEMMA Ranges == /\ Kind \in [Questions -> {"choice", "code", "active"}] /\ Mark \in Nat
                /\ "absent" \notin Texts /\ "blank" \in Texts /\ \A t \in Texts : Points(t) \in Nat
BY ExamAssumption DEF Texts, Points

LEMMA IdleRow ==
  /\ Idle \in ProcRow /\ NoAnswer \in AnswerType /\ NoSub \in SubType /\ Blank.ans \in Answers
  /\ Blank \in SeenType /\ Idle.seen = Blank
BY DEF Answers, AnswerType, ProcRow, Idle, Blank, Read, NoAnswer, Ops, Steps, SeenType, SubType, Statuses,
       NoSub, GradingStatuses, Numbers, Texts, Null

LEMMA Sees ==
  /\ \A s \in SubType, a \in Answers : Read(s, a) \in SeenType /\ Read(s, a).sub = s /\ Read(s, a).ans = a
  /\ \A q \in Questions, a \in AnswerType :
       /\ Only(q, a) \in Answers /\ Only(q, a)[q] = a
       /\ \A k \in Questions : k # q => Only(q, a)[k] = NoAnswer
  /\ \A q \in Questions : Blank.ans[q] = NoAnswer
BY IdleRow DEF Only, Answers, Blank, Read, SeenType

LEMMA SumType ==
  ASSUME NEW answers \in Answers
  PROVE  Sum(answers) \in Nat
<1>1. Counted(answers) \in [Questions -> Nat]
  BY DEF Counted, Answers, AnswerType, Numbers, Null
<1>2. QED
  BY <1>1, TotalType DEF Sum

\* An idle process, and one that ends, holds nothing.
LEMMA IdleHolds ==
  ASSUME NEW answers
  PROVE  Real(Idle, answers) /\ Fresh(Idle)
BY Sees, IdleRow DEF Real, Fresh, Idle, NoAnswer

-----------------------------------------------------------------------------
(* What every step leaves true.                                             *)

\* Answers appear and do not vanish, grades belong to answers, and what a
\* process comes to hold is real.
LEMMA BaseFrame ==
  ASSUME BaseInv, TypeInv',
         \A q \in Questions : ans'[q].text = "absent" => ans'[q] = ans[q],
         \A q \in Questions : cg'[q] # "none" => cg[q] # "none" \/ ans[q].text # "absent",
         \A r \in Procs : proc'[r] = proc[r] \/ Real(proc'[r], ans'),
         sub'.status \in Early =>
           /\ sub.status \in Early
           /\ \A q \in Questions : ans'[q].gs = "pending" /\ cg'[q] = "none"
           /\ \A r \in Procs : proc'[r] = proc[r] \/ Fresh(proc'[r])
  PROVE  BaseInv'
<1> USE DEF BaseInv
<1>1. \A q \in Questions : ans[q].text # "absent" => ans'[q].text # "absent"
  OBVIOUS
<1>2. \A r \in Procs : Real(proc'[r], ans')
  <2>1. TAKE r \in Procs
  <2>2. SUFFICES ASSUME proc'[r] = proc[r] PROVE Real(proc[r], ans')
    OBVIOUS
  <2>3. Real(proc[r], ans) /\ proc[r] \in ProcRow
    BY DEF RowsReal, TypeInv
  <2>4. QED
    BY <1>1, <2>3 DEF Real, ProcRow
<1>3. \A q \in Questions : ans'[q].text = "absent" => ans'[q] = NoAnswer /\ cg'[q] = "none"
  BY DEF RowsReal
<1>4. RowsReal'
  BY <1>2, <1>3 DEF RowsReal
<1>5. UntouchedEarly'
  BY DEF UntouchedEarly
<1>6. QED
  BY <1>4, <1>5

\* A step of one process that writes no row.
LEMMA LocalFrame ==
  ASSUME BaseInv, NEW p \in Procs, NEW new \in ProcRow, proc' = [proc EXCEPT ![p] = new], UNCHANGED rows,
         Real(new, ans), sub.status \in Early => Fresh(new)
  PROVE  BaseInv'
<1>1. UNCHANGED <<sub, ans, cg, grade>>
  BY DEF rows
<1>2. TypeInv' /\ \A r \in Procs : proc'[r] = IF r = p THEN new ELSE proc[r]
  BY <1>1 DEF BaseInv, TypeInv
<1>3. Real(new, ans') /\ sub'.status = sub.status /\ ans' = ans /\ cg' = cg
  BY <1>1
<1>4. sub.status \in Early => \A q \in Questions : ans[q].gs = "pending" /\ cg[q] = "none"
  BY DEF BaseInv, UntouchedEarly
<1>5. QED
  BY <1>2, <1>3, <1>4, BaseFrame

-----------------------------------------------------------------------------
(* The steps, one by one, without assumptions.                              *)

\* A process goes on with what it holds, or with less.
LEMMA Carry ==
  ASSUME BaseInv, NEW p \in Procs, NEW new \in ProcRow, new.seen = proc[p].seen, new.q = proc[p].q,
         new.op = proc[p].op, new.todo \subseteq proc[p].todo,
         new.step \in {"locked", "promoting"} => new.to \in {"graded", "review_required"}
  PROVE  Real(new, ans)
BY DEF BaseInv, RowsReal, Real

\* The steps that read.
LEMMA ReadSteps ==
  ASSUME BaseInv, NEW p \in Procs,
         \/ \E q \in Questions, text \in Texts : SaveLoad(p, q, text)
         \/ HandInLoad(p) \/ ExtendLoad(p) \/ ScanLoad(p) \/ ScanResume(p) \/ ScanStuck(p)
         \/ \E q \in Questions : AIClaim(p, q) \/ ManualLoad(p, q)
         \/ Die(p)
  PROVE  BaseInv'
<1> USE DEF Become, At, End
<1>1. ans \in Answers /\ sub \in SubType /\ proc \in [Procs -> ProcRow]
  BY DEF BaseInv, TypeInv
<1>2. \A q \in Questions : ans[q].text = "absent" => cg[q] = "none"
  BY DEF BaseInv, RowsReal
<1>3. sub.status \in Early => \A q \in Questions : ans[q].gs = "pending" /\ cg[q] = "none"
  BY DEF BaseInv, UntouchedEarly
<1>4. ASSUME NEW q \in Questions, NEW text \in Texts, SaveLoad(p, q, text) PROVE BaseInv'
  <2> DEFINE seen == Read(NoSub, Only(q, ans[q]))
             new == [Idle EXCEPT !.op = "save", !.step = "loaded", !.q = {q}, !.text = text, !.seen = seen]
  <2>1. proc' = [proc EXCEPT ![p] = new] /\ UNCHANGED rows
    BY <1>4 DEF SaveLoad
  <2>2. /\ seen \in SeenType /\ seen.ans[q] = ans[q]
        /\ \A k \in Questions : k # q => seen.ans[k] = NoAnswer
    <3>1. ans[q] \in AnswerType
      BY <1>1 DEF Answers
    <3>2. QED
      BY <3>1, Sees, IdleRow
  <2> HIDE DEF seen
  <2>3. new \in ProcRow
    BY <2>2, IdleRow DEF ProcRow, Ops, Steps
  <2>4. new.seen = seen /\ new.q = {q} /\ new.op = "save" /\ new.step = "loaded" /\ new.todo = {}
    BY DEF Idle
  <2> HIDE DEF new
  <2>5. Real(new, ans) /\ (sub.status \in Early => Fresh(new))
    BY <1>3, <2>2, <2>4 DEF Real, Fresh, NoAnswer
  <2>6. QED
    BY <2>1, <2>3, <2>5, LocalFrame
<1>5. CASE HandInLoad(p) \/ ScanLoad(p) \/ ScanResume(p)
  <2> DEFINE seen == Read(NoSub, ans)
  <2>1. seen \in SeenType /\ seen.ans = ans
    BY <1>1, Sees, IdleRow
  <2>2. PICK op \in {"handin", "scan"} : /\ UNCHANGED rows
          /\ proc' = [proc EXCEPT ![p] = [Idle EXCEPT !.op = op, !.step = "loaded", !.seen = seen]]
    BY <1>5 DEF HandInLoad, ScanLoad, ScanResume, ScanLoads
  <2> DEFINE new == [Idle EXCEPT !.op = op, !.step = "loaded", !.seen = seen]
  <2> HIDE DEF seen
  <2>3. new \in ProcRow
    BY <2>1, IdleRow DEF ProcRow, Ops, Steps
  <2>4. new.seen = seen /\ new.q = {} /\ new.op = op /\ new.step = "loaded" /\ new.todo = {}
    BY DEF Idle
  <2> HIDE DEF new
  <2>5. Real(new, ans) /\ (sub.status \in Early => Fresh(new))
    BY <1>3, <2>1, <2>4 DEF Real, Fresh
  <2>6. proc' = [proc EXCEPT ![p] = new] /\ UNCHANGED rows
    BY <2>2 DEF new
  <2>7. QED
    BY <2>3, <2>5, <2>6, LocalFrame
<1>6. CASE ExtendLoad(p) \/ ScanStuck(p)
  <2>1. PICK op \in {"extend", "scan"}, step \in {"extending", "finalize"} :
          UNCHANGED rows /\ proc' = [proc EXCEPT ![p] = [Idle EXCEPT !.op = op, !.step = step]]
    BY <1>6 DEF ExtendLoad, ScanStuck
  <2> DEFINE new == [Idle EXCEPT !.op = op, !.step = step]
  <2>2. new \in ProcRow
    BY IdleRow DEF ProcRow, Ops, Steps
  <2>3. new.seen = Blank /\ new.q = {} /\ new.op = op /\ new.step = step /\ new.todo = {}
    BY DEF Idle
  <2> HIDE DEF new
  <2>4. Real(new, ans) /\ Fresh(new)
    BY <2>3, Sees DEF Real, Fresh, NoAnswer
  <2>5. proc' = [proc EXCEPT ![p] = new] /\ UNCHANGED rows
    BY <2>1 DEF new
  <2>6. QED
    BY <2>2, <2>4, <2>5, LocalFrame
<1>7. ASSUME NEW q \in Questions, AIClaim(p, q) PROVE BaseInv'
  <2> DEFINE new == [Idle EXCEPT !.op = "ai", !.step = "asking", !.q = {q}]
  <2>1. proc' = [proc EXCEPT ![p] = new] /\ UNCHANGED rows /\ cg[q] = "open"
    BY <1>7 DEF AIClaim
  <2>2. new \in ProcRow
    BY IdleRow DEF ProcRow, Ops, Steps
  <2>3. new.seen = Blank /\ new.q = {q} /\ new.op = "ai" /\ new.todo = {} /\ new.step = "asking"
    BY DEF Idle
  <2> HIDE DEF new
  <2>4. Real(new, ans) /\ sub.status \notin Early
    BY <1>2, <1>3, <2>1, <2>3, Sees DEF Real, NoAnswer
  <2>5. QED
    BY <2>1, <2>2, <2>4, LocalFrame
<1>8. ASSUME NEW q \in Questions, ManualLoad(p, q) PROVE BaseInv'
  <2> DEFINE seen == Read(sub, ans)
             new == [Idle EXCEPT !.op = "manual", !.step = "loaded", !.q = {q}, !.seen = seen]
  <2>1. proc' = [proc EXCEPT ![p] = new] /\ UNCHANGED rows /\ sub.status \notin Early
    BY <1>8 DEF ManualLoad, Early
  <2>2. seen \in SeenType /\ seen.ans = ans
    BY <1>1, Sees
  <2> HIDE DEF seen
  <2>3. new \in ProcRow
    BY <2>2, IdleRow DEF ProcRow, Ops, Steps
  <2>4. new.seen = seen /\ new.q = {q} /\ new.op = "manual" /\ new.todo = {} /\ new.step = "loaded"
    BY DEF Idle
  <2> HIDE DEF new
  <2>5. Real(new, ans)
    BY <2>2, <2>4 DEF Real
  <2>6. QED
    BY <2>1, <2>3, <2>5, LocalFrame
<1>9. CASE Die(p)
  BY <1>9, IdleRow, IdleHolds, LocalFrame DEF Die
<1>10. QED
  BY <1>4, <1>5, <1>6, <1>7, <1>8, <1>9

\* The steps that close an attempt: it is past its early states.
LEMMA CloseSteps ==
  ASSUME BaseInv, NEW p \in Procs, CloseStep(p)
  PROVE  BaseInv'
<1> USE DEF Go, Become, End
<1>1. /\ ans \in Answers /\ sub \in SubType /\ proc \in [Procs -> ProcRow] /\ grade \in Numbers
      /\ cg \in [Questions -> GradeStatuses] /\ proc[p] \in ProcRow
  BY DEF BaseInv, TypeInv
<1>2. Real(proc[p], ans) /\ (sub.status \in Early => Fresh(proc[p]))
  BY DEF BaseInv, RowsReal, UntouchedEarly
<1>3. \A new \in ProcRow : /\ new.seen = proc[p].seen /\ new.q = proc[p].q /\ new.op = proc[p].op
                           /\ new.todo \subseteq proc[p].todo
                           /\ new.step \in {"locked", "promoting"} => new.to \in {"graded", "review_required"}
                          => Real(new, ans)
  BY Carry
<1>4. ASSUME NEW q \in Questions, Enqueue(p, q) PROVE BaseInv'
  <2>1. /\ proc[p].step = "enqueue" /\ q \in proc[p].todo /\ UNCHANGED <<sub, cg, grade>>
        /\ proc' = [proc EXCEPT ![p] = [proc[p] EXCEPT !.todo = @ \ {q}]]
    BY <1>4 DEF Enqueue
  <2>2. ans' \in Answers /\ \A k \in Questions : ans'[k].text = ans[k].text
    BY <1>1, <1>4 DEF Enqueue, Answers, AnswerType, GradingStatuses
  <2>3. \A k \in Questions : ans'[k].text = "absent" => ans'[k] = ans[k]
    <3>1. ans[q].text # "absent"
      BY <1>2, <2>1 DEF Real
    <3>2. \A k \in Questions : k # q => ans'[k] = ans[k]
      BY <1>1, <1>4 DEF Enqueue, Answers
    <3>3. QED
      BY <2>2, <3>1, <3>2
  <2>4. sub'.status \notin Early
    BY <1>2, <2>1 DEF Fresh
  <2> DEFINE new == [proc[p] EXCEPT !.todo = @ \ {q}]
  <2>5. new \in ProcRow /\ new.seen = proc[p].seen /\ new.q = proc[p].q /\ new.op = proc[p].op
    BY <1>1 DEF ProcRow
  <2>6. new.todo \subseteq proc[p].todo /\ new.step = "enqueue"
    BY <1>1, <2>1 DEF ProcRow
  <2>7. proc' = [proc EXCEPT ![p] = new]
    BY <2>1
  <2> HIDE DEF new
  <2>8. Real(new, ans)
    BY <1>3, <2>5, <2>6
  <2>9. Real(new, ans')
    BY <2>2, <2>5, <2>8 DEF Real, ProcRow
  <2>10. proc' \in [Procs -> ProcRow] /\ \A r \in Procs : proc'[r] = proc[r] \/ proc'[r] = new
    BY <1>1, <2>5, <2>7
  <2>11. TypeInv'
    BY <1>1, <2>1, <2>2, <2>10 DEF TypeInv
  <2>12. QED
    BY <2>1, <2>3, <2>4, <2>9, <2>10, <2>11, BaseFrame
<1>5. ASSUME NEW step \in {"finalize", "promote"}, proc' = [proc EXCEPT ![p].step = step], UNCHANGED rows,
             sub.status \in Early => step = "finalize" /\ proc[p].op \in {"handin", "scan"}
      PROVE  BaseInv'
  <2> DEFINE new == [proc[p] EXCEPT !.step = step]
  <2>1. /\ new \in ProcRow /\ new.seen = proc[p].seen /\ new.q = proc[p].q /\ new.op = proc[p].op
        /\ new.todo = proc[p].todo /\ new.step = step
    BY <1>1 DEF ProcRow, Steps
  <2>2. proc' = [proc EXCEPT ![p] = new]
    BY <1>5
  <2> HIDE DEF new
  <2>3. Real(new, ans) /\ (sub.status \in Early => Fresh(new))
    BY <1>2, <1>3, <1>5, <2>1 DEF Fresh
  <2>4. QED
    BY <1>5, <2>1, <2>2, <2>3, LocalFrame
<1>6. CASE Enqueued(p)
  <2>1. sub.status \notin Early
    BY <1>2, <1>6 DEF Enqueued, Fresh
  <2>2. QED
    BY <1>5, <1>6, <2>1 DEF Enqueued
<1>7. ASSUME NEW step \in {"locked", "promoting"}, NEW to \in {"graded", "review_required"}, UNCHANGED rows,
             proc' = [proc EXCEPT ![p] = [proc[p] EXCEPT !.step = step, !.to = to, !.total = Sum(ans)]],
             sub.status \notin Early
      PROVE  BaseInv'
  <2> DEFINE new == [proc[p] EXCEPT !.step = step, !.to = to, !.total = Sum(ans)]
  <2>1. Sum(ans) \in Numbers
    BY <1>1, SumType DEF Numbers
  <2>2. /\ new \in ProcRow /\ new.seen = proc[p].seen /\ new.q = proc[p].q /\ new.op = proc[p].op
        /\ new.todo = proc[p].todo /\ new.to = to
    BY <1>1, <2>1 DEF ProcRow, Steps, Statuses
  <2>3. proc' = [proc EXCEPT ![p] = new]
    BY <1>7
  <2> HIDE DEF new
  <2>4. QED
    BY <1>3, <1>7, <2>2, <2>3, LocalFrame
<1>8. ASSUME proc' = [proc EXCEPT ![p] = Idle], UNCHANGED rows PROVE BaseInv'
  BY <1>8, IdleRow, IdleHolds, LocalFrame
<1>9. CASE FinalizeRead(p)
  <2>1. Verdict(ans, cg) \in {"waiting", "graded", "review_required"} /\ UNCHANGED rows
    BY <1>9 DEF FinalizeRead, Verdict
  <2>2. CASE sub.status = "grading" /\ Verdict(ans, cg) # "waiting"
    <3>1. proc' = [proc EXCEPT ![p] = [proc[p] EXCEPT !.step = "locked", !.to = Verdict(ans, cg), !.total = Sum(ans)]]
      BY <1>9, <2>2 DEF FinalizeRead
    <3>2. QED
      BY <1>7, <2>1, <2>2, <3>1 DEF Early
  <2>3. CASE ~(sub.status = "grading" /\ Verdict(ans, cg) # "waiting") /\ proc[p].op = "ai"
    <3>1. proc' = [proc EXCEPT ![p].step = "promote"] /\ sub.status \notin Early
      BY <1>2, <1>9, <2>3 DEF FinalizeRead, Fresh
    <3>2. QED
      BY <1>5, <2>1, <3>1
  <2>4. CASE ~(sub.status = "grading" /\ Verdict(ans, cg) # "waiting") /\ proc[p].op # "ai"
    BY <1>8, <1>9, <2>1, <2>4 DEF FinalizeRead
  <2>5. QED
    BY <2>2, <2>3, <2>4
<1>10. CASE PromoteRead(p)
  BY <1>7, <1>8, <1>10 DEF PromoteRead, Early, Statuses
<1>11. CASE FinalizeCommit(p) \/ PromoteCommit(p)
  <2>1. PICK from \in {"grading", "review_required"} : Close(p, from)
    BY <1>11 DEF FinalizeCommit, PromoteCommit
  <2>2. sub.status \notin Early
    BY <1>2, <1>11 DEF FinalizeCommit, PromoteCommit, Fresh
  <2>3. UNCHANGED <<ans, cg>>
    BY <1>11 DEF FinalizeCommit, PromoteCommit
  <2>4. PICK new \in {Idle, [proc[p] EXCEPT !.step = "promote"]} : proc' = [proc EXCEPT ![p] = new]
    BY <1>11 DEF FinalizeCommit, PromoteCommit
  <2>5. new \in ProcRow /\ Real(new, ans)
    <3>1. CASE new = Idle
      BY <3>1, IdleRow, IdleHolds
    <3>2. CASE new = [proc[p] EXCEPT !.step = "promote"]
      <4>1. /\ new \in ProcRow /\ new.seen = proc[p].seen /\ new.q = proc[p].q /\ new.op = proc[p].op
            /\ new.todo = proc[p].todo /\ new.step = "promote"
        BY <1>1, <3>2 DEF ProcRow, Steps
      <4>2. QED
        BY <1>3, <4>1
    <3>3. QED
      BY <3>1, <3>2
  <2>6. /\ sub' \in SubType /\ grade' \in Numbers
        /\ sub'.status \in {sub.status, proc[p].to} /\ proc[p].to \notin Early
    <3>1. proc[p].to \in Statuses /\ proc[p].total \in Numbers
      BY <1>1 DEF ProcRow
    <3>2. proc[p].to \in {"graded", "review_required"}
      BY <1>2, <1>11 DEF FinalizeCommit, PromoteCommit, Real
    <3>3. QED
      BY <1>1, <2>1, <3>1, <3>2 DEF Close, SubType, Early
  <2>7. TypeInv' /\ \A r \in Procs : proc'[r] = proc[r] \/ proc'[r] = new
    BY <1>1, <2>3, <2>4, <2>5, <2>6 DEF TypeInv
  <2>8. QED
    BY <2>2, <2>3, <2>5, <2>6, <2>7, BaseFrame
<1>12. QED
  BY <1>4, <1>6, <1>9, <1>10, <1>11 DEF CloseStep

\* The clock, and the requests that write the submission alone.
LEMMA SubmissionSteps ==
  ASSUME BaseInv,
         \/ Start \/ TimeIsUp
         \/ \E p \in Procs : ScanClaim(p) \/ ExtendCommit(p)
  PROVE  BaseInv'
<1> USE DEF Become, End
<1>1. /\ sub \in SubType /\ proc \in [Procs -> ProcRow] /\ UNCHANGED <<ans, cg, grade>>
      /\ ans \in Answers /\ cg \in [Questions -> GradeStatuses] /\ grade \in Numbers
  BY DEF BaseInv, TypeInv, Start, TimeIsUp, ScanClaim, ExtendCommit
<1>2. sub' \in SubType /\ (sub'.status \in Early => sub.status \in Early)
  BY <1>1 DEF Start, TimeIsUp, ScanClaim, ExtendCommit, SubType, Statuses, Early
<1>3. /\ proc' \in [Procs -> ProcRow]
      /\ \A r \in Procs : proc'[r] = proc[r] \/ (Real(proc'[r], ans) /\ Fresh(proc'[r]))
  <2>1. CASE proc' = proc
    BY <1>1, <2>1
  <2>2. ASSUME NEW p \in Procs, ScanClaim(p)
        PROVE  /\ proc' \in [Procs -> ProcRow]
               /\ \A r \in Procs : proc'[r] = proc[r] \/ (Real(proc'[r], ans) /\ Fresh(proc'[r]))
    <3> DEFINE new == [Idle EXCEPT !.op = "scan", !.step = "claimed"]
    <3>1. proc' = [proc EXCEPT ![p] = new]
      BY <2>2 DEF ScanClaim
    <3>2. /\ new \in ProcRow /\ new.op = "scan" /\ new.step = "claimed" /\ new.seen = Blank
          /\ new.todo = {} /\ new.q = {}
      BY IdleRow DEF ProcRow, Ops, Steps, Idle
    <3> HIDE DEF new
    <3>3. Real(new, ans) /\ Fresh(new)
      BY <3>2, Sees DEF Real, Fresh, NoAnswer
    <3>4. QED
      BY <1>1, <3>1, <3>2, <3>3
  <2>3. ASSUME NEW p \in Procs, ExtendCommit(p)
        PROVE  /\ proc' \in [Procs -> ProcRow]
               /\ \A r \in Procs : proc'[r] = proc[r] \/ (Real(proc'[r], ans) /\ Fresh(proc'[r]))
    BY <1>1, <2>3, IdleRow, IdleHolds DEF ExtendCommit
  <2>4. QED
    BY <2>1, <2>2, <2>3 DEF Start, TimeIsUp
<1>4. TypeInv' /\ ans' = ans /\ cg' = cg
  BY <1>1, <1>2, <1>3 DEF TypeInv
<1>5. sub.status \in Early => \A q \in Questions : ans[q].gs = "pending" /\ cg[q] = "none"
  BY DEF BaseInv, UntouchedEarly
<1>6. QED
  BY <1>2, <1>3, <1>4, <1>5, BaseFrame

LEMMA SaveStep ==
  ASSUME BaseInv, NEW p \in Procs, SaveCommit(p)
  PROVE  BaseInv'
<1>1. /\ ans \in Answers /\ proc \in [Procs -> ProcRow] /\ proc[p] \in ProcRow
      /\ UNCHANGED <<sub, cg, grade>> /\ proc' = [proc EXCEPT ![p] = Idle]
  BY DEF BaseInv, TypeInv, SaveCommit, Become, End
<1>2. PICK q \in proc[p].q : ans' = [ans EXCEPT ![q] = SavedOver(@, proc[p].seen.ans[q], proc[p].text)]
  BY DEF SaveCommit
<1> DEFINE seen == proc[p].seen.ans[q]
           text == proc[p].text
           new == SavedOver(ans[q], seen, text)
<1>3. /\ q \in Questions /\ ans[q] \in AnswerType /\ seen \in AnswerType /\ text \in Texts /\ text # "absent"
      /\ seen.text # "absent" => ans[q].text # "absent"
  <2>1. q \in Questions /\ text \in Texts /\ proc[p].seen.ans \in Answers
    BY <1>1 DEF ProcRow, SeenType
  <2>2. Real(proc[p], ans)
    BY DEF BaseInv, RowsReal
  <2>3. QED
    BY <1>1, <2>1, <2>2, Ranges DEF Real, Answers
<1>4. ans[q].text = "absent" => ans[q] = NoAnswer
  BY <1>3 DEF BaseInv, RowsReal
<1> HIDE DEF seen, text
<1>5. new \in AnswerType /\ new.text # "absent" /\ new.gs = ans[q].gs /\ new.score = ans[q].score
  <2>1. CASE seen.text = "absent" /\ ans[q].text = "absent"
    BY <1>3, <1>4, <2>1 DEF SavedOver, AnswerType, NoAnswer, GradingStatuses, Numbers, Null
  <2>2. CASE seen.text = "absent" /\ ans[q].text # "absent"
    BY <1>3, <2>2 DEF SavedOver
  <2>3. CASE seen.text # "absent"
    <3> DEFINE ver == seen.ver + 1
    <3>1. ver \in Nat
      BY <1>3 DEF AnswerType
    <3>2. new = [ans[q] EXCEPT !.text = text, !.ver = ver]
      BY <2>3 DEF SavedOver
    <3> HIDE DEF ver, new
    <3>3. new \in AnswerType
      BY <1>3, <3>1, <3>2 DEF AnswerType
    <3>4. new.text = text /\ new.gs = ans[q].gs /\ new.score = ans[q].score
      BY <1>3, <3>2 DEF AnswerType
    <3>5. QED
      BY <1>3, <3>3, <3>4
  <2>4. QED
    BY <2>1, <2>2, <2>3
<1> HIDE DEF new
<1>6. ans' = [ans EXCEPT ![q] = new]
  BY <1>2 DEF new, seen, text
<1>7. /\ ans' \in Answers /\ \A k \in Questions : ans'[k].gs = ans[k].gs
      /\ \A k \in Questions : ans'[k].text = "absent" => ans'[k] = ans[k]
  BY <1>1, <1>3, <1>5, <1>6 DEF Answers
<1>8. TypeInv'
  BY <1>1, <1>7, IdleRow DEF BaseInv, TypeInv
<1>9. \A r \in Procs : proc'[r] = proc[r] \/ (Real(proc'[r], ans') /\ Fresh(proc'[r]))
  BY <1>1, IdleHolds
<1>10. sub.status \in Early => \A k \in Questions : ans[k].gs = "pending" /\ cg[k] = "none"
  BY DEF BaseInv, UntouchedEarly
<1>11. sub' = sub /\ cg' = cg
  BY <1>1
<1>12. QED
  BY <1>7, <1>8, <1>9, <1>10, <1>11, BaseFrame

\* The hand-over prepares the answers it has read, all of which exist.
LEMMA HandOverSteps ==
  ASSUME BaseInv, NEW p \in Procs, HandInCommit(p) \/ ScanCommit(p)
  PROVE  BaseInv'
<1> USE DEF Become, End
<1>1. PICK from \in {"started", "submitted"} : HandOver(p, from)
  BY DEF HandInCommit, ScanCommit
<1>2. /\ proc[p].op \in {"handin", "scan"} /\ proc[p] \in ProcRow /\ ans \in Answers
      /\ proc \in [Procs -> ProcRow] /\ proc[p].seen.ans \in Answers /\ sub \in SubType
  BY DEF BaseInv, TypeInv, HandInCommit, ScanCommit, At, ProcRow, SeenType
<1>3. CASE sub.status # from
  <2>1. UNCHANGED rows
    BY <1>1, <1>3 DEF HandOver, rows
  <2> DEFINE new == [Idle EXCEPT !.op = "handin", !.step = "finalize"]
  <2>2. CASE proc' = [proc EXCEPT ![p] = Idle]
    BY <2>1, <2>2, IdleRow, IdleHolds, LocalFrame
  <2>3. CASE proc' = [proc EXCEPT ![p] = new]
    <3>1. /\ new \in ProcRow /\ new.op = "handin" /\ new.step = "finalize" /\ new.seen = Blank
          /\ new.todo = {} /\ new.q = {}
      BY IdleRow DEF ProcRow, Ops, Steps, Idle
    <3> HIDE DEF new
    <3>2. Real(new, ans) /\ Fresh(new)
      BY <3>1, Sees DEF Real, Fresh, NoAnswer
    <3>3. QED
      BY <2>1, <2>3, <3>1, <3>2, LocalFrame
  <2>4. QED
    BY <1>1, <1>3, <2>2, <2>3 DEF HandOver
<1>4. CASE sub.status = from
  <2> DEFINE seen == proc[p].seen.ans
             new == [Idle EXCEPT !.op = proc[p].op, !.step = "enqueue", !.todo = CodeAnswers(seen)]
  <2>1. /\ sub' = [sub EXCEPT !.status = "grading"] /\ UNCHANGED <<cg, grade>>
        /\ ans' = [q \in Questions |-> Prepared(ans[q], seen[q], q)]
        /\ proc' = [proc EXCEPT ![p] = new]
    BY <1>1, <1>4 DEF HandOver
  <2>2. \A q \in Questions : seen[q].text # "absent" => ans[q].text # "absent"
    BY DEF BaseInv, RowsReal, Real
  <2>3. seen \in Answers
    BY <1>2
  <2>4. CodeAnswers(seen) \in SUBSET Questions /\ \A q \in CodeAnswers(seen) : ans[q].text # "absent"
    BY <2>2, ExamAssumption DEF CodeAnswers
  <2>5. new \in ProcRow
    BY <1>2, <2>4, IdleRow DEF ProcRow, Steps, Ops
  <2>6. new.todo = CodeAnswers(seen) /\ new.q = {} /\ new.seen = Blank /\ new.step = "enqueue"
    BY DEF Idle
  <2> HIDE DEF seen, new
  <2>7. ASSUME NEW q \in Questions
        PROVE  /\ Prepared(ans[q], seen[q], q) \in AnswerType
               /\ Prepared(ans[q], seen[q], q).text = ans[q].text
               /\ ans[q].text = "absent" => Prepared(ans[q], seen[q], q) = ans[q]
    <3>1. ans[q] \in AnswerType /\ seen[q] \in AnswerType
      BY <1>2, <2>3 DEF Answers
    <3>2. seen[q].text # "absent" => Points(seen[q].text) \in Nat
      BY <3>1, Ranges DEF AnswerType
    <3>3. QED
      BY <2>2, <3>1, <3>2 DEF Prepared, AnswerType, GradingStatuses, Numbers
  <2>8. /\ ans' \in Answers /\ \A q \in Questions : ans'[q].text = ans[q].text
        /\ \A q \in Questions : ans'[q].text = "absent" => ans'[q] = ans[q]
    BY <2>1, <2>7 DEF Answers
  <2>9. Real(new, ans')
    BY <2>4, <2>6, <2>8, Sees DEF Real, NoAnswer
  <2>10. proc' \in [Procs -> ProcRow] /\ \A r \in Procs : proc'[r] = proc[r] \/ proc'[r] = new
    BY <1>2, <2>1, <2>5
  <2>11. sub' \in SubType /\ sub'.status \notin Early
    BY <1>2, <2>1 DEF SubType, Statuses, Early
  <2>12. TypeInv'
    BY <2>1, <2>8, <2>10, <2>11 DEF BaseInv, TypeInv
  <2>13. QED
    BY <2>1, <2>8, <2>9, <2>10, <2>11, <2>12, BaseFrame
<1>5. QED
  BY <1>3, <1>4

LEMMA RetryStep ==
  ASSUME BaseInv, NEW p \in Procs, NEW chosen \in SUBSET Questions, Retry(p, chosen)
  PROVE  BaseInv'
<1> DEFINE new == [Idle EXCEPT !.op = "retry", !.step = "enqueue", !.todo = {q \in chosen : Kind[q] # "choice"}]
<1>1. /\ sub' = [sub EXCEPT !.status = "grading"] /\ UNCHANGED <<cg, grade>>
      /\ ans' = [q \in Questions |-> IF q \in chosen THEN Retried(ans[q], q) ELSE ans[q]]
      /\ proc' = [proc EXCEPT ![p] = new]
      /\ \A q \in chosen : ans[q].text # "absent"
  BY DEF Retry, Become, Written
<1>2. ans \in Answers /\ sub \in SubType /\ proc \in [Procs -> ProcRow]
  BY DEF BaseInv, TypeInv
<1>3. new \in ProcRow /\ new.todo \subseteq chosen /\ new.q = {} /\ new.seen = Blank /\ new.step = "enqueue"
  BY IdleRow DEF ProcRow, Steps, Ops, Idle
<1> HIDE DEF new
<1>4. ASSUME NEW q \in Questions
      PROVE  ans'[q] \in AnswerType /\ ans'[q].text = ans[q].text /\ (ans[q].text = "absent" => ans'[q] = ans[q])
  <2>1. ans[q] \in AnswerType /\ (ans[q].text # "absent" => Points(ans[q].text) \in Nat)
    BY <1>2, Ranges DEF Answers, AnswerType
  <2>2. QED
    BY <1>1, <2>1 DEF Retried, AnswerType, GradingStatuses, Numbers
<1>5. /\ ans' \in Answers /\ \A q \in Questions : ans'[q].text = ans[q].text
      /\ \A q \in Questions : ans'[q].text = "absent" => ans'[q] = ans[q]
  BY <1>1, <1>4 DEF Answers
<1>6. Real(new, ans')
  BY <1>1, <1>3, <1>5, Sees DEF Real, NoAnswer
<1>7. proc' \in [Procs -> ProcRow] /\ \A r \in Procs : proc'[r] = proc[r] \/ proc'[r] = new
  BY <1>1, <1>2, <1>3
<1>8. sub' \in SubType /\ sub'.status \notin Early
  BY <1>1, <1>2 DEF SubType, Statuses, Early
<1>9. TypeInv'
  BY <1>1, <1>5, <1>7, <1>8 DEF BaseInv, TypeInv
<1>10. QED
  BY <1>1, <1>5, <1>6, <1>7, <1>8, <1>9, BaseFrame

\* A step that writes one answer that exists, and perhaps its grade.
LEMMA AnswerFrame ==
  ASSUME BaseInv, NEW q \in Questions, UNCHANGED <<sub, grade>>, sub.status \notin Early,
         ans' \in Answers, \A k \in Questions : k # q => ans'[k] = ans[k], ans'[q].text # "absent",
         cg' \in [Questions -> GradeStatuses],
         \A k \in Questions : cg'[k] # "none" => cg[k] # "none" \/ ans[k].text # "absent",
         proc' \in [Procs -> ProcRow], \A r \in Procs : proc'[r] = proc[r] \/ Real(proc'[r], ans)
  PROVE  BaseInv'
<1>1. \A k \in Questions : ans'[k].text = "absent" => ans'[k] = ans[k]
  OBVIOUS
<1>2. \A r \in Procs : proc'[r] = proc[r] \/ Real(proc'[r], ans')
  <2>1. SUFFICES ASSUME NEW r \in Procs, Real(proc'[r], ans) PROVE Real(proc'[r], ans')
    OBVIOUS
  <2>2. proc'[r] \in ProcRow /\ \A k \in Questions : ans[k].text # "absent" => ans'[k].text # "absent"
    OBVIOUS
  <2>3. QED
    BY <2>1, <2>2 DEF Real, ProcRow
<1>3. TypeInv' /\ sub' = sub
  BY DEF BaseInv, TypeInv
<1>4. QED
  BY <1>1, <1>2, <1>3, BaseFrame

LEMMA WorkerSteps ==
  ASSUME BaseInv, NEW p \in Procs, NEW q \in Questions, JudgeStep(p, q)
  PROVE  BaseInv'
<1> USE DEF Become, End, Go, At
<1>1. /\ ans \in Answers /\ cg \in [Questions -> GradeStatuses] /\ proc \in [Procs -> ProcRow]
      /\ proc[p] \in ProcRow /\ ans[q] \in AnswerType /\ Idle \in ProcRow
  BY IdleRow DEF BaseInv, TypeInv, Answers
<1>2. /\ Real(proc[p], ans) /\ (sub.status \in Early => Fresh(proc[p])) /\ Real(Idle, ans)
      /\ sub.status \in Early => ans[q].gs = "pending" /\ cg[q] = "none"
      /\ ans[q].text = "absent" => cg[q] = "none"
  BY IdleHolds DEF BaseInv, RowsReal, UntouchedEarly
<1>3. \A step \in Steps : step \notin {"locked", "promoting"} =>
         [proc[p] EXCEPT !.step = step] \in ProcRow /\ Real([proc[p] EXCEPT !.step = step], ans)
  <2>1. TAKE step \in Steps
  <2> DEFINE new == [proc[p] EXCEPT !.step = step]
  <2>2. /\ new \in ProcRow /\ new.seen = proc[p].seen /\ new.q = proc[p].q /\ new.op = proc[p].op
        /\ new.todo = proc[p].todo /\ new.step = step
    BY <1>1 DEF ProcRow
  <2> HIDE DEF new
  <2>3. step \notin {"locked", "promoting"} => Real(new, ans)
    BY <2>2, Carry
  <2>4. QED
    BY <2>2, <2>3 DEF new
<1>4. ASSUME q \in proc[p].q, proc[p].op = "judge"
      PROVE  /\ ans[q].text # "absent" /\ proc[p].seen.ans[q].text # "absent"
             /\ Points(proc[p].seen.ans[q].text) \in Nat /\ sub.status \notin Early
  <2>1. ans[q].text # "absent" /\ proc[p].seen.ans[q].text # "absent"
    BY <1>2, <1>4 DEF Real
  <2>2. proc[p].seen.ans[q] \in AnswerType
    BY <1>1 DEF ProcRow, SeenType, Answers
  <2>3. QED
    BY <1>2, <1>4, <2>1, <2>2, Ranges DEF AnswerType, Fresh
<1>5. ASSUME q \in proc[p].q, proc[p].op = "ai"
      PROVE  ans[q].text # "absent" /\ Points(ans[q].text) \in Nat /\ sub.status \notin Early
  BY <1>1, <1>2, <1>5, Ranges DEF Real, AnswerType, Fresh
<1>6. ASSUME UNCHANGED <<sub, cg, grade>>, sub.status \notin Early, ans[q].text # "absent",
             ans' \in Answers, \A k \in Questions : k # q => ans'[k] = ans[k], ans'[q].text = ans[q].text,
             NEW new \in ProcRow, Real(new, ans), proc' = [proc EXCEPT ![p] = new]
      PROVE  BaseInv'
  <2>1. proc' \in [Procs -> ProcRow] /\ \A r \in Procs : proc'[r] = proc[r] \/ proc'[r] = new
    BY <1>1, <1>6
  <2>2. cg' = cg
    BY <1>6
  <2>3. QED
    BY <1>1, <1>6, <2>1, <2>2, AnswerFrame
<1>7. ASSUME NEW status \in GradeStatuses, cg' = [cg EXCEPT ![q] = status], ans[q].text # "absent",
             UNCHANGED <<sub, ans, grade>>, sub.status \notin Early,
             NEW new \in ProcRow, Real(new, ans), proc' = [proc EXCEPT ![p] = new]
      PROVE  BaseInv'
  <2>1. proc' \in [Procs -> ProcRow] /\ \A r \in Procs : proc'[r] = proc[r] \/ proc'[r] = new
    BY <1>1, <1>7
  <2>2. cg' \in [Questions -> GradeStatuses] /\ \A k \in Questions : cg'[k] # "none" => cg[k] # "none" \/ k = q
    BY <1>1, <1>7
  <2>3. ans' = ans
    BY <1>7
  <2>4. QED
    BY <1>1, <1>7, <2>1, <2>2, <2>3, AnswerFrame
<1>8. CASE JudgeClaim(p, q)
  <2> DEFINE seen == Read(NoSub, Only(q, ans'[q]))
             new == [Idle EXCEPT !.op = "judge", !.step = "judging", !.q = {q}, !.seen = seen]
  <2>1. /\ ans' \in Answers /\ ans'[q].text = ans[q].text /\ ans'[q] \in AnswerType
        /\ \A k \in Questions : k # q => ans'[k] = ans[k]
    BY <1>1, <1>8 DEF JudgeClaim, Answers, AnswerType, GradingStatuses
  <2>2. seen \in SeenType /\ seen.ans[q] = ans'[q] /\ \A k \in Questions : k # q => seen.ans[k] = NoAnswer
    BY <2>1, Sees, IdleRow
  <2>3. proc' = [proc EXCEPT ![p] = new]
    BY <1>8 DEF JudgeClaim
  <2> HIDE DEF seen
  <2>4. new \in ProcRow
    BY <2>2, IdleRow DEF ProcRow, Ops, Steps
  <2>5. new.seen = seen /\ new.q = {q} /\ new.op = "judge" /\ new.step = "judging" /\ new.todo = {}
    BY DEF Idle
  <2> HIDE DEF new
  <2>6. sub.status \notin Early /\ ans[q].text # "absent"
    BY <1>2, <1>8 DEF JudgeClaim, Written
  <2>7. \A k \in Questions : seen.ans[k].text # "absent" => k = q
    BY <2>2 DEF NoAnswer
  <2>8. Real(new, ans)
    BY <2>1, <2>2, <2>5, <2>6, <2>7 DEF Real
  <2>9. QED
    BY <1>6, <1>8, <2>1, <2>3, <2>4, <2>6, <2>8 DEF JudgeClaim
<1>9. CASE JudgeFail(p, q)
  <2>1. /\ ans' \in Answers /\ ans'[q].text = ans[q].text /\ \A k \in Questions : k # q => ans'[k] = ans[k]
    BY <1>1, <1>9 DEF JudgeFail, Answers, AnswerType, GradingStatuses
  <2>2. proc' = [proc EXCEPT ![p] = [proc[p] EXCEPT !.step = "clearing"]]
    BY <1>9 DEF JudgeFail
  <2>3. QED
    BY <1>3, <1>4, <1>6, <1>9, <2>1, <2>2 DEF JudgeFail, Steps
<1>10. CASE JudgeClear(p, q)
  <2>1. /\ ans' \in Answers /\ ans'[q].text = ans[q].text /\ \A k \in Questions : k # q => ans'[k] = ans[k]
    BY <1>1, <1>10 DEF JudgeClear, Answers, AnswerType, Numbers
  <2>2. \/ proc' = [proc EXCEPT ![p] = [proc[p] EXCEPT !.step = "finalize"]]
        \/ proc' = [proc EXCEPT ![p] = Idle]
    BY <1>10 DEF JudgeClear
  <2>3. [proc[p] EXCEPT !.step = "finalize"] \in ProcRow /\ Real([proc[p] EXCEPT !.step = "finalize"], ans)
    BY <1>3 DEF Steps
  <2>4. /\ UNCHANGED <<sub, cg, grade>> /\ q \in proc[p].q /\ proc[p].op = "judge"
    BY <1>10 DEF JudgeClear
  <2>5. QED
    BY <1>1, <1>2, <1>4, <1>6, <2>1, <2>2, <2>3, <2>4
<1>11. CASE JudgeWrite(p, q) \/ JudgeComplete(p, q)
  <2>1. q \in proc[p].q /\ proc[p].op = "judge" /\ UNCHANGED <<sub, cg, grade>>
    BY <1>11 DEF JudgeWrite, JudgeComplete
  <2>2. /\ ans' \in Answers /\ ans'[q].text = ans[q].text /\ \A k \in Questions : k # q => ans'[k] = ans[k]
    BY <1>1, <1>4, <1>11, <2>1 DEF JudgeWrite, JudgeComplete, Completed, Answers, AnswerType, GradingStatuses, Numbers
  <2>3. PICK step \in {"completing", "finalize", "creating"} : proc' = [proc EXCEPT ![p] = [proc[p] EXCEPT !.step = step]]
    BY <1>11 DEF JudgeWrite, JudgeComplete
  <2>4. QED
    BY <1>3, <1>4, <1>6, <2>1, <2>2, <2>3 DEF Steps
<1>12. CASE CreateGrade(p, q)
  <2>1. PICK status \in GradeStatuses : cg' = [cg EXCEPT ![q] = status]
    BY <1>1, <1>12 DEF CreateGrade, GradeStatuses
  <2>2. QED
    BY <1>1, <1>2, <1>4, <1>7, <1>12, <2>1 DEF CreateGrade
<1>13. ASSUME NEW new \in ProcRow, new = [Idle EXCEPT !.op = "recover", !.step = "finalize"]
       PROVE  Real(new, ans)
  <2>1. new.seen = Blank /\ new.q = {} /\ new.op = "recover" /\ new.step = "finalize" /\ new.todo = {}
    BY <1>13 DEF Idle
  <2>2. QED
    BY <2>1, Sees DEF Real, NoAnswer
<1>14. [Idle EXCEPT !.op = "recover", !.step = "finalize"] \in ProcRow
  BY IdleRow DEF ProcRow, Ops, Steps
<1>15. CASE Exhaust(p, q)
  <2>1. /\ ans' \in Answers /\ ans'[q].text = ans[q].text /\ \A k \in Questions : k # q => ans'[k] = ans[k]
    BY <1>1, <1>15 DEF Exhaust, Answers, AnswerType, GradingStatuses, Numbers
  <2>2. QED
    BY <1>6, <1>13, <1>14, <1>15, <2>1 DEF Exhaust, Written, Early
<1>16. CASE AIClaim(p, q)
  BY <1>16, ReadSteps
<1>17. CASE AIScore(p, q)
  <2>1. /\ ans' \in Answers /\ ans'[q].text = ans[q].text /\ \A k \in Questions : k # q => ans'[k] = ans[k]
    BY <1>1, <1>5, <1>17 DEF AIScore, Answers, AnswerType, Numbers
  <2>2. QED
    BY <1>3, <1>5, <1>6, <1>17, <2>1 DEF AIScore, Steps
<1>18. CASE AIComplete(p, q)
  BY <1>3, <1>5, <1>7, <1>18 DEF AIComplete, Steps, GradeStatuses
<1>19. CASE AIGivesUp(p, q)
  BY <1>5, <1>7, <1>13, <1>14, <1>19 DEF AIGivesUp, GradeStatuses
<1>20. QED
  BY <1>8, <1>9, <1>10, <1>11, <1>12, <1>15, <1>16, <1>17, <1>18, <1>19 DEF JudgeStep

LEMMA MarkedType ==
  ASSUME NEW answers \in Answers, NEW q \in Questions
  PROVE  /\ Marked(answers, q) \in Answers /\ Marked(answers, q)[q].text # "absent"
         /\ Marked(answers, q)[q].gs = "completed"
         /\ \A k \in Questions : k # q => Marked(answers, q)[k] = answers[k]
<1> DEFINE new == [answers[q] EXCEPT !.score = Mark, !.gs = "completed",
                     !.text = IF @ = "absent" THEN "blank" ELSE @, !.ver = IF @ = 0 THEN 1 ELSE @]
<1>1. Marked(answers, q) = [answers EXCEPT ![q] = new]
  BY DEF Marked, Answers
<1>2. new \in AnswerType /\ new.text # "absent" /\ new.gs = "completed"
  BY Ranges DEF Answers, AnswerType, GradingStatuses, Numbers
<1> HIDE DEF new
<1>3. QED
  BY <1>1, <1>2 DEF Answers

LEMMA TeacherSteps ==
  ASSUME BaseInv, NEW p \in Procs, NEW q \in Questions, TeacherStep(p, q)
  PROVE  BaseInv'
<1> USE DEF Become, End, At
<1>1. /\ ans \in Answers /\ cg \in [Questions -> GradeStatuses] /\ proc \in [Procs -> ProcRow]
      /\ proc[p] \in ProcRow /\ sub \in SubType /\ grade \in Numbers
  BY DEF BaseInv, TypeInv
<1>2. /\ sub.status \in Early => Fresh(proc[p])
      /\ sub.status \in Early => cg[q] = "none"
      /\ ans[q].text = "absent" => cg[q] = "none"
  BY DEF BaseInv, RowsReal, UntouchedEarly
<1>3. /\ Marked(ans, q) \in Answers /\ Marked(ans, q)[q].text # "absent"
      /\ \A k \in Questions : k # q => Marked(ans, q)[k] = ans[k]
  BY <1>1, MarkedType
<1>4. CASE ManualCommit(p, q)
  <2> DEFINE seen == proc[p].seen
             view == Marked(seen.ans, q)
             total == Sum(view)
  <2>1. seen.ans \in Answers /\ seen \in SeenType
    BY <1>1 DEF ProcRow, SeenType
  <2>2. total \in Nat
    BY <2>1, MarkedType, SumType
  <2>3. proc[p].op = "manual" /\ proc' = [proc EXCEPT ![p] = Idle] /\ ans' \in {ans, Marked(ans, q)}
    BY <1>4 DEF ManualCommit
  <2>4. \/ UNCHANGED <<sub, grade>>
        \/ /\ sub' = [sub EXCEPT !.total = IF total # seen.sub.total THEN total ELSE @,
                                 !.status = IF seen.sub.status = "review_required" THEN "graded" ELSE @]
           /\ grade' = total
    BY <1>4 DEF ManualCommit
  <2>5. cg' = cg \/ (cg[q] # "none" /\ cg' = [cg EXCEPT ![q] = "completed"])
    BY <1>4 DEF ManualCommit
  <2> HIDE DEF view, total, seen
  <2>6. sub.status \notin Early
    BY <1>2, <2>3 DEF Fresh
  <2>7. sub' \in SubType /\ grade' \in Numbers /\ sub'.status \notin Early
    BY <1>1, <2>2, <2>4, <2>6 DEF SubType, Numbers, Statuses, Early
  <2>8. /\ cg' \in [Questions -> GradeStatuses]
        /\ \A k \in Questions : cg'[k] # "none" => cg[k] # "none"
    BY <1>1, <2>5 DEF GradeStatuses
  <2>9. ans' \in Answers /\ \A k \in Questions : ans'[k].text = "absent" => ans'[k] = ans[k]
    BY <1>1, <1>3, <2>3
  <2>10. /\ proc' \in [Procs -> ProcRow]
         /\ \A r \in Procs : proc'[r] = proc[r] \/ Real(proc'[r], ans')
    BY <1>1, <2>3, IdleRow, IdleHolds
  <2>11. TypeInv'
    BY <2>7, <2>8, <2>9, <2>10 DEF TypeInv
  <2>12. QED
    BY <2>7, <2>8, <2>9, <2>10, <2>11, BaseFrame
<1>5. CASE Override(p, q)
  <2> DEFINE total == Sum(ans')
  <2>1. ans' = Marked(ans, q) /\ cg' = [cg EXCEPT ![q] = "completed"] /\ cg[q] # "none" /\ proc' = proc
    BY <1>5 DEF Override
  <2>2. total \in Nat
    BY <1>3, <2>1, SumType
  <2>3. PICK status \in {sub.status, "graded", "review_required"} :
          /\ sub' = [sub EXCEPT !.status = status,
                                !.total = IF status = "graded" /\ sub.status # "graded" THEN total ELSE @]
          /\ grade' = IF status = "graded" /\ sub.status # "graded" THEN total ELSE grade
    <3> DEFINE verdict == IF sub.status = "grading" /\ Verdict(ans', cg') # "waiting"
                            THEN Verdict(ans', cg') ELSE sub.status
               status == IF verdict = "review_required" /\ Complete(ans', cg') THEN "graded" ELSE verdict
    <3>1. Verdict(ans', cg') \in {"waiting", "graded", "review_required"}
      BY DEF Verdict
    <3>2. verdict \in {sub.status, "graded", "review_required"}
      BY <3>1
    <3> HIDE DEF verdict
    <3>3. status \in {sub.status, "graded", "review_required"}
      BY <3>2
    <3>4. /\ sub' = [sub EXCEPT !.status = status,
                                !.total = IF status = "graded" /\ sub.status # "graded" THEN total ELSE @]
          /\ grade' = IF status = "graded" /\ sub.status # "graded" THEN total ELSE grade
      BY <1>5 DEF Override, verdict
    <3> HIDE DEF status
    <3>5. QED
      BY <3>3, <3>4
  <2> HIDE DEF total
  <2>4. sub' \in SubType /\ grade' \in Numbers /\ sub'.status \notin Early
    BY <1>1, <1>2, <2>1, <2>2, <2>3 DEF SubType, Numbers, Statuses, Early
  <2>5. /\ cg' \in [Questions -> GradeStatuses]
        /\ \A k \in Questions : cg'[k] # "none" => cg[k] # "none"
    BY <1>1, <2>1 DEF GradeStatuses
  <2>6. ans' \in Answers /\ \A k \in Questions : ans'[k].text = "absent" => ans'[k] = ans[k]
    BY <1>1, <1>3, <2>1
  <2>7. TypeInv'
    BY <1>1, <2>1, <2>4, <2>5, <2>6 DEF TypeInv
  <2>8. QED
    BY <2>1, <2>4, <2>5, <2>6, <2>7, BaseFrame
<1>6. QED
  BY <1>4, <1>5, ReadSteps DEF TeacherStep

LEMMA SystemSteps ==
  ASSUME BaseInv, NEW q \in Questions, Recover(q) \/ Reopen(q)
  PROVE  BaseInv'
<1>1. /\ ans \in Answers /\ cg \in [Questions -> GradeStatuses] /\ proc \in [Procs -> ProcRow]
      /\ ans[q] \in AnswerType
  BY DEF BaseInv, TypeInv, Answers
<1>2. /\ sub.status \in Early => ans[q].gs = "pending" /\ cg[q] = "none"
      /\ ans[q].text = "absent" => cg[q] = "none"
  BY DEF BaseInv, RowsReal, UntouchedEarly
<1>3. CASE Recover(q)
  <2>1. /\ ans' \in Answers /\ ans'[q].text = ans[q].text /\ \A k \in Questions : k # q => ans'[k] = ans[k]
        /\ UNCHANGED <<sub, cg, grade, proc>> /\ sub.status \notin Early /\ ans[q].text # "absent"
    BY <1>1, <1>3 DEF Recover, Answers, AnswerType, GradingStatuses, Written, Early
  <2>2. cg' = cg /\ proc' = proc
    BY <2>1
  <2>3. QED
    BY <1>1, <2>1, <2>2, AnswerFrame
<1>4. CASE Reopen(q)
  <2>1. /\ cg' = [cg EXCEPT ![q] = "open"] /\ cg[q] # "none" /\ UNCHANGED <<sub, ans, grade, proc>>
    BY <1>4 DEF Reopen
  <2>2. /\ cg' \in [Questions -> GradeStatuses]
        /\ \A k \in Questions : cg'[k] # "none" => cg[k] # "none" \/ ans[k].text # "absent"
    BY <1>1, <2>1 DEF GradeStatuses
  <2>3. ans' = ans /\ proc' = proc /\ sub.status \notin Early /\ ans[q].text # "absent"
    BY <1>2, <2>1
  <2>4. QED
    BY <1>1, <2>1, <2>2, <2>3, AnswerFrame
<1>5. QED
  BY <1>3, <1>4

LEMMA BaseStep == BaseInv /\ [Next]_vars => BaseInv'
<1> SUFFICES ASSUME BaseInv, [Next]_vars PROVE BaseInv'
  OBVIOUS
<1>1. CASE UNCHANGED vars
  BY <1>1 DEF vars, rows, BaseInv, TypeInv, RowsReal, UntouchedEarly, Real, Fresh
<1>2. ASSUME NEW p \in Procs, WebStep(p) PROVE BaseInv'
  BY <1>2, ReadSteps, SaveStep, HandOverSteps, SubmissionSteps, RetryStep DEF WebStep
<1>3. ASSUME NEW p \in Procs, ScanStep(p) PROVE BaseInv'
  BY <1>3, ReadSteps, HandOverSteps, SubmissionSteps DEF ScanStep
<1>4. CASE Start \/ TimeIsUp \/ \E q \in Questions : Recover(q) \/ Reopen(q)
  BY <1>4, SubmissionSteps, SystemSteps
<1>5. ASSUME NEW p \in Procs, CloseStep(p) \/ Die(p) PROVE BaseInv'
  BY <1>5, CloseSteps, ReadSteps
<1>6. Web \subseteq Procs /\ Scanners \subseteq Procs /\ Workers \subseteq Procs
  BY DEF Procs
<1>7. QED
  BY <1>1, <1>2, <1>3, <1>4, <1>5, <1>6, WorkerSteps, TeacherSteps DEF Next

LEMMA BaseInit == ExamInit => BaseInv
<1> SUFFICES ASSUME ExamInit PROVE BaseInv
  OBVIOUS
<1>1. TypeInv
  BY IdleRow DEF ExamInit, TypeInv, Numbers, GradeStatuses
<1>2. /\ ans = Blank.ans /\ sub.status = "none" /\ \A q \in Questions : cg[q] = "none"
      /\ \A p \in Procs : proc[p] = Idle
  BY DEF ExamInit, NoSub
<1>3. \A q \in Questions : ans[q] = NoAnswer /\ ans[q].gs = "pending"
  BY <1>2, Sees DEF NoAnswer
<1>4. QED
  BY <1>1, <1>2, <1>3, IdleHolds DEF BaseInv, RowsReal, UntouchedEarly

LEMMA BaseAlways == Spec => []BaseInv
BY BaseInit, BaseStep, PTL DEF Spec

\* Whatever teachers do and however slow the judge is, the rows are well formed.
THEOREM TypeCorrect == Spec => []TypeOK
<1>1. BaseInv => TypeOK
  BY DEF BaseInv, TypeInv, TypeOK, ExamTypeOK, ProcRow, SeenType, Answers
<1>2. QED
  BY <1>1, BaseAlways, PTL

-----------------------------------------------------------------------------
(* A finished answer stays finished.                                        *)

LEMMA FinishedStep ==
  ASSUME BaseInv, [Next]_vars, NEW q \in Questions, ans[q].gs = "completed"
  PROVE  ans'[q].gs = "completed"
<1>1. ans \in Answers /\ ans[q] \in AnswerType /\ sub.status \notin Early
  BY DEF BaseInv, TypeInv, Answers, UntouchedEarly
<1>2. SUFFICES ASSUME ans' # ans PROVE ans'[q].gs = "completed"
  OBVIOUS
<1>3. ASSUME NEW p \in Procs, WebStep(p) PROVE ans'[q].gs = "completed"
  <2>1. CASE SaveCommit(p)
    <3>1. PICK k \in proc[p].q : ans' = [ans EXCEPT ![k] = SavedOver(@, proc[p].seen.ans[k], proc[p].text)]
      BY <2>1 DEF SaveCommit
    <3>2. ans[q].text # "absent"
      BY DEF BaseInv, RowsReal, NoAnswer
    <3> DEFINE seen == proc[p].seen.ans[q]
               ver == seen.ver + 1
    <3>3. SavedOver(ans[q], seen, proc[p].text) \in {ans[q], [ans[q] EXCEPT !.text = proc[p].text, !.ver = ver]}
      BY <3>2 DEF SavedOver
    <3> HIDE DEF ver
    <3>4. SavedOver(ans[q], seen, proc[p].text).gs = ans[q].gs
      BY <1>1, <3>3 DEF AnswerType
    <3>5. QED
      BY <1>1, <3>1, <3>4 DEF Answers
  <2>2. CASE HandInCommit(p)
    BY <1>1, <1>2, <2>2 DEF HandInCommit, HandOver, Early
  <2>3. ASSUME NEW chosen \in SUBSET Questions, Retry(p, chosen) PROVE ans'[q].gs = "completed"
    BY <2>3 DEF Retry
  <2>4. QED
    BY <1>2, <1>3, <2>1, <2>2, <2>3 DEF WebStep, SaveLoad, HandInLoad, ExtendLoad, ExtendCommit, rows
<1>4. ASSUME NEW p \in Procs, ScanStep(p) PROVE ans'[q].gs = "completed"
  BY <1>1, <1>2, <1>4
     DEF ScanStep, ScanClaim, ScanLoad, ScanResume, ScanCommit, ScanStuck, HandOver, Early, rows
<1>5. ASSUME NEW p \in Procs, CloseStep(p) \/ Die(p) PROVE ans'[q].gs = "completed"
  BY <1>1, <1>2, <1>5 DEF CloseStep, Enqueue, Enqueued, FinalizeRead, FinalizeCommit, PromoteRead, PromoteCommit,
                          Die, Answers, AnswerType, rows
<1>6. ASSUME NEW p \in Procs, NEW k \in Questions, TeacherStep(p, k) PROVE ans'[q].gs = "completed"
  BY <1>1, <1>2, <1>6, MarkedType DEF TeacherStep, ManualLoad, ManualCommit, Override, rows
<1>7. ASSUME NEW p \in Procs, NEW k \in Questions, JudgeStep(p, k) PROVE ans'[q].gs = "completed"
  <2>1. CASE JudgeClaim(p, k) \/ JudgeFail(p, k) \/ JudgeClear(p, k) \/ CreateGrade(p, k) \/ Exhaust(p, k)
    BY <1>1, <1>2, <2>1 DEF JudgeClaim, JudgeFail, JudgeClear, CreateGrade, Exhaust, Answers, AnswerType
  <2>2. CASE JudgeWrite(p, k) \/ JudgeComplete(p, k)
    BY <1>1, <1>2, <2>2 DEF JudgeWrite, JudgeComplete, Completed, Answers, AnswerType
  <2>3. CASE AIClaim(p, k) \/ AIScore(p, k) \/ AIComplete(p, k) \/ AIGivesUp(p, k)
    BY <1>1, <1>2, <2>3 DEF AIClaim, AIScore, AIComplete, AIGivesUp, Answers, AnswerType, rows
  <2>4. QED
    BY <1>7, <2>1, <2>2, <2>3 DEF JudgeStep
<1>8. ASSUME NEW k \in Questions, Recover(k) \/ Reopen(k) PROVE ans'[q].gs = "completed"
  BY <1>1, <1>2, <1>8 DEF Recover, Reopen, Answers, AnswerType
<1>9. Web \subseteq Procs /\ Scanners \subseteq Procs /\ Workers \subseteq Procs
  BY DEF Procs
<1>10. QED
  BY <1>2, <1>3, <1>4, <1>5, <1>6, <1>7, <1>8, <1>9 DEF Next, Start, TimeIsUp, vars, rows

\* A finished answer is never sent to the judge again, whoever hands the attempt
\* in a second time, however slow the judge and the scan are, whatever is marked.
THEOREM FinishedIsKept == Spec => FinishedStays
<1>1. BaseInv /\ [Next]_vars => [\A q \in Questions : ans[q].gs = "completed" => ans'[q].gs = "completed"]_vars
  BY FinishedStep
<1>2. QED
  BY <1>1, BaseAlways, PTL DEF Spec, FinishedStays

-----------------------------------------------------------------------------
(* What a step does to the processes.                                       *)

\* Steps at which a process has nothing that another one could take away.
Plain == {"idle", "loaded", "claimed", "extending", "enqueue", "finalize", "promote"}

Moved(p) ==
  /\ \A s \in Procs : s # p => proc'[s] = proc[s]
  /\ proc'[p].op = "ai" => \/ proc[p].op = "ai" /\ proc'[p].q = proc[p].q
                           \/ \E q \in Questions : AIClaim(p, q) /\ proc'[p].q = {q}
  /\ proc'[p].op = "manual" => proc[p].op = "manual"
  /\ \A q \in proc'[p].todo : \/ q \in proc[p].todo
                              \/ sub.status \in Early
                              \/ ans[q].gs = "system_error"
  /\ \/ proc'[p].step \in Plain
     \/ \E q \in Questions : /\ JudgeClaim(p, q) /\ proc'[p].step = "judging"
                             /\ proc'[p].op = "judge" /\ proc'[p].q = {q}
     \/ \E q \in Questions : /\ \/ JudgeFail(p, q) /\ proc'[p].step = "clearing"
                                \/ JudgeWrite(p, q) /\ proc'[p].step = "completing"
                                \/ JudgeComplete(p, q) /\ Kind[q] # "code" /\ proc'[p].step = "creating"
                             /\ proc'[p].op = "judge" /\ proc'[p].q = proc[p].q
     \/ \E q \in Questions : AIClaim(p, q) /\ proc'[p].step = "asking" /\ proc'[p].op = "ai"
     \/ \E q \in Questions : AIScore(p, q) /\ proc'[p].step = "scored" /\ proc'[p].op = "ai"
     \/ FinalizeRead(p) /\ proc'[p].step = "locked"
     \/ PromoteRead(p) /\ proc'[p].step = "promoting"

\* A process that begins something plain, or goes on to it.
LEMMA MovedPlain ==
  ASSUME NEW p \in Procs, proc \in [Procs -> ProcRow], NEW new, proc' = [proc EXCEPT ![p] = new],
         new.step \in Plain, new.op \in {"ai", "manual"} => new.op = proc[p].op /\ new.q = proc[p].q,
         \A q \in new.todo : q \in proc[p].todo \/ sub.status \in Early \/ ans[q].gs = "system_error"
  PROVE  Moved(p)
<1>1. proc'[p] = new /\ \A s \in Procs : s # p => proc'[s] = proc[s]
  OBVIOUS
<1>2. QED
  BY <1>1 DEF Moved

LEMMA WebMoves ==
  ASSUME BaseInv, NEW p \in Procs, WebStep(p) \/ ScanStep(p)
  PROVE  Moved(p)
<1> USE DEF Become, End, At
<1>1. proc \in [Procs -> ProcRow] /\ Idle.todo = {} /\ Idle.op = "none"
  BY DEF BaseInv, TypeInv, Idle
<1>2. ASSUME NEW new, proc' = [proc EXCEPT ![p] = new], new.op \notin {"ai", "manual"}, new.step \in Plain,
             \A q \in new.todo : sub.status \in Early \/ ans[q].gs = "system_error"
      PROVE  Moved(p)
  BY <1>1, <1>2, MovedPlain
<1>3. ASSUME proc' = [proc EXCEPT ![p] = Idle] PROVE Moved(p)
  BY <1>1, <1>2, <1>3 DEF Plain, Idle
<1>4. ASSUME NEW op \in {"handin", "scan", "extend"}, NEW step \in Plain,
              proc' = [proc EXCEPT ![p] = [Idle EXCEPT !.op = op, !.step = step]]
       PROVE  Moved(p)
  <2> DEFINE new == [Idle EXCEPT !.op = op, !.step = step]
  <2>1. new.op \notin {"ai", "manual"} /\ new.step \in Plain /\ new.todo = {}
    BY DEF Idle
  <2> HIDE DEF new
  <2>2. QED
    BY <1>2, <1>4, <2>1 DEF new
<1>5. ASSUME NEW op \in {"handin", "scan"}, NEW seen,
              proc' = [proc EXCEPT ![p] = [Idle EXCEPT !.op = op, !.step = "loaded", !.seen = seen]]
       PROVE  Moved(p)
  <2> DEFINE new == [Idle EXCEPT !.op = op, !.step = "loaded", !.seen = seen]
  <2>1. new.op \notin {"ai", "manual"} /\ new.step \in Plain /\ new.todo = {}
    BY DEF Idle, Plain
  <2> HIDE DEF new
  <2>2. QED
    BY <1>2, <1>5, <2>1 DEF new
<1>6. CASE SaveCommit(p) \/ ExtendCommit(p)
  BY <1>3, <1>6 DEF SaveCommit, ExtendCommit
<1>7. ASSUME NEW q \in Questions, NEW text \in Texts, SaveLoad(p, q, text) PROVE Moved(p)
  <2> DEFINE seen == Read(NoSub, Only(q, ans[q]))
             new == [Idle EXCEPT !.op = "save", !.step = "loaded", !.q = {q}, !.text = text, !.seen = seen]
  <2>1. proc' = [proc EXCEPT ![p] = new]
    BY <1>7 DEF SaveLoad
  <2> HIDE DEF seen
  <2>2. new.op \notin {"ai", "manual"} /\ new.step \in Plain /\ new.todo = {}
    BY DEF Idle, Plain
  <2> HIDE DEF new
  <2>3. QED
    BY <1>2, <2>1, <2>2
<1>8. CASE ExtendLoad(p) \/ ScanClaim(p) \/ ScanStuck(p)
  BY <1>8, <1>4 DEF ExtendLoad, ScanClaim, ScanStuck, Plain
<1>9. CASE HandInLoad(p) \/ ScanLoad(p) \/ ScanResume(p)
  <2> DEFINE seen == Read(NoSub, ans)
  <2>1. PICK op \in {"handin", "scan"} : proc' = [proc EXCEPT ![p] = [Idle EXCEPT !.op = op, !.step = "loaded", !.seen = seen]]
    BY <1>9 DEF HandInLoad, ScanLoad, ScanResume, ScanLoads
  <2> HIDE DEF seen
  <2>2. QED
    BY <1>5, <2>1
<1>10. CASE HandInCommit(p) \/ ScanCommit(p)
  <2>1. PICK from \in Early : HandOver(p, from)
    BY <1>10 DEF HandInCommit, ScanCommit, Early
  <2>2. proc[p].op \in {"handin", "scan"}
    BY <1>10 DEF HandInCommit, ScanCommit
  <2>3. CASE sub.status = from
    <3> DEFINE new == [Idle EXCEPT !.op = proc[p].op, !.step = "enqueue", !.todo = CodeAnswers(proc[p].seen.ans)]
    <3>1. proc' = [proc EXCEPT ![p] = new]
      BY <2>1, <2>3 DEF HandOver
    <3>2. new.op \notin {"ai", "manual"} /\ new.step \in Plain
      BY <2>2 DEF Idle, Plain
    <3> HIDE DEF new
    <3>3. QED
      BY <1>2, <2>3, <3>1, <3>2
  <2>4. CASE sub.status # from
    BY <1>3, <1>4, <2>1, <2>4 DEF HandOver, Plain
  <2>5. QED
    BY <2>3, <2>4
<1>11. ASSUME NEW chosen \in SUBSET Questions, Retry(p, chosen) PROVE Moved(p)
  <2> DEFINE new == [Idle EXCEPT !.op = "retry", !.step = "enqueue", !.todo = {q \in chosen : Kind[q] # "choice"}]
  <2>1. proc' = [proc EXCEPT ![p] = new] /\ \A q \in chosen : ans[q].gs = "system_error"
    BY <1>11 DEF Retry
  <2>2. new.op \notin {"ai", "manual"} /\ new.step \in Plain /\ new.todo \subseteq chosen
    BY DEF Idle, Plain
  <2> HIDE DEF new
  <2>3. QED
    BY <1>2, <2>1, <2>2
<1>12. QED
  BY <1>6, <1>7, <1>8, <1>10, <1>11, <1>9 DEF WebStep, ScanStep

LEMMA CloseMoves ==
  ASSUME BaseInv, NEW p \in Procs, CloseStep(p) \/ Die(p)
  PROVE  Moved(p)
<1> USE DEF Become, End, Go
<1>1. proc \in [Procs -> ProcRow] /\ proc[p] \in ProcRow
  BY DEF BaseInv, TypeInv
<1>2. Idle.todo = {} /\ Idle.op = "none" /\ Idle.step = "idle"
  BY DEF Idle
<1>3. CASE proc' = [proc EXCEPT ![p] = Idle]
  BY <1>1, <1>2, <1>3, MovedPlain DEF Plain
<1>4. ASSUME NEW step \in {"finalize", "promote"}, proc' = [proc EXCEPT ![p].step = step] PROVE Moved(p)
  <2> DEFINE new == [proc[p] EXCEPT !.step = step]
  <2>1. new.op = proc[p].op /\ new.q = proc[p].q /\ new.todo = proc[p].todo /\ new.step \in Plain
    BY <1>1 DEF ProcRow, Plain
  <2>2. proc' = [proc EXCEPT ![p] = new]
    BY <1>4
  <2> HIDE DEF new
  <2>3. QED
    BY <1>1, <2>1, <2>2, MovedPlain
<1>5. ASSUME NEW q \in Questions, Enqueue(p, q) PROVE Moved(p)
  <2> DEFINE new == [proc[p] EXCEPT !.todo = @ \ {q}]
  <2>1. new.op = proc[p].op /\ new.q = proc[p].q /\ new.todo \subseteq proc[p].todo /\ new.step \in Plain
    BY <1>1, <1>5 DEF ProcRow, Plain, Enqueue
  <2>2. proc' = [proc EXCEPT ![p] = new]
    BY <1>5 DEF Enqueue
  <2> HIDE DEF new
  <2>3. QED
    BY <1>1, <2>1, <2>2, MovedPlain
<1>6. ASSUME NEW step \in {"locked", "promoting"}, NEW to, NEW total,
             proc' = [proc EXCEPT ![p] = [proc[p] EXCEPT !.step = step, !.to = to, !.total = total]],
             \/ step = "locked" /\ FinalizeRead(p)
             \/ step = "promoting" /\ PromoteRead(p)
      PROVE  Moved(p)
  <2> DEFINE new == [proc[p] EXCEPT !.step = step, !.to = to, !.total = total]
  <2>1. new.op = proc[p].op /\ new.q = proc[p].q /\ new.todo = proc[p].todo /\ new.step = step
    BY <1>1 DEF ProcRow
  <2> HIDE DEF new
  <2>2. proc'[p] = new /\ \A s \in Procs : s # p => proc'[s] = proc[s]
    BY <1>1, <1>6 DEF new
  <2>3. QED
    BY <1>6, <2>1, <2>2 DEF Moved
<1>7. CASE FinalizeRead(p) \/ PromoteRead(p)
  <2>1. CASE FinalizeRead(p)
    <3> DEFINE to == Verdict(ans, cg)
               total == Sum(ans)
    <3>1. \/ proc' = [proc EXCEPT ![p] = [proc[p] EXCEPT !.step = "locked", !.to = to, !.total = total]]
          \/ proc' = [proc EXCEPT ![p].step = "promote"] \/ proc' = [proc EXCEPT ![p] = Idle]
      BY <2>1 DEF FinalizeRead
    <3> HIDE DEF to, total
    <3>2. QED
      BY <1>3, <1>4, <1>6, <2>1, <3>1
  <2>2. CASE PromoteRead(p)
    <3> DEFINE total == Sum(ans)
    <3>1. \/ proc' = [proc EXCEPT ![p] = [proc[p] EXCEPT !.step = "promoting", !.to = "graded", !.total = total]]
          \/ proc' = [proc EXCEPT ![p] = Idle]
      BY <2>2 DEF PromoteRead
    <3> HIDE DEF total
    <3>2. QED
      BY <1>3, <1>6, <2>2, <3>1
  <2>3. QED
    BY <1>7, <2>1, <2>2
<1>8. QED
  BY <1>3, <1>4, <1>5, <1>7 DEF CloseStep, Die, Enqueued, FinalizeCommit, PromoteCommit

LEMMA WorkerMoves ==
  ASSUME BaseInv, NEW p \in Procs, NEW q \in Questions, JudgeStep(p, q)
  PROVE  Moved(p)
<1> USE DEF Become, End, Go, At
<1>1. proc \in [Procs -> ProcRow] /\ proc[p] \in ProcRow
  BY DEF BaseInv, TypeInv
<1>2. Idle.todo = {} /\ Idle.op = "none" /\ Idle.step = "idle"
  BY DEF Idle
<1>3. CASE proc' = [proc EXCEPT ![p] = Idle]
  BY <1>1, <1>2, <1>3, MovedPlain DEF Plain
<1>4. ASSUME NEW step, proc' = [proc EXCEPT ![p].step = step]
      PROVE  /\ \A s \in Procs : s # p => proc'[s] = proc[s]
             /\ proc'[p].op = proc[p].op /\ proc'[p].q = proc[p].q /\ proc'[p].todo = proc[p].todo
             /\ proc'[p].step = step
  BY <1>1, <1>4 DEF ProcRow
<1>5. CASE proc' = [proc EXCEPT ![p].step = "finalize"]
  BY <1>4, <1>5 DEF Moved, Plain
<1>6. CASE proc' = [proc EXCEPT ![p] = [Idle EXCEPT !.op = "recover", !.step = "finalize"]]
  <2> DEFINE new == [Idle EXCEPT !.op = "recover", !.step = "finalize"]
  <2>1. new.op = "recover" /\ new.step \in Plain /\ new.todo = {}
    BY DEF Idle, Plain
  <2> HIDE DEF new
  <2>2. QED
    BY <1>1, <1>6, <2>1, MovedPlain DEF new
<1>7. CASE JudgeClaim(p, q)
  <2> DEFINE seen == Read(NoSub, Only(q, ans'[q]))
             new == [Idle EXCEPT !.op = "judge", !.step = "judging", !.q = {q}, !.seen = seen]
  <2>1. proc' = [proc EXCEPT ![p] = new]
    BY <1>7 DEF JudgeClaim
  <2> HIDE DEF seen
  <2>2. new.op = "judge" /\ new.step = "judging" /\ new.q = {q} /\ new.todo = {}
    BY DEF Idle
  <2> HIDE DEF new
  <2>3. proc'[p] = new /\ \A s \in Procs : s # p => proc'[s] = proc[s]
    BY <1>1, <2>1
  <2>4. QED
    BY <1>7, <2>2, <2>3 DEF Moved
<1>8. CASE AIClaim(p, q)
  <2> DEFINE new == [Idle EXCEPT !.op = "ai", !.step = "asking", !.q = {q}]
  <2>1. proc' = [proc EXCEPT ![p] = new]
    BY <1>8 DEF AIClaim
  <2>2. new.op = "ai" /\ new.step = "asking" /\ new.q = {q} /\ new.todo = {}
    BY DEF Idle
  <2> HIDE DEF new
  <2>3. proc'[p] = new /\ \A s \in Procs : s # p => proc'[s] = proc[s]
    BY <1>1, <2>1
  <2>4. QED
    BY <1>8, <2>2, <2>3 DEF Moved
<1>9. CASE JudgeFail(p, q)
  <2>1. proc' = [proc EXCEPT ![p].step = "clearing"] /\ proc[p].op = "judge"
    BY <1>9 DEF JudgeFail
  <2>2. QED
    BY <1>4, <1>9, <2>1 DEF Moved
<1>10. CASE JudgeWrite(p, q)
  <2>1. proc' = [proc EXCEPT ![p].step = "completing"] /\ proc[p].op = "judge"
    BY <1>10 DEF JudgeWrite
  <2>2. QED
    BY <1>4, <1>10, <2>1 DEF Moved
<1>11. CASE JudgeComplete(p, q)
  <2>1. CASE Kind[q] = "code"
    BY <1>5, <1>11, <2>1 DEF JudgeComplete
  <2>2. CASE Kind[q] # "code"
    <3>1. proc' = [proc EXCEPT ![p].step = "creating"] /\ proc[p].op = "judge"
      BY <1>11, <2>2 DEF JudgeComplete
    <3>2. QED
      BY <1>4, <1>11, <2>2, <3>1 DEF Moved
  <2>3. QED
    BY <2>1, <2>2
<1>12. CASE AIScore(p, q)
  <2>1. proc' = [proc EXCEPT ![p].step = "scored"] /\ proc[p].op = "ai"
    BY <1>12 DEF AIScore
  <2>2. QED
    BY <1>4, <1>12, <2>1 DEF Moved
<1>13. QED
  BY <1>3, <1>5, <1>6, <1>7, <1>8, <1>9, <1>10, <1>11, <1>12
     DEF JudgeStep, JudgeClear, CreateGrade, Exhaust, AIComplete, AIGivesUp

\* What finalize and promote know when they go on to write.
LEMMA LockedRead ==
  ASSUME BaseInv, NEW p \in Procs, FinalizeRead(p), proc'[p].step = "locked"
  PROVE  /\ sub.status = "grading" /\ UNCHANGED rows /\ ParentFree(p)
         /\ proc'[p].to = Verdict(ans, cg) /\ proc'[p].total = Sum(ans)
<1> DEFINE verdict == Verdict(ans, cg)
           total == Sum(ans)
           new == [proc[p] EXCEPT !.step = "locked", !.to = verdict, !.total = total]
<1>1. proc \in [Procs -> ProcRow] /\ p \in DOMAIN proc
  BY DEF BaseInv, TypeInv
<1>2. CASE sub.status = "grading" /\ verdict # "waiting"
  <2>1. proc' = [proc EXCEPT ![p] = new] /\ ParentFree(p) /\ UNCHANGED rows
    BY <1>2 DEF FinalizeRead, Become
  <2>2. new.to = verdict /\ new.total = total
    BY <1>1 DEF ProcRow
  <2> HIDE DEF new, verdict, total
  <2>3. proc'[p].to = verdict /\ proc'[p].total = total
    BY <1>1, <2>1, <2>2
  <2>4. QED
    BY <1>2, <2>1, <2>3 DEF verdict, total
<1>3. CASE ~(sub.status = "grading" /\ verdict # "waiting")
  <2>1. proc' = [proc EXCEPT ![p].step = "promote"] \/ proc' = [proc EXCEPT ![p] = Idle]
    BY <1>3 DEF FinalizeRead, Go, End, Become
  <2>2. proc'[p].step \in {"promote", "idle"}
    BY <1>1, <2>1 DEF ProcRow, Idle
  <2>3. QED
    BY <2>2
<1>4. QED
  BY <1>2, <1>3

LEMMA PromotingRead ==
  ASSUME BaseInv, NEW p \in Procs, PromoteRead(p), proc'[p].step = "promoting"
  PROVE  /\ sub.status = "review_required" /\ Complete(ans, cg) /\ UNCHANGED rows
         /\ proc'[p].to = "graded" /\ proc'[p].total = Sum(ans)
<1> DEFINE total == Sum(ans)
           new == [proc[p] EXCEPT !.step = "promoting", !.to = "graded", !.total = total]
<1>1. p \in DOMAIN proc /\ proc[p] \in ProcRow
  BY DEF BaseInv, TypeInv
<1>2. CASE sub.status = "review_required" /\ Complete(ans, cg)
  <2>1. proc' = [proc EXCEPT ![p] = new] /\ UNCHANGED rows
    BY <1>2 DEF PromoteRead, Become
  <2>2. new.to = "graded" /\ new.total = total
    BY <1>1 DEF ProcRow
  <2> HIDE DEF new, total
  <2>3. proc'[p].to = "graded" /\ proc'[p].total = total
    BY <1>1, <2>1, <2>2
  <2>4. QED
    BY <1>2, <2>1, <2>3 DEF total
<1>3. CASE ~(sub.status = "review_required" /\ Complete(ans, cg))
  <2>1. proc' = [proc EXCEPT ![p] = Idle]
    BY <1>3 DEF PromoteRead, End, Become
  <2>2. proc'[p].step = "idle"
    BY <1>1, <2>1 DEF Idle
  <2>3. QED
    BY <2>2
<1>4. QED
  BY <1>2, <1>3

-----------------------------------------------------------------------------
(* What a step of an undisturbed attempt does to the rows.                  *)

\* What may happen to one answer: handed over, queued or exhausted, claimed,
\* judged, recovered, retried, or scored by the AI.
Changed(q) ==
  /\ ans'[q].gs # "completed" => ans'[q].score = Null
  /\ \/ sub.status \in Early /\ sub'.status = "grading"
     \/ /\ ans[q].gs = "pending" /\ ans'[q].gs \in {"queued", "system_error"}
        /\ \/ sub.status = "grading" /\ Written(q)
           \/ \E p \in Procs : q \in proc[p].todo
     \/ ans[q].gs = "queued" /\ ans'[q].gs = "running"
     \/ /\ ans[q].gs = "running"
        /\ Kind[q] = "active" => ans'[q].score = Null
        /\ \E p \in Procs : /\ proc[p].step = "judging" /\ q \in proc[p].q /\ proc'[p] # proc[p]
                            /\ ans'[q].gs # "running"
     \/ ans[q].gs = "running" /\ ans'[q].gs = "pending" /\ ~Judging(q)
     \/ ans[q].gs = "system_error" /\ sub.status = "review_required"
     \/ ans[q].gs = "completed" /\ cg[q] = "open"

Same(q) == ans'[q].gs = ans[q].gs /\ ans'[q].score = ans[q].score

LEMMA AnswerMoves ==
  ASSUME Undisturbed, Inv, Next, NEW q \in Questions
  PROVE  Same(q) \/ Changed(q)
<1>1. /\ ans \in Answers /\ ans[q] \in AnswerType /\ proc \in [Procs -> ProcRow]
      /\ ans[q].text = "absent" => ans[q] = NoAnswer
      /\ ans[q].gs # "completed" => ans[q].score = Null
  BY DEF Inv, BaseInv, TypeInv, Answers, RowsReal, PointsLast
<1>2. SUFFICES ASSUME ans' # ans PROVE Same(q) \/ Changed(q)
  BY DEF Same
<1> USE DEF At
<1>3. ASSUME NEW p \in Procs, HandInCommit(p) \/ ScanCommit(p) PROVE Changed(q)
  <2>1. PICK from \in Early : HandOver(p, from)
    BY <1>3 DEF HandInCommit, ScanCommit, Early
  <2>2. sub.status \in Early /\ sub' = [sub EXCEPT !.status = "grading"] /\ sub \in SubType
        /\ ans' = [k \in Questions |-> Prepared(ans[k], proc[p].seen.ans[k], k)]
    BY <1>2, <2>1 DEF HandOver, Inv, BaseInv, TypeInv
  <2>3. ans[q].gs = "pending"
    BY <2>2 DEF Inv, BaseInv, UntouchedEarly
  <2> DEFINE seen == proc[p].seen.ans[q]
  <2>4. ans'[q] = Prepared(ans[q], seen, q)
    BY <2>2
  <2> HIDE DEF seen
  <2>5. ans'[q].gs # "completed" => ans'[q].score = Null
    BY <1>1, <2>3, <2>4 DEF Prepared, AnswerType
  <2>6. QED
    BY <2>2, <2>5 DEF Changed, SubType
<1>4. ASSUME NEW p \in Procs, WebStep(p) PROVE Same(q) \/ Changed(q)
  <2>1. CASE SaveCommit(p)
    <3>1. PICK k \in proc[p].q : ans' = [ans EXCEPT ![k] = SavedOver(@, proc[p].seen.ans[k], proc[p].text)]
      BY <2>1 DEF SaveCommit
    <3> DEFINE seen == proc[p].seen.ans[q]
               text == proc[p].text
               ver == seen.ver + 1
    <3>2. k = q => ans'[q] \in {ans[q], [NoAnswer EXCEPT !.text = text, !.ver = 1], [ans[q] EXCEPT !.text = text, !.ver = ver]}
                   /\ (ans'[q] = [NoAnswer EXCEPT !.text = text, !.ver = 1] => ans[q] = NoAnswer \/ ans'[q] = ans[q]
                         \/ ans'[q] = [ans[q] EXCEPT !.text = text, !.ver = ver])
      BY <1>1, <3>1 DEF SavedOver, Answers
    <3> HIDE DEF text, ver
    <3>3. Same(q)
      BY <1>1, <3>1, <3>2 DEF Same, NoAnswer, AnswerType, Answers
    <3>4. QED
      BY <3>3
  <2>2. ASSUME NEW chosen \in SUBSET Questions, Retry(p, chosen) PROVE Same(q) \/ Changed(q)
    <3>1. CASE q \in chosen
      <4>1. ans'[q] = Retried(ans[q], q) /\ ans[q].gs = "system_error" /\ sub.status = "review_required"
        BY <2>2, <3>1 DEF Retry
      <4>2. ans'[q].gs # "completed" => ans'[q].score = Null
        BY <1>1, <4>1 DEF Retried, AnswerType
      <4>3. QED
        BY <4>1, <4>2 DEF Changed
    <3>2. CASE q \notin chosen
      BY <2>2, <3>2 DEF Retry, Same
    <3>3. QED
      BY <3>1, <3>2
  <2>3. QED
    BY <1>2, <1>3, <1>4, <2>1, <2>2 DEF WebStep, SaveLoad, HandInLoad, ExtendLoad, ExtendCommit, rows
<1>5. ASSUME NEW p \in Procs, ScanStep(p) PROVE Changed(q)
  BY <1>2, <1>3, <1>5 DEF ScanStep, ScanClaim, ScanLoad, ScanResume, ScanStuck, rows
<1>6. ASSUME NEW p \in Procs, CloseStep(p) \/ Die(p) PROVE Same(q) \/ Changed(q)
  <2>1. PICK k \in Questions : Enqueue(p, k)
    BY <1>2, <1>6 DEF CloseStep, Enqueued, FinalizeRead, FinalizeCommit, PromoteRead, PromoteCommit, Die, rows
  <2>2. CASE k = q /\ ans[q].gs = "pending"
    <3>1. ans'[q].gs = "queued" /\ ans'[q].score = ans[q].score /\ q \in proc[p].todo
      BY <1>1, <2>1, <2>2 DEF Enqueue, Answers, AnswerType
    <3>2. QED
      BY <1>1, <2>2, <3>1 DEF Changed
  <2>3. CASE ~(k = q /\ ans[q].gs = "pending")
    BY <1>1, <2>1, <2>3 DEF Enqueue, Same, Answers
  <2>4. QED
    BY <2>2, <2>3
<1>7. ASSUME NEW p \in Procs, NEW k \in Questions, TeacherStep(p, k) PROVE FALSE
  BY <1>2, <1>7 DEF TeacherStep, ManualLoad, ManualCommit, Override, Undisturbed, Inv, NoMarks
<1>8. ASSUME NEW p \in Procs, NEW k \in Questions, JudgeStep(p, k) PROVE Same(q) \/ Changed(q)
  <2>1. CASE k # q
    BY <1>1, <1>2, <1>8, <2>1
       DEF JudgeStep, JudgeClaim, JudgeFail, JudgeClear, JudgeWrite, JudgeComplete, Completed, CreateGrade,
           Exhaust, AIClaim, AIScore, AIComplete, AIGivesUp, Same, Answers, rows
  <2>2. CASE JudgeClaim(p, q)
    BY <1>1, <2>2 DEF JudgeClaim, Changed, Answers, AnswerType
  <2>3. CASE JudgeFail(p, q)
    <3>1. ans[q].gs = "running" /\ proc[p].step = "judging" /\ q \in proc[p].q
      BY <2>3 DEF JudgeFail, Inv, Judges
    <3>2. ans'[q].gs \in {"system_error", "pending"} /\ ans'[q].score = ans[q].score
      BY <1>1, <2>3, <3>1 DEF JudgeFail, Answers, AnswerType
    <3>3. proc'[p].step = "clearing"
      BY <1>1, <2>3 DEF JudgeFail, Go, ProcRow
    <3>4. QED
      BY <1>1, <3>1, <3>2, <3>3 DEF Changed
  <2>4. CASE JudgeClear(p, q)
    <3>1. ans[q].gs \in {"system_error", "pending"}
      BY <2>4 DEF JudgeClear, Inv, Judges
    <3>2. Same(q)
      BY <1>1, <2>4, <3>1 DEF JudgeClear, Same, Answers, AnswerType
    <3>3. QED
      BY <3>2
  <2>5. CASE JudgeWrite(p, q)
    <3>1. ans[q].gs = "running" /\ proc[p].step = "judging" /\ q \in proc[p].q
      BY <2>5 DEF JudgeWrite, Inv, Judges
    <3>2. ans'[q].gs = "completed" /\ (Kind[q] = "active" => ans'[q].score = ans[q].score)
      BY <1>1, <2>5, <3>1 DEF JudgeWrite, Answers, AnswerType
    <3>3. proc'[p].step = "completing"
      BY <1>1, <2>5 DEF JudgeWrite, Go, ProcRow
    <3>4. QED
      BY <1>1, <3>1, <3>2, <3>3 DEF Changed
  <2>6. CASE JudgeComplete(p, q)
    BY <1>1, <2>6 DEF JudgeComplete, Completed, Inv, Judges, Same
  <2>7. CASE Exhaust(p, q)
    <3>1. ans[q].gs = "pending" /\ ans'[q].gs = "system_error" /\ ans'[q].score = Null
      BY <1>1, <2>7 DEF Exhaust, Answers, AnswerType
    <3>2. QED
      BY <2>7, <3>1 DEF Exhaust, Changed
  <2>8. CASE AIScore(p, q)
    <3>1. cg[q] = "open" /\ ans'[q].gs = ans[q].gs
      BY <1>1, <2>8 DEF AIScore, Inv, Graders, Answers, AnswerType
    <3>2. ans[q].gs = "completed"
      BY <3>1 DEF Inv, Graders
    <3>3. QED
      BY <3>1, <3>2 DEF Changed
  <2>9. QED
    BY <1>2, <1>8, <2>1, <2>2, <2>3, <2>4, <2>5, <2>6, <2>7, <2>8
       DEF JudgeStep, CreateGrade, AIClaim, AIComplete, AIGivesUp, rows
<1>9. ASSUME NEW k \in Questions, Recover(k) PROVE Same(q) \/ Changed(q)
  <2>1. CASE k # q
    BY <1>1, <1>9, <2>1 DEF Recover, Same, Answers
  <2>2. CASE k = q /\ ans[q].gs = "pending"
    <3>1. ans'[q].gs = "queued" /\ ans'[q].score = ans[q].score
      BY <1>1, <1>9, <2>2 DEF Recover, Answers, AnswerType
    <3>2. QED
      BY <1>1, <1>9, <2>2, <3>1 DEF Recover, Changed
  <2>3. CASE k = q /\ ans[q].gs # "pending"
    <3>1. /\ ans[q].gs = "running" /\ ~Judging(q)
          /\ ans'[q].gs = "pending" /\ ans'[q].score = ans[q].score
      BY <1>1, <1>9, <2>3 DEF Recover, Undisturbed, Answers, AnswerType
    <3>2. QED
      BY <1>1, <3>1 DEF Changed
  <2>4. QED
    BY <2>1, <2>2, <2>3
<1>10. Web \subseteq Procs /\ Scanners \subseteq Procs /\ Workers \subseteq Procs
  BY DEF Procs
<1>11. QED
  BY <1>2, <1>4, <1>5, <1>6, <1>7, <1>8, <1>9, <1>10 DEF Next, Start, TimeIsUp, Reopen

\* What may happen to one AI grade.
GradeChanged(q) ==
  \/ /\ cg[q] = "none" /\ cg'[q] = "open"
     /\ ans[q].gs = "completed" /\ ans[q].score = Null
  \/ /\ cg[q] = "open" /\ cg'[q] \in {"completed", "review_required"}
     /\ \E p \in Procs : proc[p].op = "ai" /\ q \in proc[p].q /\ proc'[p] # proc[p]
  \/ cg[q] = "review_required" /\ cg'[q] = "open"

LEMMA GradeMoves ==
  ASSUME Undisturbed, Inv, Next, NEW q \in Questions
  PROVE  cg'[q] = cg[q] \/ GradeChanged(q)
<1>1. cg \in [Questions -> GradeStatuses] /\ proc \in [Procs -> ProcRow]
  BY DEF Inv, BaseInv, TypeInv
<1>2. SUFFICES ASSUME cg'[q] # cg[q] PROVE GradeChanged(q)
  OBVIOUS
<1>3. ASSUME NEW p \in Procs, NEW k \in Questions, TeacherStep(p, k) PROVE FALSE
  BY <1>2, <1>3 DEF TeacherStep, ManualLoad, ManualCommit, Override, Undisturbed, Inv, NoMarks, At, rows
<1>4. ASSUME NEW p \in Procs, NEW k \in Questions, CreateGrade(p, k) PROVE GradeChanged(q)
  <2>1. k = q /\ cg[q] = "none" /\ cg'[q] = "open" /\ proc[p].step = "creating" /\ q \in proc[p].q
    BY <1>1, <1>2, <1>4 DEF CreateGrade, At
  <2>2. QED
    BY <2>1 DEF Inv, Judges, GradeChanged
<1>5. ASSUME NEW p \in Procs, NEW k \in Questions, AIComplete(p, k) \/ AIGivesUp(p, k) PROVE GradeChanged(q)
  <2>1. /\ k = q /\ cg'[q] \in {"completed", "review_required"} /\ proc[p].op = "ai" /\ q \in proc[p].q
        /\ proc[p].step \in {"asking", "scored"}
    BY <1>1, <1>2, <1>5 DEF AIComplete, AIGivesUp, At
  <2>2. cg[q] = "open"
    BY <2>1 DEF Inv, Graders
  <2>3. proc'[p].step = "finalize"
    <3>1. CASE AIComplete(p, k)
      BY <1>1, <3>1 DEF AIComplete, Go, ProcRow
    <3>2. CASE AIGivesUp(p, k)
      BY <1>1, <3>2 DEF AIGivesUp, Become, Idle
    <3>3. QED
      BY <1>5, <3>1, <3>2
  <2>4. QED
    BY <2>1, <2>2, <2>3 DEF GradeChanged
<1>6. ASSUME NEW k \in Questions, Reopen(k) PROVE GradeChanged(q)
  BY <1>1, <1>2, <1>6 DEF Reopen, Undisturbed, GradeChanged
<1>7. ASSUME NEW p \in Procs, WebStep(p) \/ ScanStep(p) \/ CloseStep(p) \/ Die(p) PROVE FALSE
  BY <1>2, <1>7
     DEF WebStep, SaveLoad, SaveCommit, HandInLoad, HandInCommit, ExtendLoad, ExtendCommit, Retry, HandOver,
         ScanStep, ScanClaim, ScanLoad, ScanResume, ScanCommit, ScanStuck, CloseStep, Enqueue, Enqueued,
         FinalizeRead, FinalizeCommit, PromoteRead, PromoteCommit, Die, rows
<1>8. ASSUME NEW p \in Procs, NEW k \in Questions, JudgeStep(p, k) PROVE GradeChanged(q)
  BY <1>2, <1>4, <1>5, <1>8
     DEF JudgeStep, JudgeClaim, JudgeFail, JudgeClear, JudgeWrite, JudgeComplete, Exhaust, AIClaim, AIScore, rows
<1>9. Web \subseteq Procs /\ Scanners \subseteq Procs /\ Workers \subseteq Procs
  BY DEF Procs
<1>10. QED
  BY <1>2, <1>3, <1>6, <1>7, <1>8, <1>9 DEF Next, Start, TimeIsUp, Recover

\* What may happen to the submission and the grade book.
SubChanged ==
  \/ sub.status \in Early /\ <<sub.status, sub'.status>> \in Lifecycle!Moves /\ sub'.total = sub.total /\ grade' = grade
  \/ /\ sub.status = "review_required" /\ sub'.status = "grading" /\ sub'.total = sub.total /\ grade' = grade
     /\ \E q \in Questions : ans[q].gs = "system_error"
  \/ \E p \in Procs :
       /\ \/ sub.status = "grading" /\ proc[p].step = "locked"
          \/ sub.status = "review_required" /\ proc[p].step = "promoting"
       /\ proc'[p] # proc[p] /\ UNCHANGED <<ans, cg>> /\ sub'.status = proc[p].to
       /\ IF proc[p].to = "graded" THEN sub'.total = proc[p].total /\ grade' = proc[p].total
          ELSE sub'.total = sub.total /\ grade' = grade

LEMMA SubMoves ==
  ASSUME Undisturbed, Inv, Next
  PROVE  \/ sub'.status = sub.status /\ sub'.total = sub.total /\ grade' = grade
         \/ SubChanged /\ \A r \in Procs : proc[r].step = "locked" => proc'[r] # proc[r]
         \/ SubChanged /\ sub.status = "none"
<1>1. sub \in SubType /\ proc \in [Procs -> ProcRow]
  BY DEF Inv, BaseInv, TypeInv
<1> DEFINE Goal == \/ sub'.status = sub.status /\ sub'.total = sub.total /\ grade' = grade
                   \/ SubChanged /\ \A r \in Procs : proc[r].step = "locked" => proc'[r] # proc[r]
                   \/ SubChanged /\ sub.status = "none"
<1>2. SUFFICES ASSUME ~UNCHANGED <<sub, grade>> PROVE Goal
  OBVIOUS
<1>3. CASE Start \/ TimeIsUp
  BY <1>1, <1>3 DEF Start, TimeIsUp, SubChanged, Early, Lifecycle!Moves, SubType
<1>4. ASSUME NEW p \in Procs, FinalizeCommit(p) \/ PromoteCommit(p) PROVE Goal
  <2>1. proc'[p] # proc[p] /\ UNCHANGED <<ans, cg>>
    BY <1>1, <1>4 DEF FinalizeCommit, PromoteCommit, Go, End, Become, ProcRow, Idle
  <2>2. \A r \in Procs : proc[r].step = "locked" => r = p
    BY <1>4 DEF FinalizeCommit, PromoteCommit, ParentFree, Inv, Locks
  <2>3. PICK from \in {"grading", "review_required"} :
          /\ Close(p, from)
          /\ \/ from = "grading" /\ proc[p].step = "locked"
             \/ from = "review_required" /\ proc[p].step = "promoting"
    BY <1>4 DEF FinalizeCommit, PromoteCommit
  <2>4. sub.status = from
    BY <1>2, <2>3 DEF Close
  <2>5. SubChanged
    BY <1>1, <2>1, <2>3, <2>4 DEF Close, SubChanged, SubType
  <2>6. QED
    BY <2>1, <2>2, <2>5
<1>5. ASSUME NEW p \in Procs, CloseStep(p) \/ Die(p) PROVE Goal
  BY <1>2, <1>4, <1>5 DEF CloseStep, Enqueue, Enqueued, FinalizeRead, PromoteRead, Die, rows
<1>6. ASSUME NEW p \in Procs, HandInCommit(p) \/ ScanCommit(p) \/ ScanClaim(p) PROVE Goal
  <2>1. \A r \in Procs : proc[r].step # "locked"
    BY <1>6 DEF HandInCommit, ScanCommit, ScanClaim, HandOver, ParentFree, At, Idle
  <2>2. CASE ScanClaim(p)
    BY <1>1, <2>1, <2>2 DEF ScanClaim, SubChanged, Early, Lifecycle!Moves, SubType
  <2>3. CASE HandInCommit(p) \/ ScanCommit(p)
    <3>1. PICK from \in {"started", "submitted"} : HandOver(p, from)
      BY <2>3 DEF HandInCommit, ScanCommit
    <3>2. sub.status = from /\ sub' = [sub EXCEPT !.status = "grading"] /\ grade' = grade
      BY <1>2, <3>1 DEF HandOver
    <3>3. QED
      BY <1>1, <2>1, <3>2 DEF SubChanged, Early, Lifecycle!Moves, SubType
  <2>4. QED
    BY <1>6, <2>2, <2>3
<1>7. ASSUME NEW p \in Procs, NEW chosen \in SUBSET Questions, Retry(p, chosen) PROVE Goal
  <2>1. \A r \in Procs : proc[r].step # "locked"
    BY <1>7 DEF Retry, ParentFree, Idle
  <2>2. QED
    BY <1>1, <1>7, <2>1 DEF Retry, SubChanged, SubType
<1>8. ASSUME NEW p \in Procs, ExtendCommit(p) PROVE Goal
  BY <1>1, <1>8 DEF ExtendCommit, SubType
<1>9. ASSUME NEW p \in Procs, WebStep(p) \/ ScanStep(p) PROVE Goal
  BY <1>2, <1>6, <1>7, <1>8, <1>9
     DEF WebStep, SaveLoad, SaveCommit, HandInLoad, ExtendLoad, ScanStep, ScanLoad, ScanResume, ScanStuck, rows
<1>10. ASSUME NEW p \in Procs, NEW k \in Questions, TeacherStep(p, k) PROVE FALSE
  BY <1>2, <1>10 DEF TeacherStep, ManualLoad, ManualCommit, Override, Undisturbed, Inv, NoMarks, At, rows
<1>11. ASSUME NEW p \in Procs, NEW k \in Questions, JudgeStep(p, k) PROVE FALSE
  BY <1>2, <1>11 DEF JudgeStep, JudgeClaim, JudgeFail, JudgeClear, JudgeWrite, JudgeComplete, Exhaust, CreateGrade,
                     AIClaim, AIScore, AIComplete, AIGivesUp, rows
<1>12. Web \subseteq Procs /\ Scanners \subseteq Procs /\ Workers \subseteq Procs
  BY DEF Procs
<1>13. QED
  BY <1>2, <1>3, <1>5, <1>9, <1>10, <1>11, <1>12 DEF Next, Recover, Reopen

-----------------------------------------------------------------------------
(* The invariant of an undisturbed attempt, part by part.                   *)

LEMMA Movers ==
  ASSUME Undisturbed, Inv, Next
  PROVE  proc' = proc \/ \E p \in Procs : Moved(p)
<1>1. ASSUME NEW p \in Procs, NEW q \in Questions, TeacherStep(p, q) PROVE FALSE
  BY <1>1 DEF TeacherStep, ManualLoad, ManualCommit, Override, Undisturbed, Inv, NoMarks, At
<1>2. Web \subseteq Procs /\ Scanners \subseteq Procs /\ Workers \subseteq Procs
  BY DEF Procs
<1>3. BaseInv
  BY DEF Inv
<1>4. QED
  BY <1>1, <1>2, <1>3, WebMoves, CloseMoves, WorkerMoves DEF Next, Start, TimeIsUp, Recover, Reopen

\* While an attempt is locked no answer appears, and a judge that clears is alone.
LEMMA NewAnswers ==
  ASSUME Undisturbed, Inv, Next, NEW q \in Questions, ~Written(q), ans'[q].text # "absent"
  PROVE  \A r \in Procs : proc[r].step # "locked"
<1>1. /\ ans \in Answers /\ ans[q] = NoAnswer /\ ans' # ans
      /\ \A p \in Procs : /\ proc[p].op \in {"judge", "ai"} => q \notin proc[p].q
                          /\ q \notin proc[p].todo /\ proc[p].seen.ans[q].text = "absent"
  BY DEF Inv, BaseInv, TypeInv, RowsReal, Written, Real
<1>2. cg[q] = "none" /\ ans[q].text = "absent" /\ ans[q].gs = "pending"
  BY <1>1 DEF Inv, BaseInv, RowsReal, NoAnswer
<1> USE DEF At
<1>3. ASSUME NEW p \in Procs, SaveCommit(p) PROVE \A r \in Procs : proc[r].step # "locked"
  BY <1>3 DEF SaveCommit, ParentFree
<1>4. ASSUME NEW p \in Procs, HandInCommit(p) \/ ScanCommit(p) PROVE FALSE
  <2>1. PICK from \in {"started", "submitted"} : HandOver(p, from)
    BY <1>4 DEF HandInCommit, ScanCommit
  <2>2. ans'[q] = Prepared(ans[q], proc[p].seen.ans[q], q)
    BY <1>1, <2>1 DEF HandOver
  <2>3. QED
    BY <1>1, <1>2, <2>2 DEF Prepared
<1>5. ASSUME NEW p \in Procs, NEW chosen \in SUBSET Questions, Retry(p, chosen) PROVE FALSE
  BY <1>2, <1>5 DEF Retry, Written
<1>6. ASSUME NEW p \in Procs, NEW k \in Questions, Enqueue(p, k) PROVE FALSE
  BY <1>1, <1>2, <1>6 DEF Enqueue, Answers
<1>7. ASSUME NEW p \in Procs, NEW k \in Questions, JudgeStep(p, k) PROVE FALSE
  BY <1>1, <1>2, <1>7 DEF JudgeStep, JudgeClaim, JudgeFail, JudgeClear, JudgeWrite, JudgeComplete, Completed,
     Exhaust, CreateGrade, AIClaim, AIScore, AIComplete, AIGivesUp, Answers, Written, rows
<1>8. ASSUME NEW p \in Procs, NEW k \in Questions, TeacherStep(p, k) PROVE FALSE
  BY <1>8 DEF TeacherStep, ManualLoad, ManualCommit, Override, Undisturbed, Inv, NoMarks
<1>9. ASSUME NEW k \in Questions, Recover(k) \/ Reopen(k) PROVE FALSE
  BY <1>1, <1>2, <1>9 DEF Recover, Reopen, Answers, Written
<1>10. Web \subseteq Procs /\ Scanners \subseteq Procs /\ Workers \subseteq Procs
  BY DEF Procs
<1>11. QED
  BY <1>1, <1>3, <1>4, <1>5, <1>6, <1>7, <1>8, <1>9, <1>10
     DEF Next, Start, TimeIsUp, WebStep, SaveLoad, HandInLoad, ExtendLoad, ExtendCommit, ScanStep, ScanClaim,
         ScanLoad, ScanResume, ScanStuck, CloseStep, Enqueued, FinalizeRead, FinalizeCommit, PromoteRead,
         PromoteCommit, Die, rows

LEMMA ClearingEnds ==
  ASSUME Undisturbed, Inv, Next, NEW r \in Procs, NEW q \in proc[r].q, proc[r].step = "clearing"
  PROVE  proc'[r] # proc[r]
<1>1. proc[r].op = "judge" /\ Unfinished(r) /\ proc \in [Procs -> ProcRow]
  BY DEF Inv, BaseInv, TypeInv, Judges, Unfinished, Undisturbed
<1>2. \A p \in Procs : MayMove(p) => p = r
  BY <1>1 DEF MayMove
<1> USE DEF At, Go, Become, End
<1>3. Die(r) \/ (\E k \in Questions : JudgeClear(r, k))
  <2>1. Web \subseteq Procs /\ Scanners \subseteq Procs /\ Workers \subseteq Procs
    BY DEF Procs
  <2>2. ~WebStep(r)
    <3>1. proc[r] # Idle
      BY <1>1 DEF Idle
    <3>2. QED
      BY <1>1, <3>1 DEF WebStep, SaveLoad, SaveCommit, HandInLoad, HandInCommit, ExtendLoad, ExtendCommit, Retry
  <2>3. ~ScanStep(r)
    BY <1>1 DEF ScanStep, ScanClaim, ScanLoad, ScanResume, ScanCommit, ScanStuck, Idle
  <2>4. ~CloseStep(r)
    BY <1>1 DEF CloseStep, Enqueue, Enqueued, FinalizeRead, FinalizeCommit, PromoteRead, PromoteCommit
  <2>5. \A k \in Questions : ~TeacherStep(r, k)
    BY <1>1 DEF TeacherStep, ManualLoad, ManualCommit, Override, Idle
  <2>6. \A k \in Questions : JudgeStep(r, k) => JudgeClear(r, k)
    BY <1>1 DEF JudgeStep, JudgeClaim, JudgeFail, JudgeWrite, JudgeComplete, Exhaust, CreateGrade,
                AIClaim, AIScore, AIComplete, AIGivesUp, Idle
  <2>7. QED
    BY <1>1, <1>2, <2>1, <2>2, <2>3, <2>4, <2>5, <2>6 DEF Next
<1>4. proc'[r].step \in {"idle", "finalize"}
  <2>1. CASE Die(r)
    BY <1>1, <2>1 DEF Die, Idle
  <2>2. ASSUME NEW k \in Questions, JudgeClear(r, k) PROVE proc'[r].step \in {"idle", "finalize"}
    <3>1. proc' = [proc EXCEPT ![r] = Idle] \/ proc' = [proc EXCEPT ![r].step = "finalize"]
      BY <2>2 DEF JudgeClear
    <3>2. QED
      BY <1>1, <3>1 DEF Idle, ProcRow
  <2>3. QED
    BY <1>3, <2>1, <2>2
<1>5. QED
  BY <1>4

LEMMA JudgesStep ==
  ASSUME Undisturbed, Inv, Next
  PROVE  Judges'
<1>1. /\ ans \in Answers /\ proc \in [Procs -> ProcRow] /\ [Next]_vars /\ BaseInv
      /\ Kind \in [Questions -> {"choice", "code", "active"}]
  BY Ranges DEF Inv, BaseInv, TypeInv
<1>2. \A r \in Procs : proc[r].q \subseteq Questions /\ \A q, k \in proc[r].q : q = k
  BY <1>1 DEF ProcRow, BaseInv, RowsReal, Real
<1>3. ASSUME NEW r \in Procs, proc'[r] = proc[r], NEW q \in proc[r].q
      PROVE  /\ proc[r].step = "judging" => proc[r].op = "judge" /\ ans'[q].gs = "running"
             /\ proc[r].step # "clearing"
             /\ proc[r].step \in {"completing", "creating"} =>
                  /\ ans'[q].gs = "completed" /\ Kind[q] # "choice"
                  /\ Kind[q] = "active" /\ cg'[q] = "none" => ans'[q].score = Null
             /\ proc[r].step = "creating" => Kind[q] = "active"
  <2>1. q \in Questions
    BY <1>2
  <2>2. proc[r].step # "clearing"
    BY <1>3, ClearingEnds
  <2>3. sub.status \in Early => ans[q].gs = "pending"
    BY <2>1 DEF Inv, BaseInv, UntouchedEarly
  <2>4. CASE proc[r].step = "judging"
    <3>1. proc[r].op = "judge" /\ ans[q].gs = "running" /\ Judging(q)
      BY <2>4 DEF Inv, Judges, Judging
    <3>2. \A p \in Procs : proc[p].step = "judging" /\ q \in proc[p].q => p = r
      BY <2>4 DEF Inv, Judges
    <3>3. ~Changed(q)
      BY <1>3, <2>3, <3>1, <3>2 DEF Changed
    <3>4. QED
      BY <2>1, <2>4, <3>1, <3>3, AnswerMoves DEF Same
  <2>5. CASE proc[r].step \in {"completing", "creating"}
    <3>1. /\ ans[q].gs = "completed" /\ Kind[q] # "choice" /\ (proc[r].step = "creating" => Kind[q] = "active")
          /\ Kind[q] = "active" /\ cg[q] = "none" => ans[q].score = Null
      BY <2>5 DEF Inv, Judges
    <3>2. ans'[q].gs = "completed"
      BY <1>1, <2>1, <3>1, FinishedStep
    <3>3. cg'[q] = "none" => cg[q] = "none"
      BY <2>1, GradeMoves DEF GradeChanged
    <3>4. cg[q] = "none" => ~Changed(q)
      BY <2>3, <3>1 DEF Changed
    <3>5. cg[q] = "none" => ans'[q].score = ans[q].score
      BY <2>1, <3>4, AnswerMoves DEF Same
    <3>6. QED
      BY <2>5, <3>1, <3>2, <3>3, <3>5
  <2>6. QED
    BY <2>2, <2>4, <2>5
<1>4. CASE proc' = proc
  BY <1>3, <1>4 DEF Inv, Judges
<1>5. ASSUME NEW p \in Procs, Moved(p) PROVE Judges'
  <2>1. \A r \in Procs : r # p => proc'[r] = proc[r]
    BY <1>5 DEF Moved
  <2>2. ASSUME NEW k \in Questions, JudgeClaim(p, k), proc'[p].step = "judging", proc'[p].op = "judge", proc'[p].q = {k}
        PROVE  Judges'
    <3>1. ans'[k].gs = "running" /\ ans[k].gs = "queued"
      BY <1>1, <2>2 DEF JudgeClaim, Answers, AnswerType
    <3>2. \A r \in Procs : proc[r].step = "judging" => k \notin proc[r].q
      BY <3>1 DEF Inv, Judges
    <3>3. \A r, s \in Procs : proc'[r].step = "judging" /\ proc'[s].step = "judging" /\ proc'[r].q \cap proc'[s].q # {}
                                => r = s
      BY <2>1, <2>2, <3>2 DEF Inv, Judges
    <3>4. QED
      BY <1>3, <2>1, <2>2, <3>1, <3>3 DEF Judges
  <2>3. ASSUME proc'[p].step # "judging",
               \A q \in proc'[p].q :
                 /\ proc'[p].step = "clearing" => proc'[p].op = "judge" /\ ans'[q].gs \in {"system_error", "pending"}
                 /\ proc'[p].step \in {"completing", "creating"} =>
                      /\ ans'[q].gs = "completed" /\ Kind[q] # "choice"
                      /\ Kind[q] = "active" /\ cg'[q] = "none" => ans'[q].score = Null
                 /\ proc'[p].step = "creating" => Kind[q] = "active"
        PROVE  Judges'
    <3>1. \A r, s \in Procs : proc'[r].step = "judging" /\ proc'[s].step = "judging" /\ proc'[r].q \cap proc'[s].q # {}
                                => r = s
      BY <2>1, <2>3 DEF Inv, Judges
    <3>2. QED
      BY <1>3, <2>1, <2>3, <3>1 DEF Judges
  <2>4. ASSUME NEW k \in Questions, JudgeFail(p, k), proc'[p].step = "clearing", proc'[p].op = "judge", proc'[p].q = proc[p].q
        PROVE  Judges'
    <3>1. k \in proc[p].q /\ ans[k].gs = "running"
      BY <2>4 DEF JudgeFail, At, Inv, Judges
    <3>2. ans'[k].gs \in {"system_error", "pending"}
      BY <1>1, <2>4, <3>1 DEF JudgeFail, Answers, AnswerType
    <3>3. \A q \in proc[p].q : q = k
      BY <1>2, <3>1
    <3>4. QED
      BY <2>3, <2>4, <3>2, <3>3
  <2>5. ASSUME NEW k \in Questions, JudgeWrite(p, k), proc'[p].step = "completing", proc'[p].q = proc[p].q
        PROVE  Judges'
    <3>1. k \in proc[p].q /\ ans[k].gs = "running" /\ ans[k].score = Null /\ Kind[k] # "choice"
      BY <2>5 DEF JudgeWrite, At, Inv, Judges, PointsLast, Permanent
    <3>2. ans'[k].gs = "completed" /\ (Kind[k] = "active" => ans'[k].score = Null)
      BY <1>1, <2>5, <3>1 DEF JudgeWrite, Answers, AnswerType
    <3>3. \A q \in proc[p].q : q = k
      BY <1>2, <3>1
    <3>4. QED
      BY <2>3, <2>5, <3>1, <3>2, <3>3
  <2>6. ASSUME NEW k \in Questions, JudgeComplete(p, k), Kind[k] # "code", proc'[p].step = "creating", proc'[p].q = proc[p].q
        PROVE  Judges'
    <3>1. /\ k \in proc[p].q /\ ans[k].gs = "completed" /\ Kind[k] = "active"
          /\ cg[k] = "none" => ans[k].score = Null
      BY <1>1, <2>6 DEF JudgeComplete, At, Inv, Judges
    <3>2. ans' = ans /\ cg' = cg
      BY <2>6, <3>1 DEF JudgeComplete, Completed
    <3>3. \A q \in proc[p].q : q = k
      BY <1>2, <3>1
    <3>4. QED
      BY <2>3, <2>6, <3>1, <3>2, <3>3
  <2>7. CASE proc'[p].step \in Plain \cup {"asking", "scored", "locked", "promoting"}
    BY <2>3, <2>7 DEF Plain
  <2>8. QED
    BY <1>5, <2>2, <2>4, <2>5, <2>6, <2>7 DEF Moved
<1>6. QED
  BY <1>4, <1>5, Movers

LEMMA GradersStep ==
  ASSUME Undisturbed, Inv, Next
  PROVE  Graders'
<1>1. [Next]_vars /\ BaseInv /\ \A r \in Procs : proc[r].q \subseteq Questions /\ \A q, k \in proc[r].q : q = k
  BY DEF Inv, BaseInv, TypeInv, ProcRow, RowsReal, Real
<1>2. ASSUME NEW q \in Questions, cg'[q] # "none" PROVE ans'[q].gs = "completed"
  <2>1. ans[q].gs = "completed"
    BY <1>2, GradeMoves DEF GradeChanged, Inv, Graders
  <2>2. QED
    BY <1>1, <2>1, FinishedStep
<1>3. ASSUME NEW r \in Procs, proc'[r] = proc[r], proc[r].step \in {"asking", "scored"}, NEW q \in proc[r].q
      PROVE  proc[r].op = "ai" /\ cg'[q] = "open"
  <2>1. q \in Questions /\ proc[r].op = "ai" /\ cg[q] = "open"
    BY <1>1, <1>3 DEF Inv, Graders
  <2>2. \A p \in Procs : proc[p].op = "ai" /\ q \in proc[p].q => p = r
    BY <2>1 DEF Inv, Graders
  <2>3. QED
    BY <1>3, <2>1, <2>2, GradeMoves DEF GradeChanged
<1>4. \A r \in Procs : proc[r].step \in {"asking", "scored"} => proc[r].op = "ai"
  BY DEF Inv, Graders
<1>5. CASE proc' = proc
  BY <1>2, <1>3, <1>4, <1>5 DEF Inv, Graders
<1>6. ASSUME NEW p \in Procs, Moved(p) PROVE Graders'
  <2>1. \A r \in Procs : r # p => proc'[r] = proc[r]
    BY <1>6 DEF Moved
  <2>2. proc'[p].op = "ai" => \/ proc[p].op = "ai" /\ proc'[p].q = proc[p].q
                              \/ \E k \in Questions : AIClaim(p, k) /\ proc'[p].q = {k}
    BY <1>6 DEF Moved
  <2>3. \A r, s \in Procs : proc'[r].op = "ai" /\ proc'[s].op = "ai" /\ proc'[r].q \cap proc'[s].q # {} => r = s
    <3>1. \A r, s \in Procs : proc[r].op = "ai" /\ proc[s].op = "ai" /\ proc[r].q \cap proc[s].q # {} => r = s
      BY DEF Inv, Graders
    <3>2. \A k \in Questions : AIClaim(p, k) => \A r \in Procs : proc[r].op = "ai" => k \notin proc[r].q
      BY DEF AIClaim
    <3>3. \A r \in Procs : /\ r # p /\ proc'[p].op = "ai" /\ proc'[r].op = "ai"
                           => proc'[r].q \cap proc'[p].q = {}
      BY <2>1, <2>2, <3>1, <3>2
    <3>4. QED
      BY <2>1, <3>1, <3>3
  <2>4. proc'[p].step \in {"asking", "scored"} => proc'[p].op = "ai" /\ \A q \in proc'[p].q : cg'[q] = "open"
    <3>1. ASSUME NEW k \in Questions, AIClaim(p, k), proc'[p].step = "asking", proc'[p].op = "ai"
          PROVE  \A q \in proc'[p].q : cg'[q] = "open"
      <4>1. proc[p].op # "ai"
        BY <3>1 DEF AIClaim, Idle
      <4>2. \A j \in Questions : AIClaim(p, j) => cg'[j] = "open"
        BY DEF AIClaim, rows
      <4>3. QED
        BY <2>2, <3>1, <4>1, <4>2
    <3>2. ASSUME NEW k \in Questions, AIScore(p, k), proc'[p].step = "scored", proc'[p].op = "ai"
          PROVE  \A q \in proc'[p].q : cg'[q] = "open"
      <4>1. cg' = cg /\ proc[p].step = "asking" /\ proc[p].op = "ai" /\ proc[p] # Idle
        BY <3>2 DEF AIScore, At, Idle
      <4>2. \A q \in proc[p].q : cg[q] = "open"
        BY <4>1 DEF Inv, Graders
      <4>3. QED
        BY <2>2, <3>2, <4>1, <4>2 DEF AIClaim
    <3>3. QED
      BY <1>6, <3>1, <3>2 DEF Moved, Plain
  <2>5. QED
    BY <1>2, <1>3, <1>4, <2>1, <2>3, <2>4 DEF Graders
<1>7. QED
  BY <1>5, <1>6, Movers

\* Once everything is settled nothing changes a grade or a point any more.
LEMMA StillStep ==
  ASSUME Undisturbed, Inv, Next, BaseInv', Settled, sub.status \notin Early, sub.status = "grading" => AllDone
  PROVE  Settled' /\ Sum(ans') = Sum(ans)
<1>1. \A q \in Questions : /\ cg[q] \notin {"open", "review_required"}
                           /\ \/ ans[q].gs = "completed" /\ ans[q].score # Null
                              \/ ans[q].gs = "pending" /\ \A p \in Procs : q \notin proc[p].todo
  BY DEF Settled
<1>2. \A q \in Questions : cg'[q] = cg[q]
  BY <1>1, GradeMoves DEF GradeChanged
<1>3. ASSUME NEW q \in Questions PROVE Same(q)
  <2>1. ~Changed(q)
    BY <1>1 DEF Changed, AllDone
  <2>2. QED
    BY <2>1, AnswerMoves
<1>4. ASSUME NEW p \in Procs, NEW q \in Questions, q \in proc'[p].todo PROVE q \in proc[p].todo \/ ans[q].gs = "completed"
  <2>1. CASE proc'[p] = proc[p]
    BY <1>4, <2>1
  <2>2. CASE Moved(p)
    BY <1>1, <1>4, <2>2 DEF Moved
  <2>3. QED
    BY <2>1, <2>2, Movers DEF Moved
<1>5. Settled'
  BY <1>1, <1>2, <1>3, <1>4 DEF Settled, Same
<1>6. Counted(ans') = Counted(ans)
  <2>1. ASSUME NEW q \in Questions
        PROVE  /\ ans[q].text = "absent" => ans[q].score = Null
               /\ ans'[q].text = "absent" => ans'[q].score = Null
    BY DEF Inv, BaseInv, RowsReal, NoAnswer
  <2>2. QED
    BY <1>3, <2>1 DEF Counted, Same
<1>7. QED
  BY <1>5, <1>6 DEF Sum

LEMMA AllDoneStep ==
  ASSUME Undisturbed, Inv, Next, AllDone,
         (\E r \in Procs : proc[r].step = "locked") \/ (\A q \in Questions : Written(q))
  PROVE  AllDone'
<1>1. ASSUME NEW q \in Questions, ans'[q].text # "absent" PROVE ans'[q].gs = "completed"
  <2>1. Written(q)
    BY <1>1, NewAnswers
  <2>2. ans[q].gs = "completed" /\ BaseInv /\ [Next]_vars
    BY <2>1 DEF AllDone, Inv
  <2>3. QED
    BY <2>2, FinishedStep
<1>2. QED
  BY <1>1 DEF AllDone, Written

LEMMA SettledNow ==
  ASSUME Inv
  PROVE  /\ Verdict(ans, cg) = "graded" => Settled /\ AllDone
         /\ Complete(ans, cg) => Settled /\ AllDone /\ \A q \in Questions : Written(q)
<1>1. \A q \in Questions : /\ ans \in Answers /\ ans[q].gs \in GradingStatuses
                           /\ ans[q].gs # "completed" => ans[q].score = Null
                           /\ ans[q].text = "absent" => /\ ans[q].gs = "pending"
                                                        /\ \A p \in Procs : q \notin proc[p].todo
  BY DEF Inv, BaseInv, TypeInv, Answers, AnswerType, PointsLast, RowsReal, Real, NoAnswer
<1>2. ASSUME Verdict(ans, cg) = "graded" PROVE Settled /\ AllDone
  <2>1. \A q \in Questions : ~OpenAnswer(ans[q]) /\ cg[q] # "open"
    BY <1>2 DEF Verdict
  <2>2. \A q \in Questions : /\ cg[q] # "review_required"
                             /\ ans[q].text # "absent" => /\ ans[q].gs # "system_error"
                                                          /\ ans[q].gs = "completed" => ans[q].score # Null
    BY <1>2, <2>1 DEF Verdict
  <2>3. \A q \in Questions : ans[q].text # "absent" => ans[q].gs = "completed"
    BY <1>1, <2>1, <2>2 DEF OpenAnswer, GradingStatuses
  <2>4. QED
    BY <1>1, <2>1, <2>2, <2>3 DEF Settled, AllDone, Written
<1>3. ASSUME Complete(ans, cg) PROVE Settled /\ AllDone /\ \A q \in Questions : Written(q)
  BY <1>1, <1>3 DEF Complete, Settled, AllDone, Written
<1>4. QED
  BY <1>2, <1>3

LEMMA LocksStep ==
  ASSUME Undisturbed, Inv, Next, BaseInv'
  PROVE  Locks'
<1>1. sub \in SubType /\ proc \in [Procs -> ProcRow] /\ "grading" \notin Early
  BY DEF Inv, BaseInv, TypeInv, Early
<1>2. ASSUME NEW r \in Procs, proc[r].step = "locked", proc'[r] = proc[r]
      PROVE  /\ sub'.status = "grading"
             /\ proc[r].to = "graded" => Settled' /\ AllDone' /\ proc[r].total = Sum(ans')
  <2>1. sub.status = "grading" /\ (proc[r].to = "graded" => Settled /\ AllDone /\ proc[r].total = Sum(ans))
    BY <1>2 DEF Inv, Locks
  <2>2. sub'.status = "grading"
    BY <1>2, <2>1, SubMoves
  <2>3. QED
    BY <1>1, <1>2, <2>1, <2>2, StillStep, AllDoneStep
<1>3. CASE proc' = proc
  BY <1>2, <1>3 DEF Inv, Locks
<1>4. ASSUME NEW p \in Procs, Moved(p) PROVE Locks'
  <2>1. \A r \in Procs : r # p => proc'[r] = proc[r]
    BY <1>4 DEF Moved
  <2>2. CASE proc'[p].step # "locked"
    BY <1>2, <2>1, <2>2 DEF Inv, Locks
  <2>3. CASE proc'[p].step = "locked"
    <3>1. FinalizeRead(p)
      BY <1>4, <2>3 DEF Moved, Plain
    <3>2. /\ sub.status = "grading" /\ UNCHANGED rows /\ \A r \in Procs : r # p => proc[r].step # "locked"
          /\ proc'[p].to = Verdict(ans, cg) /\ proc'[p].total = Sum(ans)
      BY <2>3, <3>1, LockedRead DEF Inv, ParentFree
    <3>3. proc'[p].to = "graded" => Settled /\ AllDone
      BY <3>2, SettledNow
    <3>4. sub' = sub /\ ans' = ans
      BY <3>2 DEF rows
    <3>5. proc'[p].to = "graded" => Settled' /\ AllDone' /\ proc'[p].total = Sum(ans')
      <4>1. AllDone => AllDone'
        BY <3>4 DEF AllDone, Written
      <4>2. QED
        BY <1>1, <3>2, <3>3, <3>4, <4>1, StillStep
    <3>6. QED
      BY <2>1, <2>3, <3>2, <3>4, <3>5 DEF Locks
  <2>4. QED
    BY <2>2, <2>3
<1>5. QED
  BY <1>3, <1>4, Movers

LEMMA PromotionsStep ==
  ASSUME Undisturbed, Inv, Next, BaseInv'
  PROVE  Promotions'
<1>1. sub \in SubType /\ proc \in [Procs -> ProcRow] /\ BaseInv /\ [Next]_vars
  BY DEF Inv, BaseInv, TypeInv
<1>2. ASSUME sub.status \in {"review_required", "graded"}, Settled, AllDone, \A q \in Questions : Written(q)
      PROVE  /\ sub'.status \in {"review_required", "graded"} /\ Settled' /\ AllDone'
             /\ Sum(ans') = Sum(ans) /\ \A q \in Questions : Written(q)'
  <2>1. Settled' /\ AllDone' /\ Sum(ans') = Sum(ans)
    BY <1>2, StillStep, AllDoneStep DEF Early
  <2>2. ASSUME NEW q \in Questions PROVE ans'[q].text # "absent"
    <3>1. ans'[q].gs = "completed"
      BY <1>1, <1>2, FinishedStep DEF AllDone
    <3>2. QED
      BY <3>1 DEF BaseInv, RowsReal, NoAnswer
  <2>3. sub'.status \in {"review_required", "graded"}
    <3>1. \A q \in Questions : ans[q].gs # "system_error"
      BY <1>2 DEF AllDone
    <3>2. \A p \in Procs : proc[p].step = "promoting" => proc[p].to = "graded"
      BY DEF Inv, Promotions
    <3>3. QED
      BY <1>2, <3>1, <3>2, SubMoves DEF SubChanged, Early
  <2>4. QED
    BY <2>1, <2>2, <2>3 DEF Written
<1>3. ASSUME NEW r \in Procs, proc[r].step = "promoting", proc'[r] = proc[r]
      PROVE  /\ sub'.status \in {"review_required", "graded"} /\ proc'[r].to = "graded"
             /\ Settled' /\ AllDone' /\ (\A q \in Questions : Written(q)') /\ proc'[r].total = Sum(ans')
  BY <1>2, <1>3 DEF Inv, Promotions
<1>4. CASE proc' = proc
  BY <1>3, <1>4 DEF Promotions
<1>5. ASSUME NEW p \in Procs, Moved(p) PROVE Promotions'
  <2>1. \A r \in Procs : r # p => proc'[r] = proc[r]
    BY <1>5 DEF Moved
  <2>2. CASE proc'[p].step # "promoting"
    BY <1>3, <2>1, <2>2 DEF Promotions
  <2>3. CASE proc'[p].step = "promoting"
    <3>1. PromoteRead(p)
      BY <1>5, <2>3 DEF Moved, Plain
    <3>2. /\ sub.status = "review_required" /\ Complete(ans, cg) /\ UNCHANGED rows
          /\ proc'[p].to = "graded" /\ proc'[p].total = Sum(ans)
      BY <1>1, <2>3, <3>1, PromotingRead
    <3>3. Settled /\ AllDone /\ \A q \in Questions : Written(q)
      BY <3>2, SettledNow
    <3>4. QED
      BY <1>2, <1>3, <2>1, <3>2, <3>3 DEF Promotions
  <2>4. QED
    BY <2>2, <2>3
<1>6. QED
  BY <1>4, <1>5, Movers

LEMMA PublishedStep ==
  ASSUME Undisturbed, Inv, Next, BaseInv'
  PROVE  Published'
<1>1. SUFFICES ASSUME sub'.status = "graded" PROVE Settled' /\ sub'.total = Sum(ans') /\ grade' = sub'.total
  BY DEF Published
<1>2. CASE sub.status = "graded"
  <2>1. Settled /\ sub.total = Sum(ans) /\ grade = sub.total
    BY <1>2 DEF Inv, Published
  <2>2. sub'.total = sub.total /\ grade' = grade
    BY <1>2, SubMoves DEF SubChanged, Early
  <2>3. QED
    BY <1>2, <2>1, <2>2, StillStep DEF Early
<1>3. CASE sub.status # "graded"
  <2>1. SubChanged /\ sub'.status # sub.status
    BY <1>1, <1>3, SubMoves
  <2>2. sub.status \in {"grading", "review_required"} /\ \E p \in Procs :
          /\ proc[p].step \in {"locked", "promoting"} /\ proc[p].to = "graded"
          /\ sub'.total = proc[p].total /\ grade' = proc[p].total
    BY <1>1, <2>1 DEF SubChanged, Early, Lifecycle!Moves
  <2>3. Settled /\ AllDone /\ sub'.total = Sum(ans) /\ grade' = Sum(ans)
    BY <2>2 DEF Inv, Locks, Promotions
  <2>4. QED
    BY <2>2, <2>3, StillStep DEF Early
<1>4. QED
  BY <1>2, <1>3


LEMMA InvStep ==
  ASSUME Undisturbed, Inv, [Next]_vars
  PROVE  Inv'
<1>1. CASE UNCHANGED vars
  BY <1>1, BaseStep DEF vars, rows, Inv, NoMarks, PointsLast, Judges, Graders, Locks, Promotions, Published,
                        Settled, AllDone, Written
<1>2. CASE Next
  <2>1. BaseInv'
    BY BaseStep DEF Inv
  <2>2. NoMarks'
    BY <1>2, Movers DEF Moved, NoMarks, Inv
  <2>3. PointsLast'
    BY <1>2, AnswerMoves DEF PointsLast, Inv, Changed, Same
  <2>4. QED
    BY <1>2, <2>1, <2>2, <2>3, JudgesStep, GradersStep, LocksStep, PromotionsStep, PublishedStep DEF Inv
<1>3. QED
  BY <1>1, <1>2

LEMMA InvInit == ExamInit => Inv
<1> SUFFICES ASSUME ExamInit PROVE Inv
  OBVIOUS
<1>1. /\ BaseInv /\ sub.status = "none" /\ \A q \in Questions : cg[q] = "none" /\ ans[q].score = Null
      /\ \A p \in Procs : proc[p].op = "none" /\ proc[p].step = "idle"
  BY BaseInit DEF ExamInit, Blank, Read, NoAnswer, NoSub, Idle
<1>2. QED
  BY <1>1 DEF Inv, NoMarks, PointsLast, Judges, Graders, Locks, Promotions, Published

\* Whatever is read before a lock, a promotion or a verdict of the judge still
\* holds when it is used, however the requests, scans, judges and AI workers
\* interleave and crash.
THEOREM ExamInvariant == ASSUME Undisturbed PROVE Spec => []Inv
<1>1. Undisturbed /\ Inv /\ [Next]_vars => Inv'
  BY InvStep
<1>2. QED
  BY <1>1, InvInit, PTL DEF Spec

\* What a student is shown and what the grade book holds is the sum of the
\* points of the answers, and an answer the judge failed on has none
\* (finalize_if_ready, promote_review_required_if_complete, fail_job).
THEOREM ScoresAgree == ASSUME Undisturbed PROVE Spec => []ScoresAddUp
<1>1. BaseInv => TypeOK
  BY DEF BaseInv, TypeInv, TypeOK, ExamTypeOK, ProcRow, SeenType, Answers
<1>2. Inv => ScoresAddUp
  BY <1>1 DEF Inv, ScoresAddUp, TotalIsSum, SystemErrorUnscored, PointsLast, Published
<1>3. QED
  BY <1>2, ExamInvariant, PTL

\* How an attempt comes to be closed.
LEMMA Closing ==
  ASSUME Undisturbed, Inv, Next, sub.status # "graded", sub'.status = "graded"
  PROVE  /\ Settled /\ AllDone /\ UNCHANGED ans /\ sub.status \in {"grading", "review_required"}
         /\ sub.status = "review_required" => \A q \in Questions : Written(q)
         /\ sub'.total = Sum(ans) /\ grade' = sub'.total
<1>1. SubChanged
  BY SubMoves
<1>2. PICK p \in Procs :
        /\ \/ sub.status = "grading" /\ proc[p].step = "locked"
           \/ sub.status = "review_required" /\ proc[p].step = "promoting"
        /\ UNCHANGED ans /\ proc[p].to = "graded" /\ sub'.total = proc[p].total /\ grade' = proc[p].total
  BY <1>1 DEF SubChanged, Early, Lifecycle!Moves
<1>3. QED
  BY <1>2 DEF Inv, Locks, Promotions

\* finalize_if_ready and promote close an attempt only when no answer waits,
\* failed or lacks points and no AI grade is open or under review, however
\* long ago they read the rows.
THEOREM ClosedOnlyWhenDone == ASSUME Undisturbed PROVE Spec => ClosedWhenDone
<1>1. Inv /\ [Next]_vars =>
        (sub.status # "graded" /\ sub'.status = "graded" /\ UNCHANGED <<ans, cg>> =>
           \A q \in Questions : /\ Written(q) => ans[q].gs = "completed" /\ ans[q].score # Null
                               /\ cg[q] \notin {"open", "review_required"})
  <2>1. SUFFICES ASSUME Inv, [Next]_vars, sub.status # "graded", sub'.status = "graded"
                 PROVE  \A q \in Questions : /\ Written(q) => ans[q].gs = "completed" /\ ans[q].score # Null
                                             /\ cg[q] \notin {"open", "review_required"}
    OBVIOUS
  <2>2. Next
    BY <2>1 DEF vars
  <2>3. Settled /\ AllDone
    BY <2>1, <2>2, Closing
  <2>4. QED
    BY <2>3 DEF Settled, AllDone
<1>2. QED
  BY <1>1, ExamInvariant, PTL DEF Spec, ClosedWhenDone

\* While a review is settled by promotion, no question is left without points,
\* answered by the student or not.
THEOREM PromotionComplete == ASSUME Undisturbed PROVE Spec => NoHoleInPromotion
<1>1. Inv /\ [Next]_vars => (sub.status = "review_required" /\ sub'.status = "graded" =>
                               \A q \in Questions : ans'[q].text # "absent" /\ ans'[q].score # Null)
  <2>1. SUFFICES ASSUME Inv, [Next]_vars, sub.status = "review_required", sub'.status = "graded",
                        NEW q \in Questions
                 PROVE  ans'[q].text # "absent" /\ ans'[q].score # Null
    OBVIOUS
  <2>2. Next
    BY <2>1 DEF vars
  <2>3. Settled /\ AllDone /\ ans' = ans /\ Written(q)
    BY <2>1, <2>2, Closing
  <2>4. QED
    BY <2>3 DEF Settled, AllDone, Written
<1>2. QED
  BY <1>1, ExamInvariant, PTL DEF Spec, NoHoleInPromotion


-----------------------------------------------------------------------------
(* An attempt implements ExamLifecycle, whatever teachers do and however     *)
(* slow the judge is, as long as a mark by hand is read and written without  *)
(* another request in between.                                               *)

Attended == "manual" \notin Slow

\* Who is about to close an attempt has a number to publish; a teacher who
\* marks sees the attempt as it is.
Closers ==
  \A p \in Procs :
    /\ proc[p].step \in {"locked", "promoting"} => proc[p].total \in Nat
    /\ proc[p].step = "promoting" => proc[p].to = "graded"
    /\ proc[p].op = "manual" => /\ proc[p].step = "loaded" /\ proc[p].seen.sub = sub
                                /\ sub.status \in {"graded", "review_required"}

\* While a teacher marks, nobody else moves.
LEMMA ManualAlone ==
  ASSUME Attended, NEW p \in Procs, At(p, "manual", "loaded"), Next
  PROVE  (\E q \in Questions : ManualCommit(p, q)) \/ Die(p)
<1>1. Unfinished(p) /\ proc[p] # Idle /\ \A r \in Procs : MayMove(r) => r = p
  BY DEF Attended, At, Unfinished, MayMove, Idle
<1>2. ~CloseStep(p)
  BY DEF At, CloseStep, Enqueue, Enqueued, FinalizeRead, FinalizeCommit, PromoteRead, PromoteCommit
<1>3. ~WebStep(p)
  BY <1>1 DEF At, WebStep, SaveLoad, SaveCommit, HandInLoad, HandInCommit, ExtendLoad, ExtendCommit, Retry
<1>4. ~ScanStep(p)
  BY <1>1 DEF At, ScanStep, ScanClaim, ScanLoad, ScanResume, ScanCommit, ScanStuck
<1>5. \A q \in Questions : ~JudgeStep(p, q)
  BY <1>1 DEF At, JudgeStep, JudgeClaim, JudgeFail, JudgeClear, JudgeWrite, JudgeComplete, CreateGrade, Exhaust,
              AIClaim, AIScore, AIComplete, AIGivesUp
<1>6. \A q \in Questions : ~ManualLoad(p, q) /\ ~Override(p, q)
  BY <1>1 DEF ManualLoad, Override
<1>7. Web \subseteq Procs /\ Scanners \subseteq Procs /\ Workers \subseteq Procs
  BY DEF Procs
<1>8. QED
  BY <1>1, <1>2, <1>3, <1>4, <1>5, <1>6, <1>7 DEF Next, TeacherStep

LEMMA ClosersStep ==
  ASSUME Attended, BaseInv, Closers, Next
  PROVE  Closers'
<1>1. /\ proc \in [Procs -> ProcRow] /\ ans \in Answers /\ sub \in SubType
      /\ Web \subseteq Procs /\ Scanners \subseteq Procs /\ Workers \subseteq Procs
  BY DEF BaseInv, TypeInv, Procs
<1> DEFINE Fine(r) ==
      /\ proc'[r].step \in {"locked", "promoting"} => proc'[r].total \in Nat
      /\ proc'[r].step = "promoting" => proc'[r].to = "graded"
      /\ proc'[r].op = "manual" => /\ proc'[r].step = "loaded" /\ proc'[r].seen.sub = sub'
                                   /\ sub'.status \in {"graded", "review_required"}
<1>2. ASSUME NEW r \in Procs, proc[r].op = "manual" PROVE proc'[r] = Idle
  <2>1. At(r, "manual", "loaded")
    BY <1>2 DEF Closers, At
  <2>2. QED
    BY <1>1, <2>1, ManualAlone DEF ManualCommit, Die, End, Become
<1>3. ASSUME NEW r \in Procs, proc'[r] = proc[r] PROVE Fine(r)
  <2>1. proc[r].op # "manual"
    BY <1>2, <1>3 DEF Idle
  <2>2. QED
    BY <1>3, <2>1 DEF Closers
<1>4. ASSUME NEW r \in Procs, Moved(r) PROVE Fine(r)
  <2>1. proc'[r].op # "manual"
    BY <1>2, <1>4 DEF Moved, Idle
  <2>2. proc'[r].step = "locked" => FinalizeRead(r)
    BY <1>4 DEF Moved, Plain
  <2>3. proc'[r].step = "promoting" => PromoteRead(r)
    BY <1>4 DEF Moved, Plain
  <2>4. Sum(ans) \in Nat
    BY <1>1, SumType
  <2>5. QED
    BY <2>1, <2>2, <2>3, <2>4, LockedRead, PromotingRead
<1>5. ASSUME NEW p \in Procs, Moved(p) PROVE Closers'
  <2>1. \A r \in Procs : r # p => proc'[r] = proc[r]
    BY <1>5 DEF Moved
  <2>2. \A r \in Procs : Fine(r)
    BY <1>3, <1>4, <1>5, <2>1
  <2>3. QED
    BY <2>2 DEF Closers
<1>6. ASSUME NEW p \in Procs, NEW q \in Questions, ManualLoad(p, q) PROVE Closers'
  <2> DEFINE new == [Idle EXCEPT !.op = "manual", !.step = "loaded", !.q = {q}, !.seen = Read(sub, ans)]
  <2>1. proc' = [proc EXCEPT ![p] = new] /\ sub' = sub /\ sub.status \in {"graded", "review_required"}
    BY <1>6 DEF ManualLoad, Become, rows
  <2>2. new.step = "loaded" /\ new.op = "manual" /\ new.seen.sub = sub
    BY DEF Idle, Read
  <2> HIDE DEF new
  <2>3. proc'[p] = new /\ \A r \in Procs : r # p => proc'[r] = proc[r]
    BY <1>1, <2>1
  <2>4. Fine(p)
    BY <2>1, <2>2, <2>3
  <2>5. \A r \in Procs : Fine(r)
    BY <1>3, <2>3, <2>4
  <2>6. QED
    BY <2>5 DEF Closers
<1>7. ASSUME NEW p \in Procs, NEW q \in Questions, ManualCommit(p, q) PROVE Closers'
  <2>1. proc'[p] = Idle /\ \A r \in Procs : r # p => proc'[r] = proc[r]
    BY <1>1, <1>7 DEF ManualCommit, End, Become
  <2>2. Fine(p)
    BY <2>1 DEF Idle
  <2>3. \A r \in Procs : Fine(r)
    BY <1>3, <2>1, <2>2
  <2>4. QED
    BY <2>3 DEF Closers
<1>8. CASE proc' = proc
  <2>1. \A r \in Procs : Fine(r)
    BY <1>3, <1>8
  <2>2. QED
    BY <2>1 DEF Closers
<1>9. ASSUME NEW p \in Procs, NEW q \in Questions, TeacherStep(p, q) PROVE Closers'
  BY <1>6, <1>7, <1>8, <1>9 DEF TeacherStep, Override
<1>10. QED
  BY <1>1, <1>5, <1>8, <1>9, WebMoves, CloseMoves, WorkerMoves DEF Next, Start, TimeIsUp, Recover, Reopen


\* The steps that close or reopen an attempt, and those that leave it alone.
Allowed == Lifecycle!Move \/ Lifecycle!Publish \/ UNCHANGED Lifecycle!lifecycle

LEMMA TeacherAllowed ==
  ASSUME Attended, BaseInv, Closers, NEW p \in Procs, NEW q \in Questions, TeacherStep(p, q)
  PROVE  Allowed
<1>1. sub \in SubType /\ ans \in Answers /\ cg \in [Questions -> GradeStatuses] /\ proc[p] \in ProcRow
  BY DEF BaseInv, TypeInv
<1>2. Sum(Marked(ans, q)) \in Nat /\ Sum(Marked(proc[p].seen.ans, q)) \in Nat
  BY <1>1, MarkedType, SumType DEF ProcRow, SeenType
<1>3. CASE ManualLoad(p, q)
  BY <1>3 DEF ManualLoad, rows, Allowed, Lifecycle!lifecycle
<1>4. CASE ManualCommit(p, q)
  <2> DEFINE total == Sum(Marked(proc[p].seen.ans, q))
  <2>1. proc[p].seen.sub = sub /\ sub.status \in {"graded", "review_required"}
    BY <1>4 DEF ManualCommit, Closers, At
  <2>2. CASE UNCHANGED <<sub, grade>>
    BY <2>2 DEF Allowed, Lifecycle!lifecycle
  <2>3. CASE ~UNCHANGED <<sub, grade>>
    <3>1. /\ sub' = [sub EXCEPT !.total = IF total # sub.total THEN total ELSE @,
                                !.status = IF sub.status = "review_required" THEN "graded" ELSE @]
          /\ grade' = total
      BY <1>4, <2>1, <2>3 DEF ManualCommit
    <3>2. total \in Nat
      BY <1>2
    <3> HIDE DEF total
    <3>3. sub'.total = total /\ sub'.status = "graded"
      BY <1>1, <2>1, <3>1 DEF SubType
    <3>4. QED
      BY <2>1, <3>1, <3>2, <3>3 DEF Allowed, Lifecycle!Publish
  <2>4. QED
    BY <2>2, <2>3
<1>5. CASE Override(p, q)
  <2> DEFINE verdict == IF sub.status = "grading" /\ Verdict(ans', cg') # "waiting"
                          THEN Verdict(ans', cg') ELSE sub.status
             status == IF verdict = "review_required" /\ Complete(ans', cg') THEN "graded" ELSE verdict
             total == Sum(ans')
  <2>1. /\ sub' = [sub EXCEPT !.status = status,
                              !.total = IF status = "graded" /\ sub.status # "graded" THEN total ELSE @]
        /\ grade' = IF status = "graded" /\ sub.status # "graded" THEN total ELSE grade
        /\ ans' = Marked(ans, q)
    BY <1>5 DEF Override
  <2>2. total \in Nat
    BY <1>2, <2>1
  <2>3. Verdict(ans', cg') \in {"waiting", "review_required", "graded"}
    BY DEF Verdict
  <2>4. \/ status = sub.status
        \/ sub.status = "grading" /\ status = "review_required"
        \/ sub.status \in {"grading", "review_required"} /\ status = "graded"
    BY <2>3
  <2> HIDE DEF verdict, status, total
  <2>5. /\ sub'.status = status
        /\ sub'.total = IF status = "graded" /\ sub.status # "graded" THEN total ELSE sub.total
    BY <1>1, <2>1 DEF SubType
  <2>6. QED
    BY <2>1, <2>2, <2>4, <2>5 DEF Allowed, Lifecycle!Move, Lifecycle!Moves, Lifecycle!Publish, Lifecycle!lifecycle
<1>6. QED
  BY <1>3, <1>4, <1>5 DEF TeacherStep

LEMMA StepAllowed ==
  ASSUME Attended, BaseInv, Closers, Next
  PROVE  Allowed
<1>1. sub \in SubType /\ Web \subseteq Procs /\ Scanners \subseteq Procs /\ Workers \subseteq Procs
  BY DEF BaseInv, TypeInv, Procs
<1>2. CASE UNCHANGED <<sub, grade>>
  BY <1>2 DEF Allowed, Lifecycle!lifecycle
<1>3. CASE Start \/ TimeIsUp
  BY <1>1, <1>3 DEF Start, TimeIsUp, SubType, Allowed, Lifecycle!Move, Lifecycle!Moves, Lifecycle!lifecycle
<1>4. ASSUME NEW p \in Procs, CloseStep(p) \/ Die(p) PROVE Allowed
  <2>1. CASE FinalizeCommit(p) \/ PromoteCommit(p)
    <3>1. PICK from \in {"grading", "review_required"} :
            /\ Close(p, from)
            /\ \/ from = "grading" /\ proc[p].step = "locked"
               \/ from = "review_required" /\ proc[p].step = "promoting"
      BY <2>1 DEF FinalizeCommit, PromoteCommit
    <3>2. proc[p].to \in {"graded", "review_required"} /\ proc[p].total \in Nat
      BY <3>1 DEF BaseInv, RowsReal, Real, Closers
    <3>3. CASE sub.status = from /\ proc[p].to = "graded"
      BY <1>1, <3>1, <3>2, <3>3 DEF Close, SubType, Allowed, Lifecycle!Publish
    <3>4. CASE sub.status = from /\ proc[p].to = "review_required"
      BY <1>1, <3>1, <3>4 DEF Close, SubType, Closers, Allowed, Lifecycle!Move, Lifecycle!Moves
    <3>5. QED
      BY <1>2, <3>1, <3>2, <3>3, <3>4 DEF Close
  <2>2. QED
    BY <1>2, <1>4, <2>1 DEF CloseStep, Enqueue, Enqueued, FinalizeRead, PromoteRead, Die, rows
<1>5. ASSUME NEW p \in Procs, HandInCommit(p) \/ ScanCommit(p) \/ ScanClaim(p) PROVE Allowed
  <2>1. CASE ScanClaim(p)
    BY <1>1, <2>1 DEF ScanClaim, SubType, Allowed, Lifecycle!Move, Lifecycle!Moves
  <2>2. CASE HandInCommit(p) \/ ScanCommit(p)
    <3>1. PICK from \in {"started", "submitted"} : HandOver(p, from)
      BY <2>2 DEF HandInCommit, ScanCommit
    <3>2. CASE sub.status = from
      <4>1. sub' = [sub EXCEPT !.status = "grading"] /\ grade' = grade
        BY <3>1, <3>2 DEF HandOver
      <4>2. QED
        BY <1>1, <3>2, <4>1 DEF SubType, Allowed, Lifecycle!Move, Lifecycle!Moves
    <3>3. CASE sub.status # from
      <4>1. sub' = sub /\ grade' = grade
        BY <3>1, <3>3 DEF HandOver
      <4>2. QED
        BY <1>2, <4>1
    <3>4. QED
      BY <3>2, <3>3
  <2>3. QED
    BY <1>5, <2>1, <2>2
<1>6. ASSUME NEW p \in Procs, NEW chosen \in SUBSET Questions, Retry(p, chosen) PROVE Allowed
  BY <1>1, <1>6 DEF Retry, SubType, Allowed, Lifecycle!Move, Lifecycle!Moves
<1>7. ASSUME NEW p \in Procs, ExtendCommit(p) PROVE Allowed
  BY <1>1, <1>7 DEF ExtendCommit, SubType, Allowed, Lifecycle!lifecycle
<1>8. ASSUME NEW p \in Procs, WebStep(p) \/ ScanStep(p) PROVE Allowed
  BY <1>2, <1>5, <1>6, <1>7, <1>8
     DEF WebStep, SaveLoad, SaveCommit, HandInLoad, ExtendLoad, ScanStep, ScanLoad, ScanResume, ScanStuck, rows
<1>9. ASSUME NEW p \in Procs, NEW k \in Questions, JudgeStep(p, k) PROVE Allowed
  BY <1>2, <1>9 DEF JudgeStep, JudgeClaim, JudgeFail, JudgeClear, JudgeWrite, JudgeComplete, Exhaust, CreateGrade,
                     AIClaim, AIScore, AIComplete, AIGivesUp, rows
<1>10. QED
  BY <1>1, <1>2, <1>3, <1>4, <1>8, <1>9, TeacherAllowed DEF Next, Recover, Reopen

\* To the rest of the platform an attempt is what ExamLifecycle promises:
\* handed in once, published in one step in the submission and the grade book,
\* and never taken back, whatever requests, scans, judges and teachers do to it
\* (_submit_and_prepare, finalize_if_ready, promote, retry, override).
THEOREM Implements == ASSUME Attended PROVE Spec => AttemptLifecycle
<1>1. ExamInit => Lifecycle!Init /\ Closers
  BY DEF ExamInit, NoSub, Null, Lifecycle!Init, Closers, Idle
<1>2. BaseInv /\ Closers /\ [Next]_vars =>
        Closers' /\ [Lifecycle!Move \/ Lifecycle!Publish]_Lifecycle!lifecycle
  <2>1. CASE UNCHANGED vars
    BY <2>1 DEF vars, Closers, Lifecycle!lifecycle
  <2>2. CASE Next
    BY <2>2, ClosersStep, StepAllowed DEF Allowed
  <2>3. QED
    BY <2>1, <2>2
<1>3. QED
  BY <1>1, <1>2, BaseAlways, PTL DEF Spec, AttemptLifecycle, Lifecycle!Spec
=============================================================================
