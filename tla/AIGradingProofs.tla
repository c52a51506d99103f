-------------------------- MODULE AIGradingProofs --------------------------
(***************************************************************************)
(* Theorems about AIGrading, checked by TLAPS: type correctness for every  *)
(* value of the constants, and what the AI workers, the scan and the       *)
(* requests for another grading keep while no worker is overtaken by the   *)
(* clock and requests come one at a time.                                  *)
(***************************************************************************)
EXTENDS AIGrading, TLAPS

-----------------------------------------------------------------------------
(* The inductive invariant.                                                 *)

Busy == Grading \cup {"scored", "finishing"}

\* The lease admits one scan at a time.
OneScanner == \A s \in Scanners : aiScan[s].phase # "off" => aiLease = s

\* What the scan listed as overdue is so until the scan comes to the row.
ListsHold == \A s \in Scanners : aiScan[s].phase = "running" =>
               \A g \in aiScan[s].todo : cg[g].status = "running" /\ cg[g].stale

\* Attempts are counted by the claim, so that only a row whose worker has died
\* may wait for one attempt more than the others.
AttemptsCounted ==
  \A g \in Grades :
    /\ cg[g].status \in {"none", "pending"} => cg[g].attempt = 0
    /\ cg[g].status = "queued" \/ (cg[g].status = "running" /\ ~InProgress(g))
         => cg[g].attempt < MaxAIAttempts + aiCrashes

\* A row is moved by one worker at a time, and by the clock when there is none.
OwnerAlone ==
  /\ \A v, w \in AIWorkers, g \in Grades :
       Holds(v, g) /\ Holds(w, g) /\ ai[v].pc \in Busy /\ ai[w].pc \in Busy => v = w
  /\ \A w \in AIWorkers, g \in Grades : Holds(w, g) =>
       /\ ai[w].pc \in Grading \cup {"finishing"} => cg[g].status = "running"
       /\ ai[w].pc = "scored" => \/ cg[g].status = "running" /\ ~sheet[g].review
                                 \/ cg[g].status = "review_required"
       /\ ai[w].pc \in Busy => ~cg[g].stale

\* The official score of g is the one of its sheet.
InForce(g) == GradeMode[g] = "active" => official[g] # "none" /\ official[g] = sheet[g].final

\* What the session of a worker holds is what the row says, and an answer that
\* needs no review is in force as soon as it has been written.
SessionsCurrent ==
  \A w \in AIWorkers, g \in Grades : Holds(w, g) =>
    /\ ai[w].pc = "calling" => /\ ai[w].seen.status = "running"
                               /\ ai[w].seen.official = official[g]
                               /\ ai[w].seen.final = sheet[g].final
                               /\ ai[w].seen.review = sheet[g].review
    /\ ai[w].pc = "finishing" => ai[w].seen.status = "running"
    /\ ai[w].pc = "finishing" \/ (ai[w].pc = "scored" /\ cg[g].status = "running") => InForce(g)

\* A request finds a settled row as it has read it, and writes nothing to a
\* row that was pending or missing when it was read and is no longer.
RequestsCurrent ==
  \A t \in Teachers, g \in Grades :
    teacher[t].pc = "loaded" /\ teacher[t].grade = {g} =>
      LET seen == teacher[t].seen
      IN  /\ teacher[t].op \in {"retry", "regrade"}
          /\ seen.status \notin {"running", "queued"}
          /\ seen.status = "pending" => seen.attempt = 0
          /\ seen.status \in {"completed", "review_required"} =>
               cg[g].status = seen.status /\ cg[g].attempt = seen.attempt
                 /\ \A w \in AIWorkers : ~(Holds(w, g) /\ ai[w].pc \in Busy)

CompletedInForce == \A g \in Grades : cg[g].status = "completed" => InForce(g)

PromptInv == /\ AITypeOK /\ OneScanner /\ ListsHold /\ AttemptsCounted /\ OwnerAlone
             /\ SessionsCurrent /\ RequestsCurrent
             /\ CompletedInForce /\ ReviewIsListed /\ CallsBounded

-----------------------------------------------------------------------------
(* Types.                                                                   *)

LEMMA MovedType ==
  ASSUME NEW r \in GradeRow, NEW to \in GradeStatuses
  PROVE  Moved(r, to) \in GradeRow /\ Moved(r, to) = [r EXCEPT !.status = to, !.stale = FALSE]
BY DEF Moved, GradeRow

LEMMA AgedType ==
  ASSUME NEW r \in GradeRow
  PROVE  [r EXCEPT !.old = TRUE] \in GradeRow /\ [r EXCEPT !.stale = TRUE] \in GradeRow
BY DEF GradeRow

LEMMA ClaimedType ==
  ASSUME NEW r \in GradeRow
  PROVE  /\ Claimed(r) \in GradeRow
         /\ Claimed(r).status = "running" /\ ~Claimed(r).stale
         /\ Claimed(r).attempt = r.attempt + 1
<1> DEFINE mid == Moved(r, "running")
<1>1. mid = [r EXCEPT !.status = "running", !.stale = FALSE] /\ mid \in GradeRow
  BY MovedType DEF GradeStatuses
<1>2. mid.status = "running" /\ mid.stale = FALSE /\ mid.attempt = r.attempt
  BY <1>1 DEF GradeRow
<1>3. Claimed(r) = [mid EXCEPT !.attempt = r.attempt + 1]
  BY DEF Claimed
<1> HIDE DEF mid
<1>4. Claimed(r) \in GradeRow
  <2>1. PICK n \in Nat : n = r.attempt + 1
    BY DEF GradeRow
  <2>2. \A m \in Nat : [mid EXCEPT !.attempt = m] \in GradeRow
    BY <1>1 DEF GradeRow
  <2>3. QED
    BY <1>3, <2>1, <2>2
<1>5. Claimed(r).status = "running" /\ Claimed(r).stale = FALSE
  BY <1>1, <1>2, <1>3 DEF GradeRow
<1>6. Claimed(r).attempt = r.attempt + 1
  BY <1>1, <1>3 DEF GradeRow
<1>7. QED
  BY <1>4, <1>5, <1>6

LEMMA ResetType ==
  ASSUME NEW r \in GradeRow, NEW seen \in View
  PROVE  /\ Reset(r, seen) \in GradeRow
         /\ Reset(r, seen).attempt = IF seen.attempt = 0 THEN r.attempt ELSE 0
         /\ seen.status # "pending" => Reset(r, seen).status = "pending"
         /\ seen.status = "pending" /\ seen.attempt = 0 => Reset(r, seen) = r
<1>1. CASE seen.status = "pending"
  BY <1>1 DEF Reset, Written, GradeRow
<1>2. CASE seen.status # "pending"
  <2> DEFINE mid == Moved(r, "pending")
  <2>1. mid = [r EXCEPT !.status = "pending", !.stale = FALSE] /\ mid \in GradeRow
    BY MovedType DEF GradeStatuses
  <2>2. mid.status = "pending" /\ mid.attempt = r.attempt
    BY <2>1 DEF GradeRow
  <2>3. Reset(r, seen) = [mid EXCEPT !.attempt = Written(r.attempt, seen.attempt, 0)]
    BY <1>2 DEF Reset
  <2> HIDE DEF mid
  <2>4. Written(r.attempt, seen.attempt, 0) = (IF seen.attempt = 0 THEN r.attempt ELSE 0)
    BY DEF Written
  <2>5. Written(r.attempt, seen.attempt, 0) \in Nat
    BY <2>4 DEF GradeRow
  <2>6. Reset(r, seen) \in GradeRow
    BY <2>1, <2>3, <2>5 DEF GradeRow
  <2>7. Reset(r, seen).status = "pending"
        /\ Reset(r, seen).attempt = Written(r.attempt, seen.attempt, 0)
    BY <2>1, <2>2, <2>3 DEF GradeRow
  <2>8. QED
    BY <1>2, <2>4, <2>6, <2>7
<1>3. QED
  BY <1>1, <1>2

LEMMA SetStatusType ==
  ASSUME cg \in CodeGradeType, NEW g \in Grades, NEW to \in GradeStatuses, SetStatus(g, to)
  PROVE  cg' \in CodeGradeType
BY MovedType DEF SetStatus, CodeGradeType

LEMMA PushType ==
  ASSUME aiQueue \in Seq(Grades), lost \in 0..MaxAIFaults, NEW g \in Grades, PushGrade(g)
  PROVE  aiQueue' \in Seq(Grades) /\ lost' \in 0..MaxAIFaults
BY AIQueueAssumption DEF PushGrade

LEMMA EnqueueType ==
  ASSUME cg \in CodeGradeType, aiQueue \in Seq(Grades), lost \in 0..MaxAIFaults,
         NEW g \in Grades, EnqueueAIGrade(g)
  PROVE  cg' \in CodeGradeType /\ aiQueue' \in Seq(Grades) /\ lost' \in 0..MaxAIFaults
BY SetStatusType, PushType DEF EnqueueAIGrade, aiVars, GradeStatuses

LEMMA FailType ==
  ASSUME cg \in CodeGradeType, aiQueue \in Seq(Grades), lost \in 0..MaxAIFaults,
         NEW g \in Grades, NEW b \in BOOLEAN, FailAIGrade(g, b)
  PROVE  cg' \in CodeGradeType /\ aiQueue' \in Seq(Grades) /\ lost' \in 0..MaxAIFaults
BY SetStatusType, PushType DEF FailAIGrade, aiVars, GradeStatuses

LEMMA WriteStatusType ==
  ASSUME cg \in CodeGradeType, NEW g \in Grades, NEW seen, NEW to \in GradeStatuses, WriteStatus(g, seen, to)
  PROVE  cg' \in CodeGradeType
BY MovedType DEF WriteStatus, CodeGradeType

LEMMA SheetType ==
  ASSUME sheet \in [Grades -> Sheet], NEW g \in Grades, NEW seen \in View, NEW a \in Marks, NEW b \in BOOLEAN
  PROVE  [sheet EXCEPT ![g].final = Written(@, seen.final, a),
                       ![g].review = Written(@, seen.review, b)] \in [Grades -> Sheet]
<1> DEFINE first == [sheet EXCEPT ![g].final = Written(@, seen.final, a)]
<1>1. first \in [Grades -> Sheet]
  BY DEF Sheet, Written
<1> HIDE DEF first
<1>2. [first EXCEPT ![g].review = Written(@, seen.review, b)] \in [Grades -> Sheet]
  BY <1>1 DEF Sheet, Written
<1>3. QED
  BY <1>2 DEF first

LEMMA ReadType ==
  ASSUME AITypeOK, NEW g \in Grades
  PROVE  Read(g) \in View
BY DEF AITypeOK, AIQueueTypeOK, Read, View, CodeGradeType, GradeRow, Sheet

LEMMA NothingType == Nothing \in View /\ Free \in [pc : AIPCs, grade : InHand, seen : View]
                     /\ Away \in [pc : TeacherPCs, op : Acts \cup {"none"}, grade : InHand, seen : View]
BY DEF Nothing, View, Free, Away, AIPCs, TeacherPCs, InHand, GradeStatuses, Marks

LEMMA InHandType == \A g \in Grades : {g} \in InHand
BY DEF InHand

LEMMA TypeStep ==
  ASSUME AITypeOK, [AINext]_aiGradingVars
  PROVE  AITypeOK'
<1> USE DEF AITypeOK, AIQueueTypeOK
<1>1. CASE UNCHANGED aiGradingVars
  BY <1>1 DEF aiGradingVars, actors
<1>2. ASSUME NEW g \in Grades, RunTests(g) PROVE AITypeOK'
  BY <1>2 DEF RunTests, aiVars, actors
<1>3. ASSUME NEW g \in Grades, JudgeGrades(g) \/ JudgeDies(g) PROVE AITypeOK'
  <2>1. CASE CreateCodeGrade(g)
    <3>1. cg' \in CodeGradeType
      BY <2>1, SetStatusType DEF CreateCodeGrade, GradeStatuses
    <3>2. sheet' \in [Grades -> Sheet]
      BY <2>1 DEF CreateCodeGrade, Sheet
    <3>3. QED
      BY <2>1, <3>1, <3>2 DEF CreateCodeGrade
  <2>2. CASE HandOverGrade(g)
    BY <2>2, EnqueueType DEF HandOverGrade
  <2>3. CASE JudgeDies(g)
    BY <2>3, AIGradingAssumption DEF JudgeDies, aiVars
  <2>4. QED
    BY <1>3, <2>1, <2>2, <2>3 DEF JudgeGrades
<1>4. ASSUME NEW g \in Grades, TickGrade(g) PROVE AITypeOK'
  <2>1. cg' = [cg EXCEPT ![g]["old"] = TRUE] \/ cg' = [cg EXCEPT ![g]["stale"] = TRUE]
    BY <1>4 DEF TickGrade, AgeGradeCreated, AgeGradeQueued, AgeGradeRunning, Age
  <2>4. \/ cg' = [cg EXCEPT ![g] = [cg[g] EXCEPT !.old = TRUE]]
        \/ cg' = [cg EXCEPT ![g] = [cg[g] EXCEPT !.stale = TRUE]]
    BY <2>1
  <2>5. cg' \in CodeGradeType
    <3>1. cg[g] \in GradeRow
      BY DEF CodeGradeType
    <3>2. PICK r \in GradeRow : cg' = [cg EXCEPT ![g] = r]
      BY <2>4, <3>1, AgedType
    <3>3. QED
      BY <3>2 DEF CodeGradeType
  <2>2. UNCHANGED <<aiQueue, lost, aiLease, aiScan>> /\ UNCHANGED otherAIVars
    BY <1>4 DEF TickGrade, AgeGradeCreated, AgeGradeQueued, AgeGradeRunning, Age
  <2>3. QED
    BY <2>5, <2>2 DEF otherAIVars, actors
<1>5. ASSUME NEW w \in AIWorkers, AIStep(w) \/ CrashAIWorker(w) PROVE AITypeOK'
  <2>1. CASE PopGrade(w)
    <3>1. Last(aiQueue) \in Grades /\ Front(aiQueue) \in Seq(Grades)
      BY <2>1 DEF PopGrade, Last, Front
    <3>2. ai' \in AIWorkerType
      BY <2>1, <3>1, NothingType, InHandType DEF PopGrade, AIWorkerType, Free, AIPCs
    <3>3. QED
      BY <2>1, <3>1, <3>2 DEF PopGrade
  <2>2. CASE RestartAIWorker(w)
    BY <2>2, NothingType DEF RestartAIWorker, AIWorkerType, aiVars
  <2>3. CASE CrashAIWorker(w)
    <3>1. ai' \in AIWorkerType
      BY <2>3, NothingType DEF CrashAIWorker, AIWorkerType, Free, AIPCs
    <3>2. QED
      BY <2>3, <3>1, AIGradingAssumption DEF CrashAIWorker, aiVars
  <2>4. ASSUME NEW g \in Grades, TakeGrade(w, g) PROVE AITypeOK'
    <3>1. ai' \in AIWorkerType
      BY <2>4, NothingType DEF TakeGrade, AIWorkerType, AIPCs
    <3>2. cg' \in CodeGradeType /\ UNCHANGED <<aiQueue, lost>>
      <4>1. CASE UNCHANGED aiVars
        BY <4>1 DEF aiVars
      <4>2. CASE ClaimAIGrade(g)
        BY <4>2, ClaimedType DEF ClaimAIGrade, CodeGradeType
      <4>3. QED
        BY <2>4, <4>1, <4>2 DEF TakeGrade
    <3>3. QED
      BY <2>4, <3>1, <3>2 DEF TakeGrade
  <2>5. ASSUME NEW g \in Grades, Ask(w, g) PROVE AITypeOK'
    <3>1. ai' \in AIWorkerType
      BY <2>5, ReadType DEF Ask, AIWorkerType, AIPCs
    <3>2. QED
      BY <2>5, <3>1 DEF Ask, aiVars
  <2>6. ASSUME NEW g \in Grades, Score(w, g) PROVE AITypeOK'
    <3> PICK a \in AIScores, review \in BOOLEAN : Score(w, g)!2!(a, review)
      BY <2>6 DEF Score
    <3>1. ai[w].seen \in View /\ a \in Marks
      BY DEF AIWorkerType, Marks
    <3>2. sheet' \in [Grades -> Sheet]
      BY <3>1, SheetType
    <3>3. official' \in [Grades -> Marks]
      BY <3>1 DEF Written
    <3>4. cg' \in CodeGradeType
      BY WriteStatusType DEF GradeStatuses
    <3>5. ai' \in AIWorkerType
      BY <2>6 DEF Score, AIWorkerType, AIPCs
    <3>6. QED
      BY <2>6, <3>2, <3>3, <3>4, <3>5 DEF Score
  <2>7. ASSUME NEW g \in Grades, Refresh(w, g) PROVE AITypeOK'
    <3>1. ai' \in AIWorkerType
      BY <2>7, ReadType, NothingType DEF Refresh, AIWorkerType, AIPCs
    <3>2. QED
      BY <2>7, <3>1 DEF Refresh, aiVars
  <2>8. ASSUME NEW g \in Grades, FinishGrade(w, g) PROVE AITypeOK'
    <3>1. ai' \in AIWorkerType /\ cg' \in CodeGradeType
      BY <2>8, NothingType, WriteStatusType DEF FinishGrade, AIWorkerType, GradeStatuses
    <3>2. QED
      BY <2>8, <3>1 DEF FinishGrade
  <2>9. ASSUME NEW g \in Grades, Fail(w, g) PROVE AITypeOK'
    <3>1. cg' \in CodeGradeType /\ aiQueue' \in Seq(Grades) /\ lost' \in 0..MaxAIFaults
      BY <2>9, FailType DEF Fail
    <3>2. ai' \in AIWorkerType
      BY <2>9, NothingType DEF Fail, AIWorkerType
    <3>3. sheet' \in [Grades -> Sheet]
      BY <2>9 DEF Fail, Sheet
    <3>4. QED
      BY <2>9, <3>1, <3>2, <3>3 DEF Fail
  <2>10. QED
    BY <1>5, <2>1, <2>2, <2>3, <2>4, <2>5, <2>6, <2>7, <2>8, <2>9 DEF AIStep
<1>6. ASSUME NEW t \in Teachers, NEW op \in Acts, NEW g \in Grades, Load(t, op, g) PROVE AITypeOK'
  <2>1. teacher' \in TeacherType
    BY <1>6, ReadType, InHandType DEF Load, TeacherType, TeacherPCs
  <2>2. QED
    BY <1>6, <2>1, AIGradingAssumption DEF Load, aiVars
<1>7. ASSUME NEW t \in Teachers, Serve(t) PROVE AITypeOK'
  <2>1. PICK g \in Grades : SaveReset(t, g) \/ SaveNew(t, g) \/ SaveOverride(t, g) \/ EnqueueSaved(t, g)
    BY <1>7 DEF Serve
  <2>2. Saved(t) \/ Answer(t) => teacher' \in TeacherType
    <3>1. ASSUME Saved(t) PROVE teacher' \in TeacherType
      BY <3>1 DEF Saved, TeacherType, TeacherPCs
    <3>2. ASSUME Answer(t) PROVE teacher' \in TeacherType
      BY <3>2, NothingType DEF Answer, TeacherType
    <3>3. QED
      BY <3>1, <3>2
  <2>3. CASE SaveReset(t, g)
    <3>3. cg' \in CodeGradeType
      BY <2>3, ResetType DEF SaveReset, CodeGradeType, TeacherType
    <3>4. QED
      BY <2>2, <2>3, <3>3 DEF SaveReset
  <2>4. CASE SaveNew(t, g)
    <3>1. cg' \in CodeGradeType
      BY <2>4, SetStatusType DEF SaveNew, GradeStatuses
    <3>2. sheet' \in [Grades -> Sheet]
      <4>1. PICK f \in {"none", "zero", "tests"} :
              sheet' = sheet \/ sheet' = [sheet EXCEPT ![g].f = f]
        BY <2>4 DEF SaveNew
      <4>2. QED
        BY <4>1 DEF Sheet
    <3>3. QED
      BY <2>2, <2>4, <3>1, <3>2 DEF SaveNew
  <2>5. CASE SaveOverride(t, g)
    <3>1. teacher[t].seen \in View /\ "teacher" \in Marks
      BY DEF TeacherType, Marks
    <3>2. sheet' \in [Grades -> Sheet]
      BY <2>5, <3>1, SheetType DEF SaveOverride
    <3>3. cg' \in CodeGradeType
      BY <2>5, WriteStatusType DEF SaveOverride, GradeStatuses
    <3>4. official' \in [Grades -> Marks]
      BY <2>5, <3>1 DEF SaveOverride, Written
    <3>5. QED
      BY <2>2, <2>5, <3>2, <3>3, <3>4 DEF SaveOverride
  <2>6. CASE EnqueueSaved(t, g)
    BY <2>2, <2>6, EnqueueType DEF EnqueueSaved
  <2>7. QED
    BY <2>1, <2>3, <2>4, <2>5, <2>6
<1>8. ASSUME NEW s \in Scanners, Recovery(s) \/ ScannerDies(s) PROVE AITypeOK'
  <2>1. CASE (StartAIScan(s) \/ NextGradeList(s)) /\ UNCHANGED otherAIVars
    <3> DEFINE Scan(phase) == [phase |-> phase, todo |-> ListedGrades(phase), held |-> TRUE]
    <3>1. PICK phase \in AIPhases : aiScan' = [aiScan EXCEPT ![s] = Scan(phase)]
      BY <2>1 DEF StartAIScan, NextGradeList, ListGrades, SuccAIPhase, AIPhases
    <3>2. ListedGrades(phase) \in SUBSET Grades
      BY DEF ListedGrades
    <3>3. aiScan' \in AIScanType
      BY <3>1, <3>2 DEF AIScanType
    <3>4. aiLease' \in Scanners \cup {NoScanner}
      BY <2>1 DEF StartAIScan, NextGradeList
    <3>5. QED
      BY <2>1, <3>3, <3>4 DEF StartAIScan, NextGradeList, aiVars, otherAIVars, actors
  <2>2. CASE EndAIScan(s) /\ UNCHANGED otherAIVars
    BY <2>2 DEF EndAIScan, aiVars, otherAIVars, actors, AIScanType, NoAIScan, AIPhases
  <2>3. ASSUME NEW g \in Grades, RecoverRow(s, g) /\ UNCHANGED otherAIVars PROVE AITypeOK'
    <3>1. cg' \in CodeGradeType /\ aiQueue' \in Seq(Grades) /\ lost' \in 0..MaxAIFaults
      BY <2>3, SetStatusType, PushType DEF RecoverRow, GradeStatuses
    <3>2. aiScan' \in AIScanType
      BY <2>3 DEF RecoverRow, AIScanType
    <3>3. QED
      BY <2>3, <3>1, <3>2 DEF RecoverRow, otherAIVars, actors
  <2>4. ASSUME NEW g \in Grades, SkipRow(s, g) /\ UNCHANGED otherAIVars PROVE AITypeOK'
    BY <2>4 DEF SkipRow, aiVars, otherAIVars, actors, AIScanType
  <2>5. CASE ScannerDies(s)
    <3>1. aiScan' \in AIScanType
      BY <2>5 DEF ScannerDies, AIScanType, NoAIScan, AIPhases
    <3>2. QED
      BY <2>5, <3>1, AIGradingAssumption DEF ScannerDies, aiVars
  <2>6. QED
    BY <1>8, <2>1, <2>2, <2>3, <2>4, <2>5 DEF Recovery
<1>9. CASE ExpireAILease
  BY <1>9 DEF ExpireAILease, AILeaseExpires, aiVars, otherAIVars, actors
<1>10. QED
  BY <1>1, <1>2, <1>3, <1>4, <1>5, <1>6, <1>7, <1>8, <1>9 DEF AINext

LEMMA TypeInit == AIInit => AITypeOK
BY NothingType, AIGradingAssumption, AIQueueAssumption
   DEF AIInit, AITypeOK, AIQueueInit, AIQueueTypeOK, CodeGradeType, GradeRow, AIScanType, AIWorkerType,
       TeacherType, GradeStatuses, AIPhases, NoAIScan, NoSheet, Sheet, Marks

\* A row, a session and a request always hold what their columns may hold, for
\* any number of grades, workers and teachers, whatever they do and however slow
\* they are.
THEOREM TypeCorrect == AISpec => []AITypeOK
BY TypeInit, TypeStep, PTL DEF AISpec

-----------------------------------------------------------------------------
(* The invariant of a prompt instance.                                      *)

\* No run outlives its limit, teachers do not override, and one request is
\* served at a time: with two of them, or with an overtaken worker, two workers
\* may grade the same submission.
Prompt == AISlow = {} /\ Acts \subseteq {"retry", "regrade"} /\ \A t, u \in Teachers : t = u

LEMMA OneHeld == ASSUME NEW w \in AIWorkers, NEW g, NEW h, Holds(w, g), Holds(w, h)
                 PROVE  g = h
BY DEF Holds

\* What the invariant says of the worker w and the row g it has in hand.
Local(w, g) ==
  /\ cg[g].status \notin {"none", "pending"}
  /\ cg[g].attempt <= MaxAIAttempts + aiCrashes
  /\ cg[g].status = "queued" \/ (cg[g].status = "running" /\ ai[w].pc \notin Busy)
       => cg[g].attempt < MaxAIAttempts + aiCrashes
  /\ ai[w].pc \in Busy => Holds(w, g) /\ ~cg[g].stale
  /\ ai[w].pc \in Grading \cup {"finishing"} => cg[g].status = "running"
  /\ ai[w].pc = "scored" => \/ cg[g].status = "running" /\ ~sheet[g].review
                            \/ cg[g].status = "review_required"
  /\ ai[w].pc = "calling" => /\ ai[w].seen.status = "running"
                             /\ ai[w].seen.official = official[g]
                             /\ ai[w].seen.final = sheet[g].final
                             /\ ai[w].seen.review = sheet[g].review
  /\ ai[w].pc = "finishing" => ai[w].seen.status = "running"
  /\ ai[w].pc = "finishing" \/ (ai[w].pc = "scored" /\ cg[g].status = "running") => InForce(g)
  /\ cg[g].status = "completed" => InForce(g)
  /\ cg[g].status = "review_required" => sheet[g].review

\* A worker moves the one row it has claimed or is about to claim: what it keeps
\* of the invariant there, it keeps everywhere.
LEMMA WorkerStep ==
  ASSUME PromptInv, AITypeOK', NEW w \in AIWorkers, NEW g \in Grades,
         Holds(w, g), ai[w].pc \in Busy \/ cg[g].status = "queued",
         \A v \in AIWorkers \ {w} : ai'[v] = ai[v],
         \A h \in Grades \ {g} : cg'[h] = cg[h] /\ sheet'[h] = sheet[h] /\ official'[h] = official[h],
         UNCHANGED <<aiLease, aiScan, teacher, aiCrashes>>,
         Local(w, g)'
  PROVE  PromptInv'
<1> USE DEF PromptInv
<1>1. \A v \in AIWorkers \ {w} : Holds(v, g) => ai[v].pc \notin Busy
  BY DEF OwnerAlone, Busy, Grading
<1>2. cg[g].status \in {"queued", "running", "review_required"}
      /\ (cg[g].status # "queued" => ai[w].pc \in Busy)
  BY DEF OwnerAlone, Busy, Grading
<1>3. OneScanner'
  BY DEF OneScanner
<1>4. ListsHold'
  <2>1. ~(cg[g].status = "running" /\ cg[g].stale)
    BY <1>2 DEF OwnerAlone
  <2>2. QED
    BY <2>1 DEF ListsHold, AITypeOK, AIQueueTypeOK, AIScanType
<1>5. AttemptsCounted'
  <2>1. ASSUME NEW h \in Grades PROVE AttemptsCounted!(h)'
    <3>1. CASE h = g
      BY <3>1 DEF Local, InProgress, Busy
    <3>2. CASE h # g
      BY <3>2, <1>1, OneHeld DEF AttemptsCounted, InProgress, Busy, Holds, Local
    <3>3. QED
      BY <3>1, <3>2
  <2>2. QED
    BY <2>1 DEF AttemptsCounted
<1>6. OwnerAlone'
  BY <1>1 DEF OwnerAlone, Local, Holds, Busy
<1>7. SessionsCurrent'
  <2>1. ASSUME NEW v \in AIWorkers, NEW h \in Grades, Holds(v, h)', v # w, ai[v].pc \in Busy
        PROVE  h # g /\ Holds(v, h) /\ ai'[v] = ai[v]
    BY <2>1, <1>1 DEF Holds
  <2>2. ASSUME NEW h \in Grades, Holds(w, h)', ai'[w].pc \in Busy
        PROVE  h = g
    BY <2>2 DEF Local, Holds
  <2>3. QED
    BY <2>1, <2>2 DEF SessionsCurrent, Local, InForce, Busy, Grading
<1>8. RequestsCurrent'
  BY <1>2 DEF RequestsCurrent, Local, Holds
<1>9. CompletedInForce' /\ ReviewIsListed' /\ CallsBounded'
  BY DEF CompletedInForce, ReviewIsListed, CallsBounded, Local, InForce
<1>10. QED
  BY <1>3, <1>4, <1>5, <1>6, <1>7, <1>8, <1>9

\* Steps that leave the rows as they are, and make no worker busy.
LEMMA QuietStep ==
  ASSUME PromptInv, AITypeOK', UNCHANGED <<sheet, official>>,
         \A g \in Grades : cg'[g].status = cg[g].status /\ cg'[g].attempt = cg[g].attempt,
         \A g \in Grades : \/ cg'[g].stale = cg[g].stale
                           \/ cg'[g].stale /\ (cg[g].status = "queued" \/ ~InProgress(g)),
         \A w \in AIWorkers : ai'[w] = ai[w] \/ ai'[w].pc \notin Busy,
         aiCrashes' >= aiCrashes,
         ai' = ai \/ aiCrashes' > aiCrashes \/ \A w \in AIWorkers : ai[w].pc \in Busy => ai'[w] = ai[w],
         \A s \in Scanners : aiScan'[s].phase = "running" =>
            aiScan[s].phase = "running" /\ aiScan'[s].todo \subseteq aiScan[s].todo,
         \A t \in Teachers : teacher'[t].pc = "loaded" => teacher'[t] = teacher[t],
         OneScanner'
  PROVE  PromptInv'
<1> USE DEF PromptInv
<1>1. ListsHold'
  BY DEF ListsHold, AITypeOK, AIQueueTypeOK, AIScanType
<1>0. aiCrashes \in Nat /\ aiCrashes' \in Nat /\ MaxAIAttempts \in Nat /\ \A g \in Grades : cg[g].attempt \in Nat
  BY AIQueueAssumption, AIGradingAssumption DEF AITypeOK, AIQueueTypeOK, CodeGradeType, GradeRow
<1>2. AttemptsCounted'
  <2>1. CASE aiCrashes' > aiCrashes
    BY <1>0, <2>1 DEF AttemptsCounted, CallsBounded
  <2>2. CASE \A w \in AIWorkers : ai[w].pc \in Busy => ai'[w] = ai[w]
    <3>1. \A g \in Grades : InProgress(g) => InProgress(g)'
      BY <2>2 DEF InProgress, Holds, Busy
    <3>2. QED
      BY <1>0, <3>1 DEF AttemptsCounted
  <2>3. QED
    BY <2>1, <2>2
<1>3. OwnerAlone'
  BY DEF OwnerAlone, Holds, InProgress, Busy, Grading
<1>4. SessionsCurrent'
  BY DEF SessionsCurrent, Holds, InForce, Busy, Grading
<1>5. RequestsCurrent'
  BY DEF RequestsCurrent, Holds, Busy
<1>6. CompletedInForce' /\ ReviewIsListed'
  BY DEF CompletedInForce, ReviewIsListed, InForce
<1>7. CallsBounded'
  BY <1>0 DEF CallsBounded
<1>8. QED
  BY <1>1, <1>2, <1>3, <1>4, <1>5, <1>6, <1>7

\* Steps that make a row, which no worker is busy with, wait for a worker.
LEMMA WaitStep ==
  ASSUME PromptInv, AITypeOK', NEW g \in Grades,
         \A w \in AIWorkers : Holds(w, g) => ai[w].pc \notin Busy,
         UNCHANGED <<official, ai, aiCrashes>>,
         \A h \in Grades : sheet'[h].final = sheet[h].final /\ sheet'[h].review = sheet[h].review,
         \A h \in Grades \ {g} : cg'[h] = cg[h],
         \/ cg'[g].status = "pending" /\ cg'[g].attempt = 0
         \/ cg'[g].status = "queued" /\ cg'[g].attempt < MaxAIAttempts + aiCrashes,
         \A s \in Scanners : aiScan'[s].phase = "running" =>
            aiScan[s].phase = "running" /\ aiScan'[s].todo \subseteq aiScan[s].todo \ {g},
         \A t \in Teachers : teacher'[t].pc = "loaded" =>
            teacher'[t] = teacher[t] /\ cg[g].status \notin {"completed", "review_required"},
         OneScanner'
  PROVE  PromptInv'
<1> USE DEF PromptInv
<1>1. ListsHold'
  BY DEF ListsHold, AITypeOK, AIQueueTypeOK, AIScanType
<1>0. aiCrashes \in Nat /\ MaxAIAttempts \in Nat \ {0} /\ \A h \in Grades : cg'[h].attempt \in Nat
  BY AIQueueAssumption, AIGradingAssumption DEF AITypeOK, AIQueueTypeOK, CodeGradeType, GradeRow
<1>2. AttemptsCounted'
  BY DEF AttemptsCounted, InProgress, Holds
<1>3. OwnerAlone'
  BY DEF OwnerAlone, Holds, Busy, Grading
<1>4. SessionsCurrent'
  BY DEF SessionsCurrent, Holds, InForce, Busy, Grading
<1>5. RequestsCurrent'
  BY DEF RequestsCurrent, Holds
<1>6. CompletedInForce' /\ ReviewIsListed'
  BY DEF CompletedInForce, ReviewIsListed, InForce
<1>7. CallsBounded'
  BY <1>0 DEF CallsBounded
<1>8. QED
  BY <1>1, <1>2, <1>3, <1>4, <1>5, <1>6, <1>7

LEMMA EnqueueStep ==
  ASSUME PromptInv, AITypeOK', NEW g \in Grades, EnqueueAIGrade(g),
         UNCHANGED <<sheet, official, ai, aiCrashes, aiLease, aiScan>>,
         \A t \in Teachers : teacher'[t].pc = "loaded" => teacher'[t] = teacher[t]
  PROVE  PromptInv'
<1>1. OneScanner' /\ aiCrashes \in Nat
  BY AIGradingAssumption DEF PromptInv, OneScanner, AITypeOK
<1>2. CASE UNCHANGED aiVars
  BY <1>1, <1>2, QuietStep DEF aiVars
<1>3. CASE cg[g].status = "pending" /\ SetStatus(g, "queued")
  <2>1. cg' = [cg EXCEPT ![g] = [cg[g] EXCEPT !.status = "queued", !.stale = FALSE]]
    BY <1>3, MovedType DEF SetStatus, PromptInv, AITypeOK, AIQueueTypeOK, CodeGradeType, GradeStatuses
  <2>2. cg'[g].status = "queued" /\ cg'[g].attempt < MaxAIAttempts + aiCrashes
    BY <1>1, <1>3, <2>1, AIQueueAssumption
       DEF PromptInv, AttemptsCounted, AITypeOK, AIQueueTypeOK, CodeGradeType, GradeRow
  <2>3. \A h \in Grades \ {g} : cg'[h] = cg[h]
    BY <2>1 DEF PromptInv, AITypeOK, AIQueueTypeOK, CodeGradeType
  <2>4. \A w \in AIWorkers : Holds(w, g) => ai[w].pc \notin Busy
    BY <1>3 DEF PromptInv, OwnerAlone, Busy
  <2>5. \A s \in Scanners : aiScan'[s].phase = "running" =>
           aiScan[s].phase = "running" /\ aiScan'[s].todo \subseteq aiScan[s].todo \ {g}
    BY <1>3 DEF PromptInv, ListsHold
  <2>6. QED
    BY <1>1, <1>3, <2>2, <2>3, <2>4, <2>5, WaitStep
<1>4. QED
  BY <1>2, <1>3 DEF EnqueueAIGrade

LEMMA ScoreStep ==
  ASSUME PromptInv, AITypeOK', NEW w \in AIWorkers, NEW g \in Grades, Score(w, g)
  PROVE  PromptInv'
<1> USE DEF PromptInv, AITypeOK, AIQueueTypeOK
<1> DEFINE seen == ai[w].seen
<1> PICK a \in AIScores, review \in BOOLEAN : Score(w, g)!2!(a, review)
  BY DEF Score
<1>1. /\ ai[w].pc = "calling" /\ Holds(w, g) /\ cg[g].status = "running" /\ ~cg[g].stale
      /\ seen.status = "running" /\ seen.official = official[g]
      /\ seen.final = sheet[g].final /\ seen.review = sheet[g].review
  BY DEF Score, OwnerAlone, SessionsCurrent, Busy, Grading
<1>2. ai'[w].pc = "scored" /\ Holds(w, g)' /\ (\A v \in AIWorkers \ {w} : ai'[v] = ai[v])
  BY <1>1 DEF Score, Holds, AIWorkerType
<1>3. sheet'[g].final = a /\ sheet'[g].review = review
      /\ (\A h \in Grades \ {g} : sheet'[h] = sheet[h])
  BY <1>1 DEF Sheet, Written
<1>4. /\ GradeMode[g] = "active" /\ ~review => official'[g] = a
      /\ \A h \in Grades \ {g} : official'[h] = official[h]
  BY <1>1 DEF Written
<1>5. /\ cg'[g].status = IF review THEN "review_required" ELSE "running"
      /\ cg'[g].attempt = cg[g].attempt /\ ~cg'[g].stale
      /\ \A h \in Grades \ {g} : cg'[h] = cg[h]
  <2>1. CASE review
    <3>1. cg' = [cg EXCEPT ![g] = [cg[g] EXCEPT !.status = "review_required", !.stale = FALSE]]
      BY <1>1, <2>1, MovedType DEF WriteStatus, CodeGradeType, GradeStatuses
    <3>2. QED
      BY <2>1, <3>1 DEF CodeGradeType, GradeRow
  <2>2. CASE ~review
    BY <1>1, <2>2
  <2>3. QED
    BY <2>1, <2>2
<1>6. a # "none"
  BY AIGradingAssumption
<1>7. Local(w, g)'
  BY <1>1, <1>2, <1>3, <1>4, <1>5, <1>6 DEF Local, InForce, CallsBounded, Busy, Grading, Score
<1>8. QED
  BY <1>1, <1>2, <1>3, <1>4, <1>5, <1>7, WorkerStep DEF Score, Busy, Grading

LEMMA ClaimStep ==
  ASSUME PromptInv, AITypeOK', NEW w \in AIWorkers, NEW g \in Grades, TakeGrade(w, g)
  PROVE  PromptInv'
<1>1. ai[w].pc = "popped" /\ Holds(w, g) /\ UNCHANGED <<aiLease, aiScan, sheet, official, teacher, aiCrashes>>
  BY DEF TakeGrade
<1>2. CASE UNCHANGED aiVars /\ ai' = [ai EXCEPT ![w] = Free]
  <2>1. OneScanner' /\ aiCrashes \in Nat /\ Free.pc \notin Busy
    BY <1>1, AIGradingAssumption DEF PromptInv, OneScanner, AITypeOK, Free, Busy, Grading
  <2>2. \A v \in AIWorkers : ai'[v] = ai[v] \/ (ai'[v].pc \notin Busy /\ ai[v].pc \notin Busy)
    BY <1>1, <1>2, <2>1 DEF PromptInv, AITypeOK, AIWorkerType, Busy, Grading
  <2>3. QED
    BY <1>1, <1>2, <2>1, <2>2, QuietStep DEF aiVars
<1>3. CASE ClaimAIGrade(g) /\ ai' = [ai EXCEPT ![w].pc = "claimed"]
  <2> USE DEF PromptInv, AITypeOK, AIQueueTypeOK
  <2>2. cg' = [cg EXCEPT ![g] = Claimed(cg[g])] /\ cg[g].status = "queued"
    BY <1>3 DEF ClaimAIGrade
  <2>3. /\ cg'[g].status = "running" /\ ~cg'[g].stale /\ cg'[g].attempt = cg[g].attempt + 1
        /\ \A h \in Grades \ {g} : cg'[h] = cg[h]
    BY <2>2, ClaimedType DEF CodeGradeType
  <2>4. cg[g].attempt < MaxAIAttempts + aiCrashes
    BY <2>2 DEF AttemptsCounted
  <2>5. ai'[w].pc = "claimed" /\ Holds(w, g)' /\ (\A v \in AIWorkers \ {w} : ai'[v] = ai[v])
    BY <1>1, <1>3 DEF AIWorkerType, Holds
  <2>6. cg[g].attempt \in Nat /\ MaxAIAttempts + aiCrashes \in Nat
    BY AIQueueAssumption, AIGradingAssumption DEF CodeGradeType, GradeRow
  <2>7. Local(w, g)'
    BY <1>1, <2>3, <2>4, <2>5, <2>6 DEF Local, Busy, Grading
  <2>8. QED
    BY <1>1, <2>2, <2>3, <2>5, <2>7, WorkerStep
<1>4. QED
  BY <1>2, <1>3 DEF TakeGrade

LEMMA OwnSteps ==
  ASSUME PromptInv, AITypeOK', NEW w \in AIWorkers, NEW g \in Grades,
         Ask(w, g) \/ Refresh(w, g) \/ FinishGrade(w, g) \/ Fail(w, g)
  PROVE  PromptInv'
<1> USE DEF PromptInv, AITypeOK, AIQueueTypeOK
<1>1. ai[w].pc \in Busy /\ Holds(w, g)
  BY DEF Ask, Refresh, FinishGrade, Fail, Busy, Grading
<1>2. /\ UNCHANGED <<aiLease, aiScan, teacher, aiCrashes, official>>
      /\ \A v \in AIWorkers \ {w} : ai'[v] = ai[v]
  BY DEF Ask, Refresh, FinishGrade, Fail, AIWorkerType
<1>3. ~cg[g].stale /\ cg[g].status \notin {"none", "pending", "queued", "completed"}
      /\ cg[g].attempt <= MaxAIAttempts + aiCrashes
  BY <1>1 DEF OwnerAlone, Busy, CallsBounded
<1>4. Free.pc \notin Busy
  BY DEF Free, Busy, Grading
<1>5. cg[g] \in GradeRow /\ ai[w] \in [pc : AIPCs, grade : InHand, seen : View]
  BY DEF CodeGradeType, AIWorkerType
<1>6. CASE Ask(w, g)
  <2>1. ai'[w].pc = "calling" /\ Holds(w, g)' /\ ai'[w].seen = Read(g)
    BY <1>6 DEF Ask, AIWorkerType, Holds
  <2>2. Local(w, g)'
    BY <1>3, <1>6, <2>1, <1>2 DEF Ask, aiVars, Local, Read, Busy, Grading, OwnerAlone, CompletedInForce,
       ReviewIsListed, InForce
  <2>3. QED
    BY <1>1, <1>2, <1>6, <2>2, WorkerStep DEF Ask, aiVars
<1>7. CASE Refresh(w, g)
  <2>1. CASE cg[g].status = "review_required" \/ sheet[g].review
    <3>1. ai'[w] = Free
      BY <1>7, <2>1 DEF Refresh, AIWorkerType
    <3>2. cg[g].status = "review_required"
      BY <1>7, <2>1 DEF Refresh, OwnerAlone
    <3>3. Local(w, g)'
      BY <1>2, <1>3, <1>4, <1>7, <3>1, <3>2
         DEF Refresh, aiVars, Local, Busy, Grading, ReviewIsListed, Free
    <3>4. QED
      BY <1>1, <1>2, <1>7, <3>3, WorkerStep DEF Refresh, aiVars
  <2>2. CASE ~(cg[g].status = "review_required" \/ sheet[g].review)
    <3>1. ai'[w].pc = "finishing" /\ Holds(w, g)' /\ ai'[w].seen = Read(g)
      BY <1>7, <2>2 DEF Refresh, AIWorkerType, Holds
    <3>2. cg[g].status = "running" /\ InForce(g)
      BY <1>7, <2>2 DEF Refresh, OwnerAlone, SessionsCurrent
    <3>3. Local(w, g)'
      BY <1>2, <1>3, <1>7, <3>1, <3>2 DEF Refresh, aiVars, Local, Read, Busy, Grading, InForce
    <3>4. QED
      BY <1>1, <1>2, <1>7, <3>3, WorkerStep DEF Refresh, aiVars
  <2>3. QED
    BY <2>1, <2>2
<1>8. CASE FinishGrade(w, g)
  <2>1. ai'[w] = Free /\ UNCHANGED sheet
    BY <1>8 DEF FinishGrade, AIWorkerType
  <2>2. ai[w].seen.status = "running" /\ InForce(g)
    BY <1>8 DEF FinishGrade, SessionsCurrent
  <2>3. cg' = [cg EXCEPT ![g] = Moved(cg[g], "completed")]
    BY <1>8, <2>2 DEF FinishGrade, WriteStatus
  <2>4. Moved(cg[g], "completed") = [cg[g] EXCEPT !.status = "completed", !.stale = FALSE]
    BY <1>5, MovedType DEF GradeStatuses
  <2>5. /\ cg'[g].status = "completed" /\ cg'[g].attempt = cg[g].attempt
        /\ \A h \in Grades \ {g} : cg'[h] = cg[h]
    BY <1>5, <2>3, <2>4 DEF CodeGradeType, GradeRow
  <2>6. Local(w, g)'
    BY <1>2, <1>3, <1>4, <2>1, <2>2, <2>5 DEF Local, InForce, Busy, Grading, Free
  <2>7. QED
    BY <1>1, <1>2, <2>1, <2>5, <2>6, WorkerStep
<1>9. CASE Fail(w, g)
  <2>1. ai'[w] = Free
    BY <1>9 DEF Fail, AIWorkerType
  <2>2. PICK retryable \in BOOLEAN : FailAIGrade(g, retryable)
    BY <1>9 DEF Fail
  <2>3. CASE cg[g].status # "running"
    <3>1. UNCHANGED <<cg, sheet>> /\ cg[g].status = "review_required"
      BY <1>3, <1>9, <2>2, <2>3 DEF FailAIGrade, aiVars, Fail, CodeGradeType, GradeRow, GradeStatuses
    <3>2. Local(w, g)'
      BY <1>2, <1>3, <1>4, <2>1, <3>1 DEF Local, Busy, Grading, Free, ReviewIsListed
    <3>3. QED
      BY <1>1, <1>2, <3>1, <3>2, WorkerStep
  <2>4. CASE cg[g].status = "running"
    <3>1. PICK to \in {"queued", "review_required"} :
            SetStatus(g, to) /\ (to = "queued" => cg[g].attempt < MaxAIAttempts)
      BY <2>2, <2>4 DEF FailAIGrade
    <3>2. cg' = [cg EXCEPT ![g] = [cg[g] EXCEPT !.status = to, !.stale = FALSE]]
      BY <1>5, <3>1, MovedType DEF SetStatus, GradeStatuses
    <3>3. /\ cg'[g].status = to /\ cg'[g].attempt = cg[g].attempt
          /\ \A h \in Grades \ {g} : cg'[h] = cg[h]
      BY <1>5, <3>2 DEF CodeGradeType, GradeRow
    <3>4. /\ to = "review_required" => sheet'[g].review
          /\ \A h \in Grades \ {g} : sheet'[h] = sheet[h]
      BY <1>9, <2>4, <3>3 DEF Fail, Sheet
    <3>5. aiCrashes \in Nat /\ MaxAIAttempts \in Nat /\ cg[g].attempt \in Nat
      BY <1>5, AIQueueAssumption, AIGradingAssumption DEF GradeRow
    <3>6. Local(w, g)'
      BY <1>2, <1>3, <1>4, <2>1, <3>1, <3>3, <3>4, <3>5 DEF Local, Busy, Grading, Free
    <3>7. QED
      BY <1>1, <1>2, <3>3, <3>4, <3>6, WorkerStep
  <2>5. QED
    BY <2>3, <2>4
<1>10. QED
  BY <1>6, <1>7, <1>8, <1>9

\* Steps that touch neither rows nor workers.
LEMMA IdleStep ==
  ASSUME PromptInv, AITypeOK', UNCHANGED <<cg, sheet, official, ai>>, aiCrashes' >= aiCrashes,
         \A s \in Scanners : aiScan'[s].phase = "running" =>
            aiScan[s].phase = "running" /\ aiScan'[s].todo \subseteq aiScan[s].todo,
         \A t \in Teachers : teacher'[t].pc = "loaded" => teacher'[t] = teacher[t],
         OneScanner'
  PROVE  PromptInv'
BY QuietStep

LEMMA PromptStep ==
  ASSUME Prompt, PromptInv, [AINext]_aiGradingVars
  PROVE  PromptInv'
<1>1. AITypeOK' /\ AITypeOK /\ OneScanner /\ aiCrashes \in Nat
  BY TypeStep, AIGradingAssumption DEF PromptInv, AITypeOK
<1>2. cg \in CodeGradeType /\ ai \in AIWorkerType /\ teacher \in TeacherType /\ aiScan \in AIScanType
  BY <1>1 DEF AITypeOK, AIQueueTypeOK
<1>3. CASE UNCHANGED aiGradingVars
  <2>1. OneScanner'
    BY <1>1, <1>3 DEF OneScanner, aiGradingVars
  <2>2. QED
    BY <1>1, <1>3, <2>1, IdleStep DEF aiGradingVars, actors
<1>4. ASSUME NEW g \in Grades, RunTests(g) \/ JudgeDies(g) PROVE PromptInv'
  <2>1. OneScanner'
    BY <1>1, <1>4 DEF OneScanner, RunTests, JudgeDies
  <2>2. QED
    BY <1>1, <1>4, <2>1, IdleStep DEF RunTests, JudgeDies, aiVars, actors
<1>5. ASSUME NEW g \in Grades, CreateCodeGrade(g) PROVE PromptInv'
  <2>1. OneScanner'
    BY <1>1, <1>5 DEF OneScanner, CreateCodeGrade
  <2>2. CASE cg[g].status # "none"
    BY <1>1, <1>5, <2>1, <2>2, IdleStep DEF CreateCodeGrade
  <2>3. CASE cg[g].status = "none"
    <3>1. /\ cg'[g].status = "pending" /\ cg'[g].attempt = 0
          /\ \A h \in Grades \ {g} : cg'[h] = cg[h]
      <4>1. cg' = [cg EXCEPT ![g] = [cg[g] EXCEPT !.status = "pending", !.stale = FALSE]]
        BY <1>2, <1>5, <2>3, MovedType DEF CreateCodeGrade, SetStatus, CodeGradeType, GradeStatuses
      <4>2. cg[g].attempt = 0
        BY <2>3 DEF PromptInv, AttemptsCounted
      <4>3. QED
        BY <1>2, <4>1, <4>2 DEF CodeGradeType, GradeRow
    <3>2. \A h \in Grades : sheet'[h].final = sheet[h].final /\ sheet'[h].review = sheet[h].review
      BY <1>1, <1>5 DEF CreateCodeGrade, AITypeOK, Sheet
    <3>3. \A w \in AIWorkers : Holds(w, g) => ai[w].pc \notin Busy
      BY <2>3 DEF PromptInv, OwnerAlone, Busy
    <3>4. \A s \in Scanners : aiScan'[s].phase = "running" =>
             aiScan[s].phase = "running" /\ aiScan'[s].todo \subseteq aiScan[s].todo \ {g}
      BY <1>5, <2>3 DEF PromptInv, ListsHold, CreateCodeGrade
    <3>5. QED
      BY <1>1, <1>5, <2>1, <2>3, <3>1, <3>2, <3>3, <3>4, WaitStep DEF CreateCodeGrade
  <2>4. QED
    BY <2>2, <2>3
<1>6. ASSUME NEW g \in Grades, HandOverGrade(g) PROVE PromptInv'
  BY <1>1, <1>6, EnqueueStep DEF HandOverGrade
<1>7. ASSUME NEW g \in Grades, TickGrade(g) PROVE PromptInv'
  <2>1. UNCHANGED <<aiLease, aiScan, sheet, official, ai, teacher, aiCrashes>>
    BY <1>7 DEF TickGrade, AgeGradeCreated, AgeGradeQueued, AgeGradeRunning, Age, otherAIVars, actors
  <2>2. OneScanner'
    BY <1>1, <2>1 DEF OneScanner
  <2>3. \/ cg' = [cg EXCEPT ![g]["old"] = TRUE]
        \/ /\ cg' = [cg EXCEPT ![g]["stale"] = TRUE]
           /\ cg[g].status = "queued" \/ ~InProgress(g)
    BY <1>7 DEF TickGrade, AgeGradeCreated, AgeGradeQueued, AgeGradeRunning, Age, Prompt
  <2>4. /\ \A h \in Grades : cg'[h].status = cg[h].status /\ cg'[h].attempt = cg[h].attempt
        /\ \A h \in Grades : \/ cg'[h].stale = cg[h].stale
                             \/ cg'[h].stale /\ (cg[h].status = "queued" \/ ~InProgress(h))
    <3>1. CASE cg' = [cg EXCEPT ![g]["old"] = TRUE]
      <4>1. cg' = [cg EXCEPT ![g] = [cg[g] EXCEPT !.old = TRUE]]
        BY <3>1
      <4>2. QED
        BY <1>2, <4>1 DEF CodeGradeType, GradeRow
    <3>2. CASE /\ cg' = [cg EXCEPT ![g]["stale"] = TRUE]
               /\ cg[g].status = "queued" \/ ~InProgress(g)
      <4>1. cg' = [cg EXCEPT ![g] = [cg[g] EXCEPT !.stale = TRUE]]
        BY <3>2
      <4>2. cg'[g].status = cg[g].status /\ cg'[g].attempt = cg[g].attempt /\ cg'[g].stale = TRUE
        BY <1>2, <4>1 DEF CodeGradeType, GradeRow
      <4>3. \A h \in Grades \ {g} : cg'[h] = cg[h]
        BY <1>2, <4>1 DEF CodeGradeType
      <4>4. QED
        BY <3>2, <4>2, <4>3
    <3>3. QED
      BY <2>3, <3>1, <3>2
  <2>5. QED
    BY <1>1, <2>1, <2>2, <2>4, QuietStep
<1>8. ASSUME NEW w \in AIWorkers, PopGrade(w) \/ RestartAIWorker(w) \/ CrashAIWorker(w) PROVE PromptInv'
  <2>1. OneScanner'
    BY <1>1, <1>8 DEF OneScanner, PopGrade, RestartAIWorker, CrashAIWorker
  <2>2. /\ UNCHANGED <<cg, sheet, official, aiScan, teacher>> /\ aiCrashes' >= aiCrashes
        /\ \A v \in AIWorkers \ {w} : ai'[v] = ai[v]
        /\ ai'[w].pc \notin Busy
        /\ aiCrashes' > aiCrashes \/ ai[w].pc \notin Busy
    <3>1. CASE PopGrade(w)
      BY <1>1, <1>2, <3>1 DEF PopGrade, AIWorkerType, Free, Busy, Grading
    <3>2. CASE RestartAIWorker(w)
      BY <1>1, <1>2, <3>2 DEF RestartAIWorker, aiVars, AIWorkerType, Free, Busy, Grading
    <3>3. CASE CrashAIWorker(w)
      BY <1>1, <1>2, <3>3 DEF CrashAIWorker, aiVars, AIWorkerType, Free, Busy, Grading
    <3>4. QED
      BY <1>8, <3>1, <3>2, <3>3
  <2>3. QED
    BY <1>1, <2>1, <2>2, QuietStep
<1>9. ASSUME NEW w \in AIWorkers, AIStep(w) PROVE PromptInv'
  <2>1. CASE PopGrade(w) \/ RestartAIWorker(w)
    BY <2>1, <1>8
  <2>2. CASE \E g \in Grades : \/ TakeGrade(w, g) \/ Ask(w, g) \/ Score(w, g) \/ Refresh(w, g)
                               \/ FinishGrade(w, g) \/ Fail(w, g)
    BY <2>2, <1>1, ClaimStep, ScoreStep, OwnSteps
  <2>3. QED
    BY <1>9, <2>1, <2>2 DEF AIStep
<1>10. ASSUME NEW t \in Teachers, NEW op \in Acts, NEW g \in Grades, Load(t, op, g)
       PROVE  PromptInv'
  <2>1. UNCHANGED <<cg, sheet, official, aiScan, aiLease, ai, aiCrashes>>
    BY <1>10 DEF Load, aiVars
  <2>2. /\ teacher'[t] = [pc |-> "loaded", op |-> op, grade |-> {g}, seen |-> Read(g)]
        /\ \A u \in Teachers : u = t
    BY <1>2, <1>10 DEF Load, TeacherType, Prompt
  <2>3. op \in {"retry", "regrade"} /\ cg[g].status \notin {"running", "queued"}
    BY <1>10 DEF Load, Admitted, Prompt
  <2>4. \A w \in AIWorkers : Holds(w, g) => ai[w].pc \notin Busy
    BY <1>10, <2>3 DEF Load, AnswerWritten, Prompt, PromptInv, OwnerAlone, Busy, Grading
  <2>5. RequestsCurrent'
    <3> SUFFICES ASSUME NEW h \in Grades, teacher'[t].grade = {h}
                 PROVE  h = g /\ RequestsCurrent!(t, g)'
      BY <2>2 DEF RequestsCurrent
    <3>1. h = g
      BY <2>2
    <3>2. cg[g].status = "pending" => cg[g].attempt = 0
      BY DEF PromptInv, AttemptsCounted
    <3>3. QED
      BY <2>1, <2>2, <2>3, <2>4, <3>1, <3>2 DEF Read, Holds
  <2>6. AttemptsCounted' /\ OwnerAlone' /\ SessionsCurrent'
    BY <2>1 DEF PromptInv, AttemptsCounted, OwnerAlone, SessionsCurrent, InProgress, InForce, Holds
  <2>7. QED
    BY <1>1, <2>1, <2>5, <2>6
       DEF PromptInv, OneScanner, ListsHold, CompletedInForce, ReviewIsListed, CallsBounded, InForce
<1>11. ASSUME NEW t \in Teachers, NEW g \in Grades, SaveReset(t, g) PROVE PromptInv'
  <2> DEFINE seen == teacher[t].seen
  <2>1. /\ UNCHANGED <<sheet, official, aiScan, aiLease, ai, aiCrashes>>
        /\ cg' = [cg EXCEPT ![g] = Reset(cg[g], seen)]
        /\ teacher[t].pc = "loaded" /\ teacher[t].grade = {g} /\ seen.status # "none"
    BY <1>11 DEF SaveReset, Saving
  <2>2. \A u \in Teachers : teacher'[u].pc # "loaded"
    BY <1>2, <1>11 DEF SaveReset, Saved, TeacherType, Prompt
  <2>3. OneScanner'
    BY <1>1, <2>1 DEF OneScanner
  <2>4. cg[g] \in GradeRow /\ seen \in View
    BY <1>2 DEF CodeGradeType, TeacherType
  <2>5. CASE seen.status = "pending"
    <3>1. seen.attempt = 0
      BY <2>1, <2>5 DEF PromptInv, RequestsCurrent
    <3>2. cg' = cg
      BY <1>2, <2>1, <2>4, <2>5, <3>1, ResetType DEF CodeGradeType
    <3>3. QED
      BY <1>1, <2>1, <2>2, <2>3, <3>2, IdleStep
  <2>6. CASE seen.status # "pending"
    <3>1. seen.status \in {"completed", "review_required"}
      BY <2>1, <2>4, <2>6 DEF PromptInv, RequestsCurrent, View, GradeStatuses
    <3>2. /\ cg[g].status = seen.status /\ cg[g].attempt = seen.attempt
          /\ \A w \in AIWorkers : Holds(w, g) => ai[w].pc \notin Busy
      BY <2>1, <3>1 DEF PromptInv, RequestsCurrent
    <3>3. /\ cg'[g].status = "pending" /\ cg'[g].attempt = 0
          /\ \A h \in Grades \ {g} : cg'[h] = cg[h]
      BY <1>2, <2>1, <2>4, <2>6, <3>2, ResetType DEF CodeGradeType
    <3>4. \A s \in Scanners : aiScan'[s].phase = "running" =>
             aiScan[s].phase = "running" /\ aiScan'[s].todo \subseteq aiScan[s].todo \ {g}
      BY <2>1, <3>1, <3>2 DEF PromptInv, ListsHold
    <3>5. QED
      BY <1>1, <2>1, <2>2, <2>3, <3>2, <3>3, <3>4, WaitStep
  <2>7. QED
    BY <2>5, <2>6
<1>12. ASSUME NEW t \in Teachers, NEW g \in Grades, SaveNew(t, g) PROVE PromptInv'
  <2>1. /\ UNCHANGED <<official, aiScan, aiLease, ai, aiCrashes>>
        /\ teacher[t].pc = "loaded"
    BY <1>12 DEF SaveNew, Saving
  <2>2. \A u \in Teachers : teacher'[u].pc # "loaded"
    BY <1>2, <1>12 DEF SaveNew, Saved, Answer, Away, TeacherType, Prompt
  <2>3. OneScanner'
    BY <1>1, <2>1 DEF OneScanner
  <2>4. CASE cg[g].status # "none"
    BY <1>1, <1>12, <2>1, <2>2, <2>3, <2>4, IdleStep DEF SaveNew
  <2>5. CASE cg[g].status = "none"
    <3>1. /\ cg'[g].status = "pending" /\ cg'[g].attempt = 0
          /\ \A h \in Grades \ {g} : cg'[h] = cg[h]
      <4>1. cg' = [cg EXCEPT ![g] = [cg[g] EXCEPT !.status = "pending", !.stale = FALSE]]
        BY <1>2, <1>12, <2>5, MovedType DEF SaveNew, SetStatus, CodeGradeType, GradeStatuses
      <4>2. cg[g].attempt = 0
        BY <2>5 DEF PromptInv, AttemptsCounted
      <4>3. QED
        BY <1>2, <4>1, <4>2 DEF CodeGradeType, GradeRow
    <3>2. \A h \in Grades : sheet'[h].final = sheet[h].final /\ sheet'[h].review = sheet[h].review
      BY <1>1, <1>12, <2>5 DEF SaveNew, AITypeOK, Sheet
    <3>3. \A w \in AIWorkers : Holds(w, g) => ai[w].pc \notin Busy
      BY <2>5 DEF PromptInv, OwnerAlone, Busy
    <3>4. \A s \in Scanners : aiScan'[s].phase = "running" =>
             aiScan[s].phase = "running" /\ aiScan'[s].todo \subseteq aiScan[s].todo \ {g}
      BY <2>1, <2>5 DEF PromptInv, ListsHold
    <3>5. QED
      BY <1>1, <2>1, <2>2, <2>3, <3>1, <3>2, <3>3, <3>4, WaitStep
  <2>6. QED
    BY <2>4, <2>5
<1>13. ASSUME NEW t \in Teachers, NEW g \in Grades, EnqueueSaved(t, g) PROVE PromptInv'
  <2>1. \A u \in Teachers : teacher'[u].pc = "loaded" => teacher'[u] = teacher[u]
    BY <1>2, <1>13 DEF EnqueueSaved, Answer, Away, TeacherType
  <2>2. QED
    BY <1>1, <1>13, <2>1, EnqueueStep DEF EnqueueSaved
<1>14. ASSUME NEW t \in Teachers, Serve(t) PROVE PromptInv'
  <2>1. \A g \in Grades : ~SaveOverride(t, g)
    BY DEF SaveOverride, Saving, PromptInv, RequestsCurrent
  <2>2. QED
    BY <1>11, <1>12, <1>13, <1>14, <2>1 DEF Serve
<1>15. ASSUME NEW s \in Scanners, Recovery(s) \/ ScannerDies(s) PROVE PromptInv'
  <2>1. CASE StartAIScan(s) /\ UNCHANGED otherAIVars
    <3>1. aiScan' = [aiScan EXCEPT ![s] = [phase |-> "running", todo |-> ListedGrades("running"), held |-> TRUE]]
          /\ aiLease' = s /\ aiLease \in {NoScanner, s}
      BY <2>1 DEF StartAIScan, ListGrades
    <3>2. UNCHANGED <<cg, sheet, official, ai, teacher, aiCrashes>>
      BY <2>1 DEF StartAIScan, aiVars, otherAIVars, actors
    <3>3. \A r \in Scanners \ {s} : aiScan'[r] = aiScan[r] /\ aiScan[r].phase = "off"
      BY <1>1, <1>2, <3>1, AIQueueAssumption DEF OneScanner, AIScanType
    <3>4. aiScan'[s] = [phase |-> "running", todo |-> ListedGrades("running"), held |-> TRUE]
      BY <1>2, <3>1 DEF AIScanType
    <3>5. OneScanner' /\ ListsHold'
      BY <3>1, <3>2, <3>3, <3>4 DEF OneScanner, ListsHold, ListedGrades
    <3>6. QED
      BY <1>1, <3>2, <3>5 DEF PromptInv, AttemptsCounted, OwnerAlone, SessionsCurrent, RequestsCurrent,
         CompletedInForce, ReviewIsListed, CallsBounded, InForce, InProgress, Holds
  <2>2. CASE NextGradeList(s) /\ UNCHANGED otherAIVars
    <3>1. UNCHANGED <<cg, sheet, official, ai, teacher, aiCrashes, aiLease>>
      BY <2>2 DEF NextGradeList, aiVars, otherAIVars, actors
    <3>2. /\ aiScan[s].phase # "off" /\ aiScan'[s].phase \notin {"off", "running"}
          /\ \A r \in Scanners \ {s} : aiScan'[r] = aiScan[r]
      BY <1>2, <2>2 DEF NextGradeList, ListGrades, SuccAIPhase, AIScanType
    <3>3. OneScanner'
      BY <1>1, <3>1, <3>2 DEF OneScanner
    <3>4. QED
      BY <1>1, <3>1, <3>2, <3>3, IdleStep
  <2>3. CASE (EndAIScan(s) /\ UNCHANGED otherAIVars) \/ ScannerDies(s)
    <3>1. UNCHANGED <<cg, sheet, official, ai, teacher, aiLease>> /\ aiCrashes' >= aiCrashes
      BY <1>1, <2>3 DEF EndAIScan, ScannerDies, aiVars, otherAIVars, actors
    <3>2. aiScan'[s].phase = "off" /\ \A r \in Scanners \ {s} : aiScan'[r] = aiScan[r]
      BY <1>2, <2>3 DEF EndAIScan, ScannerDies, NoAIScan, AIScanType
    <3>3. OneScanner'
      BY <1>1, <3>1, <3>2 DEF OneScanner
    <3>4. QED
      BY <1>1, <3>1, <3>2, <3>3, IdleStep
  <2>4. ASSUME NEW g \in Grades, SkipRow(s, g) /\ UNCHANGED otherAIVars PROVE PromptInv'
    <3>1. UNCHANGED <<cg, sheet, official, ai, teacher, aiCrashes, aiLease>>
      BY <2>4 DEF SkipRow, aiVars, otherAIVars, actors
    <3>2. /\ aiScan'[s].phase = aiScan[s].phase /\ aiScan'[s].todo \subseteq aiScan[s].todo
          /\ \A r \in Scanners \ {s} : aiScan'[r] = aiScan[r]
      BY <1>2, <2>4 DEF SkipRow, AIScanType
    <3>3. OneScanner'
      BY <1>1, <3>1, <3>2 DEF OneScanner
    <3>4. QED
      BY <1>1, <3>1, <3>2, <3>3, IdleStep
  <2>5. ASSUME NEW g \in Grades, RecoverRow(s, g) /\ UNCHANGED otherAIVars PROVE PromptInv'
    <3>1. UNCHANGED <<sheet, official, ai, teacher, aiCrashes, aiLease>>
      BY <2>5 DEF RecoverRow, otherAIVars, actors
    <3>2. /\ aiScan'[s].phase = aiScan[s].phase /\ aiScan'[s].todo = aiScan[s].todo \ {g}
          /\ \A r \in Scanners \ {s} : aiScan'[r] = aiScan[r]
          /\ aiScan[s].phase # "off"
          /\ cg[g].status = aiScan[s].phase
      <4>1. aiScan' = [aiScan EXCEPT ![s].todo = aiScan[s].todo \ {g}] /\ GradeMatches(s, g)
        BY <2>5 DEF RecoverRow
      <4>2. aiScan[s].phase # "off"
        BY <1>2, <4>1 DEF GradeMatches, CodeGradeType, GradeRow, GradeStatuses
      <4>3. QED
        BY <1>2, <4>1, <4>2 DEF GradeMatches, AIScanType
    <3>3. OneScanner'
      BY <1>1, <3>1, <3>2 DEF OneScanner
    <3>4. \A w \in AIWorkers : Holds(w, g) => ai[w].pc \notin Busy
      <4>1. cg[g].status = "running" => cg[g].stale
        BY <2>5, <3>2 DEF PromptInv, ListsHold, RecoverRow
      <4>2. cg[g].status \in {"running", "queued", "pending"}
        BY <1>2, <3>2 DEF AIScanType, AIPhases
      <4>3. QED
        BY <4>1, <4>2 DEF PromptInv, OwnerAlone, Busy
    <3>5. cg[g].attempt < MaxAIAttempts + aiCrashes
      <4>1. CASE cg[g].status = "running"
        BY <3>4, <4>1 DEF PromptInv, AttemptsCounted, InProgress, Busy
      <4>2. CASE cg[g].status = "queued"
        BY <4>2 DEF PromptInv, AttemptsCounted
      <4>3. CASE cg[g].status = "pending"
        BY <1>1, <4>3, AIQueueAssumption DEF PromptInv, AttemptsCounted
      <4>4. QED
        BY <1>2, <3>2, <4>1, <4>2, <4>3 DEF AIScanType, AIPhases
    <3>6. cg' = [cg EXCEPT ![g] = [cg[g] EXCEPT !.status = "queued", !.stale = FALSE]]
      BY <1>2, <2>5, MovedType DEF RecoverRow, SetStatus, CodeGradeType, GradeStatuses
    <3>7. /\ cg'[g].status = "queued" /\ cg'[g].attempt < MaxAIAttempts + aiCrashes
          /\ \A h \in Grades \ {g} : cg'[h] = cg[h]
      BY <1>2, <3>5, <3>6 DEF CodeGradeType, GradeRow
    <3>8. \A r \in Scanners : aiScan'[r].phase = "running" =>
             aiScan[r].phase = "running" /\ aiScan'[r].todo \subseteq aiScan[r].todo \ {g}
      BY <1>1, <3>2 DEF OneScanner
    <3>9. cg[g].status \notin {"completed", "review_required"}
      BY <1>2, <3>2 DEF AIScanType, AIPhases
    <3>10. QED
      BY <1>1, <3>1, <3>3, <3>4, <3>7, <3>8, <3>9, WaitStep
  <2>6. QED
    BY <1>15, <2>1, <2>2, <2>3, <2>4, <2>5 DEF Recovery
<1>16. CASE ExpireAILease
  <2>1. OneScanner'
    BY <1>16 DEF OneScanner, ExpireAILease, AILeaseExpires
  <2>2. QED
    BY <1>1, <1>16, <2>1, IdleStep DEF ExpireAILease, AILeaseExpires, aiVars, otherAIVars, actors
<1>17. QED
  BY <1>3, <1>4, <1>5, <1>6, <1>7, <1>8, <1>9, <1>10, <1>14, <1>15, <1>16 DEF AINext, JudgeGrades

LEMMA PromptStart == AIInit => PromptInv
<1> SUFFICES ASSUME AIInit PROVE PromptInv
  OBVIOUS
<1>1. AITypeOK
  BY TypeInit
<1>2. OneScanner /\ ListsHold /\ AttemptsCounted /\ CompletedInForce /\ ReviewIsListed /\ CallsBounded
  BY AIQueueAssumption DEF AIInit, AIQueueInit, NoAIScan, OneScanner, ListsHold, AttemptsCounted,
     CompletedInForce, ReviewIsListed, CallsBounded
<1>3. OwnerAlone /\ SessionsCurrent /\ RequestsCurrent
  BY DEF AIInit, OwnerAlone, SessionsCurrent, RequestsCurrent, Free, Away, Busy, Grading
<1>4. QED
  BY <1>1, <1>2, <1>3 DEF PromptInv

\* Rows, sessions, requests and lists agree with each other as PromptInv says,
\* however the wake-ups, crashes, failures, scans and requests interleave.
THEOREM PromptInvariant == ASSUME Prompt PROVE AISpec => []PromptInv
BY PromptStart, PromptStep, PTL DEF AISpec

\* No two workers ask the service for the same submission at the same time.
THEOREM OneGrader == ASSUME Prompt PROVE AISpec => []SingleGrader
<1>1. PromptInv => SingleGrader
  BY DEF PromptInv, OwnerAlone, SingleGrader, Busy
<1>2. QED
  BY <1>1, PromptInvariant, PTL

\* The calls of the service for one grade are bounded by max_attempts and by the
\* workers that have died.
THEOREM BoundedCalls == ASSUME Prompt PROVE AISpec => []CallsBounded
<1>1. PromptInv => CallsBounded
  BY DEF PromptInv
<1>2. QED
  BY <1>1, PromptInvariant, PTL

\* The score the student is shown and the one the teacher reviews are the same.
THEOREM ScoresAgree == ASSUME Prompt PROVE AISpec => []OfficialIsFinal
<1>1. PromptInv => OfficialIsFinal
  BY DEF PromptInv, CompletedInForce, InForce, OfficialIsFinal
<1>2. QED
  BY <1>1, PromptInvariant, PTL

\* A completed grade has brought its score, and one given up is on the teachers'
\* list: no grade is left where nobody looks at it.
THEOREM NoneForgotten == ASSUME Prompt PROVE AISpec => []NoGradeForgotten
<1>1. PromptInv => NoGradeForgotten
  BY DEF PromptInv, CompletedInForce, InForce, NoGradeForgotten, CompletedIsScored
<1>2. QED
  BY <1>1, PromptInvariant, PTL

\* Only a request takes a settled grade back.
LEMMA SettledStep ==
  ASSUME PromptInv, [AINext]_aiGradingVars, NEW g \in Grades,
         cg[g].status \in {"completed", "review_required"}, cg'[g].status # cg[g].status
  PROVE  \E t \in Teachers : teacher[t].pc = "loaded" /\ teacher'[t].pc # "loaded"
<1>1. cg \in CodeGradeType /\ aiScan \in AIScanType /\ teacher \in TeacherType
  BY DEF PromptInv, AITypeOK, AIQueueTypeOK
<1>2. ASSUME NEW h \in Grades, NEW to \in GradeStatuses, SetStatus(h, to) PROVE h = g
  BY <1>1, <1>2 DEF SetStatus, CodeGradeType
<1>3. cg' # cg
  OBVIOUS
<1>4. ASSUME NEW h \in Grades PROVE ~(RunTests(h) \/ JudgeDies(h))
  BY <1>3, <1>4 DEF RunTests, JudgeDies, aiVars
<1>5. ASSUME NEW h \in Grades PROVE ~EnqueueAIGrade(h)
  BY <1>2, <1>3 DEF EnqueueAIGrade, aiVars, GradeStatuses
<1>6. ASSUME NEW h \in Grades PROVE ~JudgeGrades(h)
  BY <1>2, <1>3, <1>5 DEF JudgeGrades, CreateCodeGrade, HandOverGrade, GradeStatuses
<1>7. ASSUME NEW h \in Grades PROVE ~TickGrade(h)
  <2>1. TickGrade(h) => \/ cg' = [cg EXCEPT ![h]["old"] = TRUE] \/ cg' = [cg EXCEPT ![h]["stale"] = TRUE]
    BY DEF TickGrade, AgeGradeCreated, AgeGradeQueued, AgeGradeRunning, Age
  <2>2. TickGrade(h) => \/ cg' = [cg EXCEPT ![h] = [cg[h] EXCEPT !.old = TRUE]]
                        \/ cg' = [cg EXCEPT ![h] = [cg[h] EXCEPT !.stale = TRUE]]
    BY <2>1
  <2>3. QED
    BY <1>1, <2>2 DEF CodeGradeType, GradeRow
<1>8. ASSUME NEW w \in AIWorkers PROVE ~(AIStep(w) \/ CrashAIWorker(w))
  <2>1. ~(PopGrade(w) \/ RestartAIWorker(w) \/ CrashAIWorker(w))
    BY <1>3 DEF PopGrade, RestartAIWorker, CrashAIWorker, aiVars
  <2>2. ASSUME NEW h \in Grades PROVE ~(Ask(w, h) \/ Refresh(w, h))
    BY <1>3 DEF Ask, Refresh, aiVars
  <2>3. ASSUME NEW h \in Grades PROVE ~TakeGrade(w, h)
    BY <1>1, <1>3 DEF TakeGrade, ClaimAIGrade, aiVars, CodeGradeType
  <2>4. ASSUME NEW h \in Grades, Holds(w, h), ai[w].pc \in {"calling", "finishing"}
        PROVE  cg[h].status = "running"
    BY <2>4 DEF PromptInv, OwnerAlone, Grading
  <2>5. ASSUME NEW h \in Grades, NEW to, WriteStatus(h, ai[w].seen, to) PROVE h = g
    BY <1>1, <2>5 DEF WriteStatus, CodeGradeType
  <2>6. ASSUME NEW h \in Grades PROVE ~Score(w, h)
    <3>1. Score(w, h) => WriteStatus(h, ai[w].seen, "review_required") \/ UNCHANGED cg
      BY DEF Score
    <3>2. QED
      BY <1>3, <2>4, <2>5, <3>1 DEF Score
  <2>7. ASSUME NEW h \in Grades PROVE ~FinishGrade(w, h)
    BY <2>4, <2>5 DEF FinishGrade
  <2>8. ASSUME NEW h \in Grades PROVE ~Fail(w, h)
    BY <1>2, <1>3 DEF Fail, FailAIGrade, aiVars, GradeStatuses
  <2>9. QED
    BY <2>1, <2>2, <2>3, <2>6, <2>7, <2>8 DEF AIStep
<1>9. ASSUME NEW t \in Teachers, NEW op \in Acts, NEW h \in Grades PROVE ~Load(t, op, h)
  BY <1>3 DEF Load, aiVars
<1>10. ASSUME NEW t \in Teachers, Serve(t)
       PROVE  teacher[t].pc = "loaded" /\ teacher'[t].pc # "loaded"
  <2>1. \A h \in Grades : ~EnqueueSaved(t, h)
    BY <1>5 DEF EnqueueSaved
  <2>2. PICK h \in Grades : SaveReset(t, h) \/ SaveNew(t, h) \/ SaveOverride(t, h)
    BY <1>10, <2>1 DEF Serve
  <2>3. teacher[t].pc = "loaded"
    BY <2>2 DEF SaveReset, SaveNew, SaveOverride, Saving
  <2>4. Saved(t) \/ Answer(t)
    BY <2>2 DEF SaveReset, SaveNew, SaveOverride
  <2>5. QED
    BY <1>1, <2>3, <2>4 DEF Saved, Answer, Away, TeacherType
<1>11. ASSUME NEW s \in Scanners PROVE ~(Recovery(s) \/ ScannerDies(s))
  <2>1. ASSUME NEW h \in Grades PROVE ~RecoverRow(s, h)
    <3>1. RecoverRow(s, h) => h = g
      BY <1>2 DEF RecoverRow, GradeStatuses
    <3>2. QED
      BY <1>1, <3>1 DEF RecoverRow, GradeMatches, AIScanType, AIPhases
  <2>2. QED
    BY <1>3, <2>1 DEF Recovery, ScannerDies, StartAIScan, NextGradeList, EndAIScan, SkipRow, aiVars
<1>12. ~ExpireAILease /\ ~UNCHANGED aiGradingVars
  BY <1>3 DEF ExpireAILease, AILeaseExpires, aiVars, aiGradingVars
<1>13. QED
  BY <1>4, <1>6, <1>7, <1>8, <1>9, <1>10, <1>11, <1>12 DEF AINext

\* A grade that was completed or handed to a teacher stays so until a teacher
\* asks for more: no late answer, failure, wake-up or scan takes it back.
THEOREM SettledIsKept == ASSUME Prompt PROVE AISpec => SettledStays
<1>1. ASSUME PromptInv, [AINext]_aiGradingVars
      PROVE  [\A g \in Grades :
                (cg[g].status \in {"completed", "review_required"} /\ cg'[g].status # cg[g].status)
                  => \E t \in Teachers : teacher[t].pc = "loaded" /\ teacher'[t].pc # "loaded"]_aiGradingVars
  BY <1>1, SettledStep
<1>2. QED
  BY <1>1, PromptInvariant, PTL DEF AISpec, SettledStays
=============================================================================
