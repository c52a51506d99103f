----------------------- MODULE AssignmentJudgeProofs -----------------------
(***************************************************************************)
(* Theorems about AssignmentJudge, for any sets of jobs and workers, any   *)
(* number of attempts and any bounds, checked by TLAPS.                    *)
(***************************************************************************)
EXTENDS AssignmentJudgeInv, TLAPS, FiniteSetTheorems

-----------------------------------------------------------------------------
(* What the operators the actions are built from do to the types.           *)

LEMMA SetStateType ==
  ASSUME row \in RowType, NEW j \in Jobs, NEW to \in States, SetState(j, to)
  PROVE  row' \in RowType
BY DEF SetState, RowType

LEMMA PushType ==
  ASSUME queue \in Seq(Jobs), faults \in 0..MaxFaults, NEW j \in Jobs, Push(j)
  PROVE  queue' \in Seq(Jobs) /\ faults' \in 0..MaxFaults
BY BoundsAssumption DEF Push

LEMMA EnqueueJobType ==
  ASSUME row \in RowType, queue \in Seq(Jobs), faults \in 0..MaxFaults,
         NEW j \in Jobs, EnqueueJob(j)
  PROVE  row' \in RowType /\ queue' \in Seq(Jobs) /\ faults' \in 0..MaxFaults
<1>1. row' \in RowType
  BY DEF EnqueueJob, RowType, States
<1>2. QED
  BY <1>1, PushType DEF EnqueueJob

LEMMA FailJobType ==
  ASSUME row \in RowType, NEW j \in Jobs, NEW b \in BOOLEAN, FailJob(j, b)
  PROVE  row' \in RowType
BY SetStateType DEF FailJob, States

LEMMA FlushType ==
  ASSUME result \in ResultType, NEW w \in Workers, NEW j \in Jobs,
         NEW new \in Results, Flush(w, j, new)
  PROVE  result' \in ResultType
BY DEF ResultType, Results, Flush

LEMMA ListType ==
  ASSUME scan \in ScanType, NEW w \in Workers, NEW phase \in Phases, List(w, phase, Jobs)
  PROVE  scan' \in ScanType
BY DEF List, Listed, ScanType

LEMMA TakeType ==
  ASSUME scan \in ScanType, NEW w \in Workers, NEW j \in Jobs, NEW hit \in BOOLEAN, Take(w, j, hit)
  PROVE  scan' \in ScanType
BY DEF Take, ScanType

LEMMA MoveType ==
  ASSUME worker \in WorkerType, Loaded, NEW w \in Workers, NEW pc \in PCs,
         \/ Goto(w, pc) /\ (pc \in Owning => worker[w].pc \in Owning)
         \/ Finish(w)
  PROVE  worker' \in WorkerType /\ Loaded'
<1>1. Idle.pc \notin Owning /\ Idle.pc \in PCs /\ Idle.job = {} /\ Idle.seen \in Seen
  BY DEF Idle, Owning, PCs, Expired, Seen
<1>2. CASE Goto(w, pc) /\ (pc \in Owning => worker[w].pc \in Owning)
  BY <1>2 DEF WorkerType, Loaded, Goto
<1>3. CASE Finish(w)
  BY <1>1, <1>3 DEF WorkerType, Loaded, Finish, Idle
<1>4. QED
  BY <1>2, <1>3

LEMMA LoadType ==
  ASSUME worker \in WorkerType, Loaded, NEW w \in Workers, NEW pc \in PCs, NEW seen \in Seen,
         pc \in Owning => seen \in Results,
         worker' = [worker EXCEPT ![w].pc = pc, ![w].seen = seen]
  PROVE  worker' \in WorkerType /\ Loaded'
BY DEF WorkerType, Loaded

LEMMA ResultsSeen == Results \subseteq Seen
BY DEF Results, Seen

LEMMA TypeStep ==
  ASSUME TypeInv, [Next]_vars
  PROVE  TypeInv'
<1> USE DEF TypeInv, TypeOK, QueueTypeOK
<1>0. UNCHANGED worker => Loaded'
  BY DEF Loaded
<1>1. CASE UNCHANGED vars
  BY <1>0, <1>1 DEF vars
<1>2. ASSUME NEW j \in Jobs, Create(j) PROVE TypeInv'
  <2>1. row' \in RowType
    BY <1>2, SetStateType DEF Create, CreateRow, States
  <2>2. request' \in RequestType
    BY <1>2 DEF Create, RequestType
  <2>3. QED
    BY <1>0, <1>2, <2>1, <2>2 DEF Create
<1>3. ASSUME NEW j \in Jobs, Enqueue(j) PROVE TypeInv'
  <2>1. row' \in RowType /\ queue' \in Seq(Jobs) /\ faults' \in 0..MaxFaults
    BY <1>3, EnqueueJobType DEF Enqueue, queueVars
  <2>2. request' \in RequestType
    BY <1>3 DEF Enqueue, RequestType
  <2>3. QED
    BY <1>0, <1>3, <2>1, <2>2 DEF Enqueue
<1>4. ASSUME NEW j \in Jobs, RequestDies(j) PROVE TypeInv'
  <2>1. crashes' \in 0..MaxCrashes
    BY <1>4, CrashAssumption DEF RequestDies
  <2>2. request' \in RequestType
    BY <1>4 DEF RequestDies, RequestType
  <2>3. QED
    BY <1>0, <1>4, <2>1, <2>2 DEF RequestDies
<1>5. ASSUME NEW j \in Jobs, Tick(j) PROVE TypeInv'
  <2>1. CASE (AgeCreated(j) \/ AgeQueued(j) \/ AgeRunning(j)) /\ UNCHANGED others
    <3>1. row' \in RowType
      BY <2>1 DEF AgeCreated, AgeQueued, AgeRunning, RowType
    <3>2. UNCHANGED <<queue, faults, lease, scan>>
      BY <2>1 DEF AgeCreated, AgeQueued, AgeRunning
    <3>3. QED
      BY <1>0, <2>1, <3>1, <3>2 DEF others
  <2>2. CASE /\ grade' = [grade EXCEPT ![j].stale = TRUE]
             /\ UNCHANGED <<row, queue, faults, lease, scan, result, request, worker, crashes>>
    <3>1. grade' \in GradeType
      BY <2>2 DEF GradeType
    <3>2. QED
      BY <1>0, <2>2, <3>1
  <2>3. QED
    BY <1>5, <2>1, <2>2 DEF Tick
<1>6. ASSUME NEW w \in Workers, Pop(w) PROVE TypeInv'
  <2>1. Last(queue) \in Jobs /\ Front(queue) \in Seq(Jobs)
    BY <1>6 DEF Pop, Last, Front
  <2>2. Expired \in Seen /\ "popped" \in PCs \ Owning
    BY DEF Expired, Seen, PCs, Owning
  <2>3. worker' \in WorkerType /\ Loaded'
    BY <1>6, <2>1, <2>2 DEF Pop, WorkerType, Loaded
  <2>4. QED
    BY <1>6, <2>1, <2>3 DEF Pop
<1>7. ASSUME NEW w \in Workers, Scan(w) PROVE TypeInv'
  <2>1. CASE Recover(w)
    <3>1. worker' \in WorkerType /\ Loaded'
      BY <2>1, MoveType DEF Recover, PCs, Owning
    <3>2. scan' \in ScanType /\ UNCHANGED <<row, queue, faults>> /\ lease' = w
      BY <2>1, ListType DEF Recover, StartScan, queueVars, Phases
    <3>3. QED
      BY <2>1, <3>1, <3>2 DEF Recover
  <2>2. CASE SkipRecovery(w)
    <3>1. worker' \in WorkerType /\ Loaded'
      BY <2>2, MoveType DEF SkipRecovery, PCs, Owning
    <3>2. QED
      BY <2>2, <3>1 DEF SkipRecovery
  <2>3. CASE ScanNext(w)
    <3>1. SuccPhase[scan[w].phase] \in Phases
      BY <2>3 DEF ScanNext, NextList, SuccPhase, Phases
    <3>2. scan' \in ScanType /\ UNCHANGED <<row, queue, faults, lease>>
      BY <2>3, <3>1, ListType DEF ScanNext, NextList, queueVars
    <3>3. QED
      BY <1>0, <2>3, <3>2 DEF ScanNext
  <2>4. CASE ScanEnd(w)
    <3>1. worker' \in WorkerType /\ Loaded'
      BY <2>4, MoveType DEF ScanEnd, PCs, Owning
    <3>2. scan' \in ScanType /\ UNCHANGED <<row, queue, faults, lease>>
      BY <2>4 DEF ScanEnd, EndScan, queueVars, ScanType, NoScan, Phases
    <3>3. grade' \in GradeType
      BY <2>4 DEF ScanEnd, GradeType
    <3>4. QED
      BY <2>4, <3>1, <3>2, <3>3 DEF ScanEnd
  <2>5. ASSUME NEW j \in Jobs, ScanRow(w, j) PROVE TypeInv'
    <3>1. scan' \in ScanType /\ UNCHANGED <<lease, grade, request, worker, crashes>>
      <4>1. UNCHANGED lease /\ \E hit \in BOOLEAN : Take(w, j, hit)
        BY <2>5 DEF ScanRow, RequeuePending, Repush, ResetRunning, Exhaust, ScanMiss, Hit, Take
      <4>2. QED
        BY <2>5, <4>1, TakeType DEF ScanRow
    <3>2. result' \in ResultType
      BY <2>5 DEF ScanRow, ResultType, Results, SystemError, Statuses, Scores
    <3>3. row' \in RowType /\ queue' \in Seq(Jobs) /\ faults' \in 0..MaxFaults
      <4>1. CASE RequeuePending(w, j)
        BY <4>1, EnqueueJobType DEF RequeuePending
      <4>2. CASE Repush(w, j)
        BY <4>2, SetStateType, PushType DEF Repush, States
      <4>3. CASE ResetRunning(w, j)
        BY <4>3, SetStateType DEF ResetRunning, States
      <4>4. CASE ScanMiss(w, j)
        BY <4>4 DEF ScanMiss, queueVars
      <4>5. CASE Exhaust(w, j)
        BY <4>5, SetStateType DEF Exhaust, States
      <4>6. QED
        BY <2>5, <4>1, <4>2, <4>3, <4>4, <4>5 DEF ScanRow
    <3>4. QED
      BY <1>0, <3>1, <3>2, <3>3
  <2>6. QED
    BY <1>7, <2>1, <2>2, <2>3, <2>4, <2>5 DEF Scan
<1>8. ASSUME NEW w \in Workers, Restart(w) \/ Crash(w) PROVE TypeInv'
  <2>1. crashes' \in 0..MaxCrashes
    BY <1>8, CrashAssumption DEF Restart, Crash
  <2>2. CASE Restart(w)
    <3>1. worker' \in WorkerType /\ Loaded'
      BY <2>2, MoveType DEF Restart, PCs, Owning
    <3>2. QED
      BY <2>1, <2>2, <3>1 DEF Restart
  <2>3. CASE Crash(w)
    <3>1. worker' \in WorkerType /\ Loaded'
      BY <2>3 DEF Crash, Idle, Expired, Seen, PCs, Owning, WorkerType, Loaded
    <3>2. scan' \in ScanType
      BY <2>3 DEF Crash, ScanType, NoScan, Phases
    <3>3. QED
      BY <2>1, <2>3, <3>1, <3>2 DEF Crash
  <2>4. QED
    BY <1>8, <2>2, <2>3
<1>9. ASSUME NEW w \in Workers, NEW j \in Jobs, Process(w, j) PROVE TypeInv'
  <2>1. CASE Claim(w, j)
    <3>1. row' \in RowType
      BY <2>1, SetStateType DEF Claim, ClaimJob, States
    <3>2. result[j] \in Results /\ result[j] \in Seen
      BY ResultsSeen DEF ResultType
    <3>3. worker' \in WorkerType /\ Loaded'
      BY <2>1, <3>2, LoadType DEF Claim, PCs
    <3>4. QED
      BY <2>1, <3>1, <3>3 DEF Claim
  <2>2. CASE ClaimMiss(w, j)
    <3>1. worker' \in WorkerType /\ Loaded'
      BY <2>2, MoveType DEF ClaimMiss, PCs
    <3>2. QED
      BY <2>2, <3>1 DEF ClaimMiss
  <2>3. CASE Begin(w, j)
    <3> DEFINE new == [worker[w].seen EXCEPT !.status = "running"]
    <3>1. new \in Results /\ new \in Seen
      BY <2>3, ResultsSeen DEF Begin, Loaded, Owning, Results, Statuses
    <3>2. result' \in ResultType
      BY <2>3, <3>1, FlushType DEF Begin
    <3>3. worker' \in WorkerType /\ Loaded'
      BY <2>3, <3>1, LoadType DEF Begin, PCs
    <3>4. QED
      BY <2>3, <3>2, <3>3 DEF Begin
  <2>4. ASSUME NEW b \in BOOLEAN, NEW pc \in Failing, FailWith(w, j, b, pc) PROVE TypeInv'
    <3>1. Expired \in Seen /\ pc \in PCs \ Owning
      BY DEF Expired, Seen, Failing, PCs, Owning
    <3>2. worker' \in WorkerType /\ Loaded'
      BY <2>4, <3>1, LoadType DEF FailWith
    <3>3. row' \in RowType
      BY <2>4, FailJobType DEF FailWith
    <3>4. QED
      BY <2>4, <3>2, <3>3 DEF FailWith
  <2>5. CASE ConfigError(w, j) \/ InfraError(w, j) \/ ImportError(w, j)
    BY <2>4, <2>5 DEF ConfigError, InfraError, ImportError, Failing
  <2>6. CASE RecordFailure(w, j)
    <3>1. result' \in ResultType
      BY <2>6, FlushType DEF RecordFailure, SystemError, Results, Statuses, Scores
    <3>2. worker' \in WorkerType /\ Loaded'
      BY <2>6, MoveType DEF RecordFailure, PCs
    <3>3. QED
      BY <2>6, <3>1, <3>2 DEF RecordFailure
  <2>7. CASE Judge(w, j)
    <3>1. PICK new \in Outcomes(j) :
            Flush(w, j, new) /\ worker' = [worker EXCEPT ![w].pc = "verdict", ![w].seen = new]
      BY <2>7 DEF Judge
    <3>2. new \in Results /\ new \in Seen
      BY ResultsSeen DEF Outcomes, Verdicts, Results, Statuses, Scores
    <3>3. result' \in ResultType
      BY <3>1, <3>2, FlushType
    <3>4. worker' \in WorkerType /\ Loaded'
      BY <3>1, <3>2, LoadType DEF PCs
    <3>5. QED
      BY <2>7, <3>3, <3>4 DEF Judge
  <2>8. CASE Complete(w, j)
    <3>1. worker' \in WorkerType /\ Loaded'
      BY <2>8, MoveType DEF Complete, PCs, Owning
    <3>2. row' \in RowType
      BY <2>8, SetStateType DEF Complete, CompleteJob, States
    <3>3. worker[w].seen.score \in Scores
      BY <2>8 DEF Complete, Loaded, Owning, Results
    <3>4. result' \in ResultType
      BY <2>8, <3>3 DEF Complete, ResultType, Results
    <3>5. QED
      BY <2>8, <3>1, <3>2, <3>4 DEF Complete
  <2>9. CASE CreateGrade(w, j)
    <3>1. worker' \in WorkerType /\ Loaded'
      BY <2>9, MoveType DEF CreateGrade, PCs, Owning
    <3>2. grade' \in GradeType
      BY <2>9 DEF CreateGrade, GradeType
    <3>3. QED
      BY <2>9, <3>1, <3>2 DEF CreateGrade
  <2>10. CASE HandOver(w, j)
    <3>1. worker' \in WorkerType /\ Loaded'
      BY <2>10, MoveType DEF HandOver, PCs
    <3>2. grade' \in GradeType
      BY <2>10 DEF HandOver, GradeType
    <3>3. QED
      BY <2>10, <3>1, <3>2 DEF HandOver
  <2>11. CASE UnknownError(w, j)
    <3>1. worker' \in WorkerType /\ Loaded'
      BY <2>11, MoveType DEF UnknownError, PCs
    <3>2. row' \in RowType
      BY <2>11, FailJobType DEF UnknownError
    <3>3. QED
      BY <2>11, <3>1, <3>2 DEF UnknownError
  <2>12. QED
    BY <1>9, <2>1, <2>2, <2>3, <2>5, <2>6, <2>7, <2>8, <2>9, <2>10, <2>11 DEF Process
<1>10. ASSUME Expire PROVE TypeInv'
  BY <1>0, <1>10 DEF Expire, LeaseExpires, queueVars, others
<1>11. QED
  BY <1>1, <1>2, <1>3, <1>4, <1>5, <1>6, <1>7, <1>8, <1>9, <1>10 DEF Next, Step

LEMMA TypeInit == Init => TypeInv
<1> SUFFICES ASSUME Init PROVE TypeInv
  OBVIOUS
<1>1. QueueTypeOK
  BY BoundsAssumption DEF Init, QueueInit, QueueTypeOK, RowType, ScanType, NoScan, States, Phases
<1>2. result \in ResultType /\ grade \in GradeType /\ request \in RequestType /\ crashes \in 0..MaxCrashes
  BY CrashAssumption DEF Init, ResultType, Results, GradeType, RequestType, Statuses, Scores
<1>3. worker \in WorkerType /\ Loaded
  BY DEF Init, Idle, Expired, Seen, PCs, Owning, WorkerType, Loaded
<1>4. QED
  BY <1>1, <1>2, <1>3 DEF TypeInv, TypeOK

\* Every variable keeps its type, whatever is slow, lost or dead.
THEOREM TypeCorrect == Spec => []TypeOK
<1>1. TypeInv => TypeOK
  BY DEF TypeInv
<1>2. QED
  BY <1>1, TypeInit, TypeStep, PTL DEF Spec

-----------------------------------------------------------------------------
(***************************************************************************)
(* AssignmentJudge implements GradingJob.  Every step moves one row along  *)
(* one edge of the lifecycle; the only edge whose guard the code does not  *)
(* test when it takes it is the last one, giving up: the scan tested       *)
(* attempt_count when it listed the row, and the count never decreases.    *)
(***************************************************************************)
\* What a step may do to the row of one job.
Moved(j) ==
  \/ CreateRow(j)
  \/ /\ row[j].gs = "pending"
     /\ row' = [row EXCEPT ![j].gs = "queued", ![j].stale = FALSE, ![j].attempt = @ + 1]
  \/ ClaimJob(j)
  \/ CompleteJob(j)
  \/ row[j].gs = "running" /\ (SetState(j, "pending") \/ SetState(j, "system_error"))
  \/ row[j].gs = "pending" /\ row[j].attempt >= MaxAttempts /\ SetState(j, "system_error")

Touched(j) == \/ row[j].gs = "queued" /\ SetState(j, "queued")
              \/ row' = [row EXCEPT ![j].old = TRUE]
              \/ row' = [row EXCEPT ![j].stale = TRUE]

LEMMA RowEffect ==
  ASSUME TypeInv, Exhaustible, [Next]_vars
  PROVE  UNCHANGED row \/ \E j \in Jobs : Moved(j) \/ Touched(j)
<1>1. CASE UNCHANGED vars
  BY <1>1 DEF vars
<1>2. ASSUME NEW j \in Jobs, Create(j) \/ Enqueue(j) \/ RequestDies(j)
      PROVE  UNCHANGED row \/ Moved(j)
  BY <1>2 DEF Create, Enqueue, RequestDies, EnqueueJob, Moved, queueVars
<1>3. ASSUME NEW j \in Jobs, Tick(j) PROVE UNCHANGED row \/ Touched(j)
  BY <1>3 DEF Tick, AgeCreated, AgeQueued, AgeRunning, Touched
<1>4. ASSUME NEW w \in Workers, NEW j \in Jobs, Process(w, j) PROVE UNCHANGED row \/ Moved(j)
  <2>1. ASSUME NEW b \in BOOLEAN, FailJob(j, b) PROVE UNCHANGED row \/ Moved(j)
    BY <2>1 DEF FailJob, Moved
  <2>2. CASE Claim(w, j) \/ Complete(w, j)
    BY <2>2 DEF Claim, Complete, Moved
  <2>3. CASE ConfigError(w, j) \/ InfraError(w, j) \/ ImportError(w, j) \/ UnknownError(w, j)
    BY <2>1, <2>3 DEF ConfigError, InfraError, ImportError, UnknownError, FailWith
  <2>4. CASE ClaimMiss(w, j) \/ Begin(w, j) \/ RecordFailure(w, j) \/ Judge(w, j)
             \/ CreateGrade(w, j) \/ HandOver(w, j)
    BY <2>4 DEF ClaimMiss, Begin, RecordFailure, Judge, CreateGrade, HandOver
  <2>5. QED
    BY <1>4, <2>2, <2>3, <2>4 DEF Process
<1>5. ASSUME NEW w \in Workers, NEW j \in Jobs, ScanRow(w, j)
      PROVE  UNCHANGED row \/ Moved(j) \/ Touched(j)
  <2>1. CASE RequeuePending(w, j)
    BY <2>1 DEF RequeuePending, EnqueueJob, Moved
  <2>2. CASE Repush(w, j)
    BY <2>2 DEF Repush, Hit, Matches, Touched
  <2>3. CASE ResetRunning(w, j)
    BY <2>3 DEF ResetRunning, Hit, Matches, Moved
  <2>4. CASE Exhaust(w, j)
    BY <2>4 DEF Exhaust, Hit, Take, Matches, Exhaustible, Moved
  <2>5. QED
    BY <1>5, <2>1, <2>2, <2>3, <2>4 DEF ScanRow, ScanMiss, queueVars
<1>6. ASSUME NEW w \in Workers,
             \/ Pop(w) \/ Recover(w) \/ SkipRecovery(w) \/ ScanNext(w) \/ ScanEnd(w)
             \/ Restart(w) \/ Crash(w)
      PROVE  UNCHANGED row
  BY <1>6 DEF Pop, Recover, StartScan, SkipRecovery, ScanNext, NextList, ScanEnd, EndScan,
              Restart, Crash, queueVars
<1>7. ASSUME Expire PROVE UNCHANGED row
  BY <1>7 DEF Expire, LeaseExpires, queueVars
<1>8. QED
  BY <1>1, <1>2, <1>3, <1>4, <1>5, <1>6, <1>7 DEF Next, Step, Scan

\* attempt_count never decreases.
LEMMA AttemptGrows ==
  ASSUME TypeInv, Exhaustible, [Next]_vars, NEW j \in Jobs
  PROVE  row'[j].attempt >= row[j].attempt
<1>1. row \in RowType
  BY DEF TypeInv, TypeOK, QueueTypeOK
<1>2. ASSUME NEW k \in Jobs, Moved(k) \/ Touched(k) PROVE row'[j].attempt >= row[j].attempt
  BY <1>1, <1>2 DEF Moved, Touched, CreateRow, ClaimJob, CompleteJob, SetState, RowType
<1>3. CASE UNCHANGED row
  BY <1>1, <1>3 DEF RowType
<1>4. QED
  BY <1>2, <1>3, RowEffect

LEMMA ExhaustibleStep ==
  ASSUME TypeInv, Exhaustible, [Next]_vars
  PROVE  Exhaustible'
<1> SUFFICES ASSUME NEW w \in Workers, scan'[w].phase = "exhausted", NEW j \in scan'[w].todo
             PROVE  row'[j].attempt >= MaxAttempts
  BY DEF Exhaustible
<1>1. row \in RowType /\ row' \in RowType /\ scan \in ScanType /\ scan' \in ScanType
  BY TypeStep DEF TypeInv, TypeOK, QueueTypeOK
<1>2. j \in Jobs
  BY <1>1 DEF ScanType
<1>3. ASSUME scan[w].phase = "exhausted", j \in scan[w].todo PROVE row'[j].attempt >= MaxAttempts
  <2>1. row[j].attempt \in Nat /\ row'[j].attempt \in Nat
    BY <1>1, <1>2 DEF RowType
  <2>2. row[j].attempt >= MaxAttempts
    BY <1>3 DEF Exhaustible
  <2>3. row'[j].attempt >= row[j].attempt
    BY <1>2, AttemptGrows
  <2>4. QED
    BY <2>1, <2>2, <2>3, MaxAttemptsAssumption
<1>4. CASE UNCHANGED scan
  BY <1>3, <1>4
<1>5. ASSUME NEW v \in Workers, ScanNext(v) PROVE row'[j].attempt >= MaxAttempts
  <2>1. CASE v = w
    BY <1>1, <1>5, <2>1 DEF ScanNext, NextList, List, Listed, queueVars, ScanType
  <2>2. CASE v # w
    BY <1>1, <1>3, <1>5, <2>2 DEF ScanNext, NextList, List, ScanType
  <2>3. QED
    BY <2>1, <2>2
<1>6. ASSUME NEW v \in Workers, NEW k \in Jobs, ScanRow(v, k) PROVE row'[j].attempt >= MaxAttempts
  <2>1. PICK hit \in BOOLEAN : Take(v, k, hit)
    BY <1>6 DEF ScanRow, RequeuePending, Repush, ResetRunning, Exhaust, ScanMiss, Hit
  <2>2. scan[w].phase = "exhausted" /\ j \in scan[w].todo
    BY <1>1, <2>1 DEF Take, ScanType
  <2>3. QED
    BY <1>3, <2>2
<1>7. ASSUME NEW v \in Workers, Recover(v) \/ ScanEnd(v) \/ Crash(v)
      PROVE  row'[j].attempt >= MaxAttempts
  <2>1. CASE v = w
    BY <1>1, <1>7, <2>1
    DEF Recover, StartScan, List, ScanEnd, EndScan, Crash, NoScan, ScanType
  <2>2. CASE v # w
    BY <1>1, <1>3, <1>7, <2>2
    DEF Recover, StartScan, List, ScanEnd, EndScan, Crash, NoScan, ScanType
  <2>3. QED
    BY <2>1, <2>2
<1>8. ASSUME NEW v \in Workers, NEW k \in Jobs, Process(v, k) PROVE UNCHANGED scan
  BY <1>8 DEF Process, Claim, ClaimMiss, Begin, ConfigError, InfraError, ImportError, FailWith,
              RecordFailure, Judge, Complete, CreateGrade, HandOver, UnknownError
<1>9. ASSUME NEW v \in Workers, Pop(v) \/ SkipRecovery(v) \/ Restart(v) PROVE UNCHANGED scan
  BY <1>9 DEF Pop, SkipRecovery, Restart
<1>10. ASSUME NEW k \in Jobs, Create(k) \/ Enqueue(k) \/ RequestDies(k) \/ Tick(k) PROVE UNCHANGED scan
  BY <1>10 DEF Create, Enqueue, RequestDies, Tick, AgeCreated, AgeQueued, AgeRunning
<1>11. ASSUME Expire PROVE UNCHANGED scan
  BY <1>11 DEF Expire, LeaseExpires
<1>12. QED
  BY <1>4, <1>5, <1>6, <1>7, <1>8, <1>9, <1>10, <1>11 DEF Next, Step, Scan, vars

Abstraction == [j \in Jobs |-> [gs |-> row[j].gs, attempt |-> row[j].attempt]]

LEMMA SetStateAbstract ==
  ASSUME row \in RowType, NEW j \in Jobs, NEW to \in States, SetState(j, to)
  PROVE  Abstraction' = [Abstraction EXCEPT ![j].gs = to]
BY DEF Abstraction, SetState, RowType

LEMMA LifecycleStep ==
  ASSUME TypeInv, Exhaustible, [Next]_vars
  PROVE  [Lifecycle!Next]_Abstraction
<1>1. row \in RowType
  BY DEF TypeInv, TypeOK, QueueTypeOK
<1>2. ASSUME NEW j \in Jobs, Moved(j) PROVE Lifecycle!Next
  <2>1. \A from, to \in States :
          row[j].gs = from /\ SetState(j, to) => Lifecycle!Move(j, from, to)
    BY <1>1, SetStateAbstract DEF Lifecycle!Move, Abstraction
  <2>2. CASE CreateRow(j)
    BY <2>1, <2>2 DEF CreateRow, Lifecycle!Submit, Lifecycle!Next, States
  <2>3. CASE /\ row[j].gs = "pending"
             /\ row' = [row EXCEPT ![j].gs = "queued", ![j].stale = FALSE, ![j].attempt = @ + 1]
    BY <1>1, <2>3 DEF Lifecycle!Enqueue, Lifecycle!Next, RowType
  <2>4. CASE ClaimJob(j)
    BY <2>1, <2>4 DEF ClaimJob, Lifecycle!Claim, Lifecycle!Next, States
  <2>5. CASE CompleteJob(j)
    BY <2>1, <2>5 DEF CompleteJob, Lifecycle!Complete, Lifecycle!Next, States
  <2>6. CASE row[j].gs = "running" /\ SetState(j, "pending")
    BY <2>1, <2>6 DEF Lifecycle!Retry, Lifecycle!Next, States
  <2>7. CASE row[j].gs = "running" /\ SetState(j, "system_error")
    BY <2>1, <2>7 DEF Lifecycle!Fail, Lifecycle!Next, States
  <2>8. CASE row[j].gs = "pending" /\ row[j].attempt >= MaxAttempts /\ SetState(j, "system_error")
    BY <2>1, <2>8 DEF Lifecycle!Exhaust, Lifecycle!Next, States
  <2>9. QED
    BY <1>2, <2>2, <2>3, <2>4, <2>5, <2>6, <2>7, <2>8 DEF Moved
<1>3. ASSUME NEW j \in Jobs, Touched(j) PROVE UNCHANGED Abstraction
  BY <1>1, <1>3 DEF Touched, SetState, Abstraction, RowType
<1>4. CASE UNCHANGED row
  BY <1>4 DEF Abstraction
<1>5. QED
  BY <1>2, <1>3, <1>4, RowEffect

\* grading_status and attempt_count follow the lifecycle of GradingJob: no run
\* without a claim, no result without a run, no attempt that is not counted, and
\* nobody gives a submission up while it has attempts left.
THEOREM Implements == Spec => Refinement
<1>1. Init => TypeInv /\ Exhaustible
  <2>1. Init => Exhaustible
    BY DEF Init, QueueInit, NoScan, Exhaustible
  <2>2. QED
    BY <2>1, TypeInit
<1>2. (TypeInv /\ Exhaustible) /\ [Next]_vars => (TypeInv /\ Exhaustible)'
  BY TypeStep, ExhaustibleStep
<1>3. Init => Lifecycle!Init
  BY DEF Init, QueueInit, Lifecycle!Init
<1>4. TypeInv /\ Exhaustible /\ [Next]_vars => [Lifecycle!Next]_Abstraction
  BY LifecycleStep
<1>5. QED
  BY <1>1, <1>2, <1>3, <1>4, PTL DEF Spec, Refinement, Lifecycle!Spec, Abstraction

\* The rows, the sessions and the lists of the scans keep the invariant by which
\* the lifecycle is followed, whatever is slow, lost or dead.
THEOREM SlowInvariant == Spec => []SlowInv
<1>1. Init => SlowInv
  BY TypeInit DEF Init, QueueInit, NoScan, Exhaustible, SlowInv
<1>2. SlowInv /\ [Next]_vars => SlowInv'
  BY TypeStep, ExhaustibleStep DEF SlowInv
<1>3. QED
  BY <1>1, <1>2, PTL DEF Spec

-----------------------------------------------------------------------------
(***************************************************************************)
(* The overrun of MAX_ATTEMPTS.  An attempt is spent by the request that   *)
(* created the submission or by a scan that has listed it as pending, and  *)
(* the limit was not yet reached when the scan listed it.                  *)
(***************************************************************************)
Spenders(j) == {w \in Workers : scan[w].phase = "pending" /\ j \in scan[w].todo}
Due(j) == IF request[j] = "created" THEN 1 ELSE 0

Budget ==
  \A j \in Jobs :
    /\ row[j].gs = "absent" => row[j].attempt = 0
    /\ row[j].attempt + Cardinality(Spenders(j)) + Due(j) <= MaxAttempts + Cardinality(Workers)

LEMMA SpendersBound ==
  ASSUME IsFiniteSet(Workers), NEW j \in Jobs
  PROVE  /\ IsFiniteSet(Spenders(j)) /\ IsFiniteSet(Spenders(j)')
         /\ Cardinality(Spenders(j)) \in Nat /\ Cardinality(Spenders(j)') \in Nat
         /\ Cardinality(Workers) \in Nat
         /\ Cardinality(Spenders(j)') <= Cardinality(Workers)
<1>1. Spenders(j) \in SUBSET Workers /\ Spenders(j)' \in SUBSET Workers
  BY DEF Spenders
<1>2. QED
  BY <1>1, FS_Subset, FS_CardinalityType

\* What a step does to the attempts of j, to those who may still spend one, and
\* to the request.
LEMMA BudgetEffect ==
  ASSUME SlowInv, Budget, [Next]_vars, NEW j \in Jobs
  PROVE  \/ row'[j].attempt < MaxAttempts
         \/ /\ row'[j].attempt = row[j].attempt
            /\ Spenders(j)' \subseteq Spenders(j)
            /\ request'[j] = "created" => request[j] = "created"
         \/ /\ row'[j].attempt = row[j].attempt + 1
            /\ Spenders(j)' = Spenders(j)
            /\ request[j] = "created" /\ request'[j] # "created"
         \/ /\ row'[j].attempt = row[j].attempt + 1
            /\ \E w \in Spenders(j) : Spenders(j)' = Spenders(j) \ {w}
            /\ request'[j] = request[j]
<1>1. row \in RowType /\ scan \in ScanType /\ request \in RequestType
  BY DEF SlowInv, TypeInv, TypeOK, QueueTypeOK
<1>2. UNCHANGED scan => Spenders(j)' = Spenders(j)
  BY DEF Spenders
<1>3. ASSUME NEW k \in Jobs, NEW to \in States, SetState(k, to)
      PROVE  row'[j].attempt = row[j].attempt
  BY <1>1, <1>3 DEF SetState, RowType
<1>4. CASE UNCHANGED vars
  BY <1>2, <1>4 DEF vars
<1>5. ASSUME NEW k \in Jobs, Create(k) PROVE row'[j].attempt = row[j].attempt /\ UNCHANGED scan
  BY <1>3, <1>5 DEF Create, CreateRow, States
<1>6. ASSUME NEW k \in Jobs, Create(k), k = j PROVE row'[j].attempt < MaxAttempts
  <2>1. row[j].attempt = 0
    BY <1>6 DEF Create, CreateRow, Budget
  <2>2. row'[j].attempt = 0
    BY <1>5, <1>6, <2>1
  <2>3. QED
    BY <2>2, MaxAttemptsAssumption
<1>7. ASSUME NEW k \in Jobs, Create(k), k # j PROVE request'[j] = request[j]
  BY <1>1, <1>7 DEF Create, RequestType
<1>8. ASSUME NEW k \in Jobs, EnqueueJob(k)
      PROVE  row'[j].attempt = IF k = j THEN row[j].attempt + 1 ELSE row[j].attempt
  BY <1>1, <1>8 DEF EnqueueJob, RowType
<1>9. ASSUME NEW k \in Jobs, Enqueue(k)
      PROVE  \/ /\ row'[j].attempt = row[j].attempt
                /\ request'[j] = "created" => request[j] = "created"
             \/ /\ row'[j].attempt = row[j].attempt + 1
                /\ request[j] = "created" /\ request'[j] # "created"
  BY <1>1, <1>8, <1>9 DEF Enqueue, RequestType, queueVars
<1>10. ASSUME NEW k \in Jobs, RequestDies(k)
       PROVE  UNCHANGED <<row, scan>> /\ (request'[j] = "created" => request[j] = "created")
  BY <1>1, <1>10 DEF RequestDies, RequestType
<1>11. ASSUME NEW k \in Jobs, Tick(k)
       PROVE  row'[j].attempt = row[j].attempt /\ UNCHANGED <<scan, request>>
  BY <1>1, <1>11 DEF Tick, AgeCreated, AgeQueued, AgeRunning, others, RowType
<1>12. ASSUME NEW w \in Workers, NEW k \in Jobs, Process(w, k)
       PROVE  row'[j].attempt = row[j].attempt /\ UNCHANGED <<scan, request>>
  <2>1. UNCHANGED <<scan, request>>
    BY <1>12 DEF Process, Claim, ClaimMiss, Begin, ConfigError, InfraError, ImportError, FailWith,
                 RecordFailure, Judge, Complete, CreateGrade, HandOver, UnknownError
  <2>2. UNCHANGED row \/ \E to \in States : SetState(k, to)
    BY <1>12 DEF Process, Claim, ClaimMiss, Begin, ConfigError, InfraError, ImportError, FailWith,
                 RecordFailure, Judge, Complete, CreateGrade, HandOver, UnknownError, FailJob,
                 ClaimJob, CompleteJob, States
  <2>3. QED
    BY <1>3, <2>1, <2>2
<1>13. ASSUME NEW w \in Workers, Scan(w), \A k \in Jobs : ~ScanRow(w, k)
       PROVE  /\ row'[j].attempt = row[j].attempt /\ UNCHANGED request
              /\ row'[j].attempt < MaxAttempts \/ Spenders(j)' \subseteq Spenders(j)
  <2>1. UNCHANGED <<row, request>>
    BY <1>13 DEF Scan, Recover, SkipRecovery, ScanNext, ScanEnd, StartScan, NextList, EndScan,
                 queueVars
  <2>2. CASE Recover(w)
    <3>1. scan' = [scan EXCEPT ![w] = [phase |-> "pending", todo |-> Listed("pending", Jobs),
                                       held |-> TRUE]]
      BY <2>2 DEF Recover, StartScan, List
    <3>2. row[j].attempt < MaxAttempts \/ Spenders(j)' \subseteq Spenders(j)
      BY <1>1, <3>1 DEF Spenders, Listed, ScanType
    <3>3. QED
      BY <2>1, <3>2
  <2>3. CASE SkipRecovery(w)
    BY <1>2, <2>1, <2>3 DEF SkipRecovery
  <2>4. CASE ScanNext(w)
    BY <1>1, <2>1, <2>4 DEF ScanNext, NextList, List, SuccPhase, Spenders, ScanType
  <2>5. CASE ScanEnd(w)
    BY <1>1, <2>1, <2>5 DEF ScanEnd, EndScan, NoScan, Spenders, ScanType
  <2>6. QED
    BY <1>13, <2>2, <2>3, <2>4, <2>5 DEF Scan
<1>14. ASSUME NEW w \in Workers, NEW k \in Jobs, ScanRow(w, k)
       PROVE  /\ UNCHANGED request
              /\ \/ row'[j].attempt = row[j].attempt /\ Spenders(j)' \subseteq Spenders(j)
                 \/ /\ row'[j].attempt = row[j].attempt + 1
                    /\ w \in Spenders(j) /\ Spenders(j)' = Spenders(j) \ {w}
  <2>1. UNCHANGED request
    BY <1>14 DEF ScanRow
  <2>2. PICK hit \in BOOLEAN : Take(w, k, hit)
    BY <1>14 DEF ScanRow, RequeuePending, Repush, ResetRunning, Exhaust, ScanMiss, Hit
  <2>3. Spenders(j)' = IF k = j THEN Spenders(j) \ {w} ELSE Spenders(j)
    BY <1>1, <2>2 DEF Take, Spenders, ScanType
  <2>4. CASE RequeuePending(w, k)
    BY <1>8, <2>1, <2>3, <2>4 DEF RequeuePending, Hit, Take, Spenders
  <2>5. CASE Repush(w, k) \/ ResetRunning(w, k) \/ ScanMiss(w, k) \/ Exhaust(w, k)
    <3>1. UNCHANGED row \/ \E to \in States : SetState(k, to)
      BY <2>5 DEF Repush, ResetRunning, ScanMiss, Exhaust, queueVars, States
    <3>2. QED
      BY <1>3, <2>1, <2>3, <3>1
  <2>6. QED
    BY <1>14, <2>4, <2>5 DEF ScanRow
<1>15. ASSUME NEW w \in Workers, Pop(w) \/ Restart(w) \/ Crash(w)
       PROVE  UNCHANGED <<row, request>> /\ Spenders(j)' \subseteq Spenders(j)
  BY <1>1, <1>2, <1>15 DEF Pop, Restart, Crash, NoScan, Spenders, ScanType
<1>16. ASSUME Expire PROVE UNCHANGED <<row, scan, request>>
  BY <1>16 DEF Expire, LeaseExpires, queueVars, others
<1>17. CASE \E k \in Jobs : Create(k) \/ Enqueue(k) \/ RequestDies(k) \/ Tick(k)
  <2>1. PICK k \in Jobs : Create(k) \/ Enqueue(k) \/ RequestDies(k) \/ Tick(k)
    BY <1>17
  <2>2. CASE Create(k)
    BY <1>2, <1>5, <1>6, <1>7, <2>2
  <2>3. CASE Enqueue(k)
    <3>1. UNCHANGED scan
      BY <2>3 DEF Enqueue
    <3>2. QED
      BY <1>2, <1>9, <2>3, <3>1
  <2>4. CASE RequestDies(k) \/ Tick(k)
    BY <1>2, <1>10, <1>11, <2>4
  <2>5. QED
    BY <2>1, <2>2, <2>3, <2>4
<1>18. CASE \E w \in Workers : Step(w) \/ Crash(w)
  <2>1. PICK w \in Workers : Step(w) \/ Crash(w)
    BY <1>18
  <2>2. CASE \E k \in Jobs : Process(w, k)
    BY <1>2, <1>12, <2>2
  <2>3. CASE Scan(w)
    BY <1>13, <1>14, <2>3
  <2>4. CASE Pop(w) \/ Restart(w) \/ Crash(w)
    BY <1>15, <2>4
  <2>5. QED
    BY <2>1, <2>2, <2>3, <2>4 DEF Step
<1>19. QED
  BY <1>2, <1>4, <1>16, <1>17, <1>18 DEF Next

LEMMA BudgetStep ==
  ASSUME IsFiniteSet(Workers), SlowInv, Budget, [Next]_vars
  PROVE  Budget'
<1>1. row \in RowType /\ row' \in RowType
  BY TypeStep DEF SlowInv, TypeInv, TypeOK, QueueTypeOK
<1>2. ASSUME NEW j \in Jobs
      PROVE  row'[j].attempt + Cardinality(Spenders(j)') + Due(j)' <= MaxAttempts + Cardinality(Workers)
  <2>1. /\ row[j].attempt \in Nat /\ row'[j].attempt \in Nat
        /\ Due(j) \in 0..1 /\ Due(j)' \in 0..1
    BY <1>1 DEF RowType, Due
  <2>2. row[j].attempt + Cardinality(Spenders(j)) + Due(j) <= MaxAttempts + Cardinality(Workers)
    BY DEF Budget
  <2> DEFINE before == Cardinality(Spenders(j))  after == Cardinality(Spenders(j)')
             all == Cardinality(Workers)
  <2>3. before \in Nat /\ after \in Nat /\ all \in Nat /\ after <= all
    BY SpendersBound
  <2>4. CASE row'[j].attempt < MaxAttempts
    <3> HIDE DEF before, after, all
    <3>1. row'[j].attempt + after + Due(j)' <= MaxAttempts + all
      BY <2>1, <2>3, <2>4, MaxAttemptsAssumption
    <3>2. QED
      BY <3>1 DEF after, all
  <2>5. CASE /\ row'[j].attempt = row[j].attempt
             /\ Spenders(j)' \subseteq Spenders(j)
             /\ request'[j] = "created" => request[j] = "created"
    <3>1. after <= before
      BY <2>5, SpendersBound, FS_Subset
    <3>2. Due(j)' <= Due(j)
      BY <2>5 DEF Due
    <3> HIDE DEF before, after, all
    <3>3. row'[j].attempt + after + Due(j)' <= row[j].attempt + before + Due(j)
      BY <2>1, <2>3, <2>5, <3>1, <3>2
    <3>4. QED
      BY <2>1, <2>2, <2>3, <3>3, MaxAttemptsAssumption DEF before, after, all
  <2>6. CASE /\ row'[j].attempt = row[j].attempt + 1
             /\ Spenders(j)' = Spenders(j)
             /\ request[j] = "created" /\ request'[j] # "created"
    BY <2>1, <2>2, <2>3, <2>6, MaxAttemptsAssumption DEF Due
  <2>7. CASE /\ row'[j].attempt = row[j].attempt + 1
             /\ \E w \in Spenders(j) : Spenders(j)' = Spenders(j) \ {w}
             /\ request'[j] = request[j]
    <3>1. after = before - 1
      BY <2>7, SpendersBound, FS_RemoveElement
    <3>2. Due(j)' = Due(j)
      BY <2>7 DEF Due
    <3> HIDE DEF before, after, all
    <3>3. row'[j].attempt + after + Due(j)' = row[j].attempt + before + Due(j)
      BY <2>1, <2>3, <2>7, <3>1, <3>2
    <3>4. QED
      BY <2>1, <2>2, <2>3, <3>3, MaxAttemptsAssumption DEF before, after, all
  <2>8. QED
    BY <2>4, <2>5, <2>6, <2>7, BudgetEffect
<1>3. ASSUME NEW j \in Jobs, row'[j].gs = "absent" PROVE row'[j].attempt = 0
  <2>1. row'[j] = row[j] \/ row'[j] = [row[j] EXCEPT !.old = TRUE]
                        \/ row'[j] = [row[j] EXCEPT !.stale = TRUE]
    <3>1. ASSUME NEW k \in Jobs, Moved(k) \/ Touched(k), k # j PROVE row'[j] = row[j]
      BY <1>1, <3>1 DEF Moved, Touched, CreateRow, ClaimJob, CompleteJob, SetState, RowType
    <3>2. ~Moved(j)
      BY <1>1, <1>3 DEF Moved, CreateRow, ClaimJob, CompleteJob, SetState, RowType
    <3>3. CASE Touched(j)
      BY <1>1, <1>3, <3>3 DEF Touched, SetState, RowType
    <3>4. QED
      BY <3>1, <3>2, <3>3, RowEffect DEF SlowInv
  <2>2. row[j].gs = "absent" /\ row'[j].attempt = row[j].attempt
    BY <1>1, <1>3, <2>1 DEF RowType
  <2>3. QED
    BY <2>2 DEF Budget
<1>4. QED
  BY <1>2, <1>3 DEF Budget

\* However slow the scans and the requests are, a submission is run at most one
\* time more than MAX_ATTEMPTS for each worker that can have listed it.
THEOREM BoundedOverrun == ASSUME IsFiniteSet(Workers) PROVE Spec => []OverrunBounded
<1>1. Init => Budget
  <2> SUFFICES ASSUME Init, NEW j \in Jobs
               PROVE  /\ row[j].attempt = 0
                      /\ Cardinality(Spenders(j)) = 0 /\ Due(j) = 0
                      /\ 0 + 0 + 0 <= MaxAttempts + Cardinality(Workers)
    BY DEF Budget
  <2>1. Spenders(j) = {}
    BY DEF Init, QueueInit, NoScan, Spenders
  <2>2. Cardinality(Workers) \in Nat
    BY FS_CardinalityType
  <2>3. QED
    BY <2>1, <2>2, FS_EmptySet, MaxAttemptsAssumption DEF Init, QueueInit, Due
<1>2. Budget /\ SlowInv => OverrunBounded
  <2> SUFFICES ASSUME Budget, SlowInv, NEW j \in Jobs
               PROVE  row[j].attempt <= MaxAttempts + Cardinality(Workers)
    BY DEF OverrunBounded
  <2> DEFINE n == Cardinality(Spenders(j))  all == Cardinality(Workers)
  <2>1. n \in Nat /\ all \in Nat
    BY SpendersBound
  <2>2. row[j].attempt \in Nat /\ Due(j) \in 0..1
    BY DEF SlowInv, TypeInv, TypeOK, QueueTypeOK, RowType, Due
  <2>3. row[j].attempt + n + Due(j) <= MaxAttempts + all
    BY DEF Budget
  <2> HIDE DEF n, all
  <2>4. row[j].attempt <= MaxAttempts + all
    BY <2>1, <2>2, <2>3, MaxAttemptsAssumption
  <2>5. QED
    BY <2>4 DEF all
<1>3. QED
  BY <1>1, <1>2, BudgetStep, SlowInvariant, PTL DEF Spec

-----------------------------------------------------------------------------
(* What holds when the clock overtakes no actor (Slow = {}).  The code      *)
(* writes most of its results without a guard; they are right because      *)
(* every actor's view of a row (ViewsAgree) still agrees with the row when  *)
(* it writes.  The proof shows it for one action after the other.           *)

\* A conjunct whose variables a step leaves alone is preserved.
LEMMA Frames ==
  ASSUME PromptInv
  PROVE  /\ UNCHANGED <<row, request>> => RequestFirst'
         /\ UNCHANGED <<scan, lease>> => OneScanner'
         /\ UNCHANGED <<scan, row, request>> => ListsHold'
         /\ UNCHANGED <<worker, row>> => OwnersRun'
         /\ UNCHANGED <<worker, result>> => SessionsCurrent'
         /\ UNCHANGED grade => OnlyPendingGradesAge'
         /\ UNCHANGED worker => SingleOwner'
         /\ UNCHANGED row => AttemptsBounded'
         /\ UNCHANGED <<row, result>> => VerdictKept'
         /\ UNCHANGED result => SystemErrorUnscored'
         /\ UNCHANGED <<grade, row>> => GradeAfterCompletion'
<1> USE DEF PromptInv, ViewsAgree
<1>1. UNCHANGED <<row, request>> => RequestFirst'
  BY DEF RequestFirst
<1>2. UNCHANGED <<scan, lease>> => OneScanner'
  BY DEF OneScanner
<1>3. UNCHANGED <<scan, row, request>> => ListsHold'
  BY DEF ListsHold
<1>4. UNCHANGED <<worker, row>> => OwnersRun'
  BY DEF OwnersRun, Has
<1>5. UNCHANGED <<worker, result>> => SessionsCurrent'
  BY DEF SessionsCurrent, Has
<1>6. UNCHANGED grade => OnlyPendingGradesAge'
  BY DEF OnlyPendingGradesAge
<1>7. UNCHANGED worker => SingleOwner'
  BY DEF SingleOwner, Has
<1>8. UNCHANGED row => AttemptsBounded'
  BY DEF AttemptsBounded
<1>9. UNCHANGED <<row, result>> => VerdictKept'
  BY DEF VerdictKept
<1>10. UNCHANGED result => SystemErrorUnscored'
  BY DEF SystemErrorUnscored
<1>11. UNCHANGED <<grade, row>> => GradeAfterCompletion'
  BY DEF GradeAfterCompletion
<1>12. QED
  BY <1>1, <1>2, <1>3, <1>4, <1>5, <1>6, <1>7, <1>8, <1>9, <1>10, <1>11

\* Steps at which a worker knows nothing of the job in its hand.
Quiet == PCs \ (Owning \cup Failing \cup {"graded", "hand_over"})

\* A worker that turns to such a step disturbs nothing.
LEMMA Quieting ==
  ASSUME PromptInv, NEW w \in Workers,
         worker' \in WorkerType, worker'[w].pc \in Quiet,
         \A v \in Workers \ {w} : worker'[v] = worker[v]
  PROVE  /\ SingleOwner'
         /\ UNCHANGED row => OwnersRun'
         /\ UNCHANGED result => SessionsCurrent'
<1> USE DEF PromptInv, ViewsAgree, Quiet
<1>1. SingleOwner'
  BY DEF SingleOwner, Has
<1>2. UNCHANGED row => OwnersRun'
  BY DEF OwnersRun, Has
<1>3. UNCHANGED result => SessionsCurrent'
  BY DEF SessionsCurrent, Has, Owning
<1>4. QED
  BY <1>1, <1>2, <1>3

\* The clauses of PromptInv that TypeInv and Exhaustible do not give.
Prompt == /\ ViewsAgree /\ SingleOwner /\ AttemptsBounded
          /\ VerdictKept /\ SystemErrorUnscored /\ GradeAfterCompletion

LEMMA RequestSteps ==
  ASSUME PromptInv, Slow = {}, [Next]_vars, NEW j \in Jobs,
         Create(j) \/ Enqueue(j) \/ RequestDies(j)
  PROVE  Prompt'
<1> USE DEF PromptInv, ViewsAgree, Prompt
<1>1. row \in RowType /\ request \in RequestType /\ scan \in ScanType
  BY DEF SlowInv, TypeInv, TypeOK, QueueTypeOK
<1>2. UNCHANGED <<lease, scan, result, grade, worker>>
  BY DEF Create, Enqueue, RequestDies, queueVars
<1>3. OneScanner' /\ SessionsCurrent' /\ OnlyPendingGradesAge' /\ SingleOwner' /\ SystemErrorUnscored'
  BY <1>2, Frames
<1>4. CASE Create(j)
  <2>1. row' = [row EXCEPT ![j].gs = "pending", ![j].stale = FALSE] /\ row[j].gs = "absent"
        /\ request' = [request EXCEPT ![j] = "created"]
    BY <1>4 DEF Create, CreateRow, SetState
  <2>2. RequestFirst'
    BY <1>1, <2>1 DEF RequestFirst, RowType, RequestType
  <2>3. ListsHold'
    BY <1>1, <1>2, <2>1 DEF ListsHold, RequestFirst, RowType, RequestType, ScanType
  <2>4. OwnersRun'
    <3> SUFFICES ASSUME NEW w \in Workers, NEW k \in Jobs, Has(w, k)
                 PROVE  /\ worker[w].pc \in Owning => row'[k].gs = "running" /\ ~row'[k].stale
                        /\ worker[w].pc \in {"graded", "hand_over"} => row'[k].gs = "completed"
                        /\ worker[w].pc \in Failing => row'[k].gs \in {"pending", "queued", "system_error"}
      BY <1>2 DEF OwnersRun, Has
    <3>1. CASE k = j
      BY <1>1, <2>1, <3>1 DEF OwnersRun, RowType
    <3>2. CASE k # j
      BY <1>1, <2>1, <3>2 DEF OwnersRun, RowType
    <3>3. QED
      BY <3>1, <3>2
  <2>5. AttemptsBounded' /\ VerdictKept' /\ GradeAfterCompletion'
    BY <1>1, <1>2, <2>1 DEF AttemptsBounded, VerdictKept, GradeAfterCompletion, RowType
  <2>6. QED
    BY <1>3, <2>2, <2>3, <2>4, <2>5
<1>5. CASE Enqueue(j)
  <2>1. /\ row' = [row EXCEPT ![j].gs = "queued", ![j].stale = FALSE, ![j].attempt = @ + 1]
        /\ request[j] = "created"
        /\ request' = [request EXCEPT ![j] = "done"]
    BY <1>5 DEF Enqueue, EnqueueJob, RequestFirst
  <2>2. row[j].gs = "pending" /\ row[j].attempt = 0 /\ ~row[j].old
    BY <2>1 DEF RequestFirst
  <2>3. RequestFirst'
    BY <1>1, <2>1, <2>2 DEF RequestFirst, RowType, RequestType
  <2>4. ListsHold'
    BY <1>1, <1>2, <2>1, <2>2 DEF ListsHold, RowType, RequestType
  <2>5. OwnersRun'
    BY <1>1, <1>2, <2>1, <2>2 DEF OwnersRun, RowType, Has, Failing
  <2>6. AttemptsBounded'
    BY <1>1, <2>1, <2>2, MaxAttemptsAssumption DEF AttemptsBounded, RowType
  <2>7. VerdictKept' /\ GradeAfterCompletion'
    BY <1>1, <1>2, <2>1, <2>2 DEF VerdictKept, GradeAfterCompletion, RowType
  <2>8. QED
    BY <1>3, <2>3, <2>4, <2>5, <2>6, <2>7
<1>6. CASE RequestDies(j)
  <2>1. UNCHANGED row /\ request' = [request EXCEPT ![j] = "done"]
    BY <1>6 DEF RequestDies
  <2>2. RequestFirst' /\ ListsHold'
    BY <1>1, <1>2, <2>1 DEF RequestFirst, ListsHold, RequestType
  <2>3. QED
    BY <1>2, <1>3, <2>1, <2>2, Frames
<1>7. QED
  BY <1>4, <1>5, <1>6

LEMMA TimeSteps ==
  ASSUME PromptInv, Slow = {}, [Next]_vars,
         Expire \/ \E j \in Jobs : Tick(j)
  PROVE  Prompt'
<1> USE DEF PromptInv, ViewsAgree, Prompt
<1>1. row \in RowType /\ request \in RequestType /\ grade \in GradeType /\ scan \in ScanType
  BY DEF SlowInv, TypeInv, TypeOK, QueueTypeOK
<1>2. UNCHANGED <<scan, result, worker, request>>
  BY DEF Expire, LeaseExpires, others, Tick, AgeCreated, AgeQueued, AgeRunning
<1>3. SessionsCurrent' /\ SingleOwner' /\ SystemErrorUnscored'
  BY <1>2, Frames
<1>4. CASE Expire
  <2>1. UNCHANGED <<row, grade>> /\ \A w \in Workers : scan[w].phase = "off"
    BY <1>4 DEF Expire, LeaseExpires, queueVars, others
  <2>2. OneScanner'
    BY <1>2, <2>1 DEF OneScanner
  <2>3. QED
    BY <1>2, <1>3, <2>1, <2>2, Frames
<1>5. ASSUME NEW j \in Jobs, Tick(j) PROVE Prompt'
  <2>1. CASE AgeCreated(j) /\ UNCHANGED others /\ request[j] = "done"
    <3>1. row' = [row EXCEPT ![j].old = TRUE] /\ row[j].gs # "absent" /\ UNCHANGED <<lease, grade>>
      BY <2>1 DEF AgeCreated, others
    <3>2. RequestFirst' /\ ListsHold' /\ OwnersRun'
      BY <1>1, <1>2, <2>1, <3>1 DEF RequestFirst, ListsHold, OwnersRun, RowType, ScanType, Has
    <3>3. AttemptsBounded' /\ VerdictKept' /\ GradeAfterCompletion'
      BY <1>1, <1>2, <3>1 DEF AttemptsBounded, VerdictKept, GradeAfterCompletion, RowType
    <3>4. QED
      BY <1>2, <1>3, <3>1, <3>2, <3>3, Frames
  <2>2. CASE (AgeQueued(j) \/ (AgeRunning(j) /\ ~Owned(j))) /\ UNCHANGED others
    <3>1. row' = [row EXCEPT ![j].stale = TRUE] /\ UNCHANGED <<lease, grade>>
      BY <2>2 DEF AgeQueued, AgeRunning, others
    <3>2. RequestFirst' /\ ListsHold'
      BY <1>1, <1>2, <3>1 DEF RequestFirst, ListsHold, RowType, ScanType
    <3>3. OwnersRun'
      BY <1>1, <1>2, <2>2, <3>1 DEF AgeQueued, Owned, OwnersRun, RowType, Has
    <3>4. AttemptsBounded' /\ VerdictKept' /\ GradeAfterCompletion'
      BY <1>1, <1>2, <3>1 DEF AttemptsBounded, VerdictKept, GradeAfterCompletion, RowType
    <3>5. QED
      BY <1>2, <1>3, <3>1, <3>2, <3>3, <3>4, Frames
  <2>3. CASE /\ grade[j].status = "pending" /\ grade' = [grade EXCEPT ![j].stale = TRUE]
             /\ UNCHANGED <<row, lease>>
    <3>1. OnlyPendingGradesAge' /\ GradeAfterCompletion'
      BY <1>1, <2>3 DEF OnlyPendingGradesAge, GradeAfterCompletion, GradeType
    <3>2. QED
      BY <1>2, <1>3, <2>3, <3>1, Frames
  <2>4. QED
    <3>1. "api" \notin Slow /\ "worker" \notin Slow
      OBVIOUS
    <3>2. QED
      <4>1. \/ AgeCreated(j) /\ UNCHANGED others /\ request[j] = "done"
            \/ (AgeQueued(j) \/ (AgeRunning(j) /\ ~Owned(j))) /\ UNCHANGED others
            \/ /\ grade[j].status = "pending" /\ grade' = [grade EXCEPT ![j].stale = TRUE]
               /\ UNCHANGED <<row, lease>>
        BY <1>5, <3>1 DEF Tick
      <4>2. QED
        BY <2>1, <2>2, <2>3, <4>1
<1>6. QED
  BY <1>4, <1>5

-----------------------------------------------------------------------------
(* The workers.                                                             *)

LEMMA OneJobInHand ==
  ASSUME NEW w \in Workers, NEW j \in Jobs, NEW k \in Jobs, Has(w, j), Has(w, k)
  PROVE  j = k
BY DEF Has

\* The run that owns a row ends: nobody else has anything to do with the row.
LEMMA RunEnds ==
  ASSUME PromptInv, NEW w \in Workers, NEW j \in Jobs, Has(w, j), worker[w].pc \in Owning,
         NEW to \in {"completed", "pending", "system_error"}, SetState(j, to),
         \A v \in Workers \ {w} : worker'[v] = worker[v],
         worker'[w].job \in {{}, {j}},
         worker'[w].pc \in Failing => to # "completed" /\ worker'[w].seen = Expired,
         worker'[w].pc \in {"graded", "hand_over"} => to = "completed",
         worker'[w].pc \notin Owning,
         UNCHANGED <<lease, scan, grade, request>>
  PROVE  /\ RequestFirst' /\ OneScanner' /\ ListsHold' /\ OwnersRun' /\ OnlyPendingGradesAge'
         /\ SingleOwner' /\ AttemptsBounded' /\ GradeAfterCompletion'
         /\ UNCHANGED result => SessionsCurrent'
<1> USE DEF PromptInv, ViewsAgree
<1>1. row \in RowType /\ request \in RequestType /\ scan \in ScanType
  BY DEF SlowInv, TypeInv, TypeOK, QueueTypeOK
<1>2. row[j].gs = "running" /\ row' = [row EXCEPT ![j].gs = to, ![j].stale = FALSE]
  BY DEF OwnersRun, SetState
<1>3. RequestFirst' /\ AttemptsBounded'
  BY <1>1, <1>2 DEF RequestFirst, AttemptsBounded, RowType
<1>4. ListsHold'
  BY <1>1, <1>2 DEF ListsHold, RequestFirst, RowType, ScanType
<1>5. GradeAfterCompletion'
  BY <1>1, <1>2 DEF GradeAfterCompletion, RowType
<1>6. SingleOwner'
  BY DEF SingleOwner, Has
<1>7. ASSUME NEW v \in Workers, NEW k \in Jobs, Has(v, k)'
      PROVE  /\ worker'[v].pc \in Owning => row'[k].gs = "running" /\ ~row'[k].stale
             /\ worker'[v].pc \in {"graded", "hand_over"} => row'[k].gs = "completed"
             /\ worker'[v].pc \in Failing => row'[k].gs \in {"pending", "queued", "system_error"}
  <2>1. Has(v, k)
    BY <1>7 DEF Has
  <2>2. CASE v = w
    <3>1. k = j
      BY <2>1, <2>2, OneJobInHand
    <3>2. row'[k].gs = to
      BY <1>1, <1>2, <3>1 DEF RowType
    <3>3. QED
      BY <2>2, <3>2
  <2>3. CASE v # w
    <3>1. worker'[v] = worker[v]
      BY <2>3
    <3>2. CASE k = j
      <4>1. worker[v].pc \notin Owning
        BY <2>1, <2>3, <3>2 DEF SingleOwner
      <4>2. worker[v].pc \notin {"graded", "hand_over"} /\ worker[v].pc \notin Failing
        BY <1>2, <2>1, <3>2 DEF OwnersRun
      <4>3. QED
        BY <3>1, <4>1, <4>2
    <3>3. CASE k # j
      <4>1. row'[k] = row[k]
        BY <1>1, <1>2, <3>3 DEF RowType
      <4>2. QED
        BY <2>1, <3>1, <4>1 DEF OwnersRun
    <3>4. QED
      BY <3>2, <3>3
  <2>4. QED
    BY <2>2, <2>3
<1>8. OwnersRun'
  BY <1>7 DEF OwnersRun
<1>9. UNCHANGED result => SessionsCurrent'
  <2> SUFFICES ASSUME UNCHANGED result, NEW v \in Workers, NEW k \in Jobs, Has(v, k)'
               PROVE  /\ worker'[v].pc \in Owning => worker'[v].seen = result[k]
                      /\ worker'[v].pc = "verdict" /\ Mode[k] # "active" => worker'[v].seen \in Verdicts
                      /\ worker'[v].pc \in Failing => worker'[v].seen = Expired
    BY DEF SessionsCurrent
  <2>1. Has(v, k)
    BY DEF Has
  <2>2. CASE v = w
    BY <2>2 DEF Owning
  <2>3. CASE v # w
    <3>1. worker'[v] = worker[v]
      BY <2>3
    <3>2. QED
      BY <2>1, <3>1 DEF SessionsCurrent
  <2>4. QED
    BY <2>2, <2>3
<1>10. QED
  BY <1>3, <1>4, <1>5, <1>6, <1>8, <1>9, Frames

\* commit() writes exactly the new result when the session is current.
LEMMA FlushCurrent ==
  ASSUME result \in ResultType, NEW w \in Workers, NEW j \in Jobs, NEW new \in Results,
         Flush(w, j, new),
         worker[w].seen = result[j] \/ worker[w].seen = Expired
  PROVE  result' = [result EXCEPT ![j] = new]
<1> DEFINE flushed == [status |-> IF new.status # worker[w].seen.status THEN new.status ELSE result[j].status,
                       score  |-> IF new.score  # worker[w].seen.score  THEN new.score  ELSE result[j].score]
<1>1. result' = [result EXCEPT ![j] = flushed]
  BY DEF Flush, ResultType
<1>2. flushed.status = new.status /\ flushed.score = new.score
  BY DEF Expired, Results, Statuses, Scores
<1>3. flushed = new
  BY <1>2 DEF Results
<1>4. QED
  BY <1>1, <1>3

\* The owner of a row writes its result.
LEMMA OwnerWrites ==
  ASSUME PromptInv, NEW w \in Workers, NEW j \in Jobs, Has(w, j), worker[w].pc \in Owning,
         NEW new \in Results, result' = [result EXCEPT ![j] = new], new.status # "system_error",
         NEW pc \in Owning, pc = "verdict" /\ Mode[j] # "active" => new \in Verdicts,
         worker' = [worker EXCEPT ![w].pc = pc, ![w].seen = new],
         UNCHANGED <<row, lease, scan, grade, request>>
  PROVE  Prompt'
<1> USE DEF PromptInv, ViewsAgree, Prompt
<1>1. row \in RowType /\ result \in ResultType /\ worker \in WorkerType
  BY DEF SlowInv, TypeInv, TypeOK, QueueTypeOK
<1>2. row[j].gs = "running" /\ ~row[j].stale
  BY DEF OwnersRun
<1>3. \A v \in Workers \ {w} : worker'[v] = worker[v]
  BY <1>1 DEF WorkerType
<1>4. worker'[w].pc = pc /\ worker'[w].seen = new /\ worker'[w].job = worker[w].job
  BY <1>1 DEF WorkerType
<1>5. \A v \in Workers, k \in Jobs : Has(v, k)' <=> Has(v, k)
  BY <1>3, <1>4 DEF Has
<1>6. pc \notin Failing /\ pc \notin {"graded", "hand_over"}
  BY DEF Owning, Failing
<1>7. OwnersRun'
  <2> SUFFICES ASSUME NEW v \in Workers, NEW k \in Jobs, Has(v, k)
               PROVE  /\ worker'[v].pc \in Owning => row[k].gs = "running" /\ ~row[k].stale
                      /\ worker'[v].pc \in {"graded", "hand_over"} => row[k].gs = "completed"
                      /\ worker'[v].pc \in Failing => row[k].gs \in {"pending", "queued", "system_error"}
    BY <1>5 DEF OwnersRun
  <2>1. CASE v = w
    BY <1>2, <1>4, <1>6, <2>1, OneJobInHand
  <2>2. CASE v # w
    BY <1>3, <2>2 DEF OwnersRun
  <2>3. QED
    BY <2>1, <2>2
<1>8. SingleOwner'
  <2> SUFFICES ASSUME NEW v \in Workers, NEW u \in Workers, NEW k \in Jobs, v # u, Has(v, k), Has(u, k),
                      worker'[v].pc \in Owning, worker'[u].pc \in Owning
               PROVE  FALSE
    BY <1>5 DEF SingleOwner
  <2>1. worker[v].pc \in Owning /\ worker[u].pc \in Owning
    BY <1>3
  <2>2. QED
    BY <2>1 DEF SingleOwner
<1>9. SessionsCurrent'
  <2> SUFFICES ASSUME NEW v \in Workers, NEW k \in Jobs, Has(v, k)
               PROVE  /\ worker'[v].pc \in Owning => worker'[v].seen = result'[k]
                      /\ worker'[v].pc = "verdict" /\ Mode[k] # "active" => worker'[v].seen \in Verdicts
                      /\ worker'[v].pc \in Failing => worker'[v].seen = Expired
    BY <1>5 DEF SessionsCurrent
  <2>1. CASE v = w
    <3>1. k = j
      BY <2>1, OneJobInHand
    <3>2. QED
      BY <1>1, <1>4, <1>6, <2>1, <3>1 DEF ResultType
  <2>2. CASE v # w /\ k = j
    <3>1. worker[v].pc \notin Owning
      BY <2>2 DEF SingleOwner
    <3>2. QED
      BY <1>3, <2>2, <3>1 DEF SessionsCurrent, Owning
  <2>3. CASE v # w /\ k # j
    <3>1. result'[k] = result[k] /\ worker'[v] = worker[v]
      BY <1>1, <1>3, <2>3 DEF ResultType
    <3>2. QED
      BY <3>1 DEF SessionsCurrent
  <2>4. QED
    BY <2>1, <2>2, <2>3
<1>10. VerdictKept'
  BY <1>1, <1>2 DEF VerdictKept, ResultType
<1>11. SystemErrorUnscored'
  BY <1>1 DEF SystemErrorUnscored, ResultType
<1>12. QED
  BY <1>7, <1>8, <1>9, <1>10, <1>11, Frames

LEMMA ClaimStep ==
  ASSUME PromptInv, Slow = {}, NEW w \in Workers, NEW j \in Jobs, Claim(w, j)
  PROVE  Prompt'
<1> USE DEF PromptInv, ViewsAgree, Prompt
<1>1. row \in RowType /\ request \in RequestType /\ scan \in ScanType /\ worker \in WorkerType
  BY DEF SlowInv, TypeInv, TypeOK, QueueTypeOK
<1>2. row[j].gs = "queued" /\ row' = [row EXCEPT ![j].gs = "running", ![j].stale = FALSE]
  BY DEF Claim, ClaimJob, SetState
<1>3. UNCHANGED <<lease, scan, result, grade, request>> /\ Has(w, j)
  BY DEF Claim
<1>4. /\ \A v \in Workers \ {w} : worker'[v] = worker[v]
      /\ worker'[w].pc = "claimed" /\ worker'[w].seen = result[j] /\ worker'[w].job = worker[w].job
  BY <1>1 DEF Claim, WorkerType
<1>5. \A v \in Workers, k \in Jobs : Has(v, k)' <=> Has(v, k)
  BY <1>4 DEF Has
<1>6. \A v \in Workers \ {w} : Has(v, j) => worker[v].pc \notin Failing
  BY DEF Claim, Settled
<1>7. \A v \in Workers \ {w} : Has(v, j) => worker[v].pc \notin Owning \cup {"graded", "hand_over"}
  BY <1>2 DEF OwnersRun
<1>8. RequestFirst' /\ AttemptsBounded'
  BY <1>1, <1>2, <1>3 DEF RequestFirst, AttemptsBounded, RowType
<1>9. ListsHold'
  BY <1>1, <1>2, <1>3 DEF ListsHold, RequestFirst, RowType, ScanType
<1>10. OwnersRun'
  <2> SUFFICES ASSUME NEW v \in Workers, NEW k \in Jobs, Has(v, k)
               PROVE  /\ worker'[v].pc \in Owning => row'[k].gs = "running" /\ ~row'[k].stale
                      /\ worker'[v].pc \in {"graded", "hand_over"} => row'[k].gs = "completed"
                      /\ worker'[v].pc \in Failing => row'[k].gs \in {"pending", "queued", "system_error"}
    BY <1>5 DEF OwnersRun
  <2>1. CASE v = w
    <3>1. k = j
      BY <1>3, <2>1, OneJobInHand
    <3>2. row'[k].gs = "running" /\ ~row'[k].stale
      BY <1>1, <1>2, <3>1 DEF RowType
    <3>3. QED
      BY <1>4, <2>1, <3>2 DEF Failing
  <2>2. CASE v # w /\ k = j
    BY <1>4, <1>6, <1>7, <2>2
  <2>3. CASE v # w /\ k # j
    <3>1. row'[k] = row[k]
      BY <1>1, <1>2, <2>3 DEF RowType
    <3>2. QED
      BY <1>4, <2>3, <3>1 DEF OwnersRun
  <2>4. QED
    BY <2>1, <2>2, <2>3
<1>11. SessionsCurrent'
  <2> SUFFICES ASSUME NEW v \in Workers, NEW k \in Jobs, Has(v, k)
               PROVE  /\ worker'[v].pc \in Owning => worker'[v].seen = result[k]
                      /\ worker'[v].pc = "verdict" /\ Mode[k] # "active" => worker'[v].seen \in Verdicts
                      /\ worker'[v].pc \in Failing => worker'[v].seen = Expired
    BY <1>3, <1>5 DEF SessionsCurrent
  <2>1. CASE v = w
    <3>1. k = j
      BY <1>3, <2>1, OneJobInHand
    <3>2. QED
      BY <1>4, <2>1, <3>1 DEF Failing
  <2>2. CASE v # w
    BY <1>4, <2>2 DEF SessionsCurrent
  <2>3. QED
    BY <2>1, <2>2
<1>12. SingleOwner'
  <2> SUFFICES ASSUME NEW v \in Workers, NEW u \in Workers, NEW k \in Jobs, v # u, Has(v, k), Has(u, k),
                      worker'[v].pc \in Owning, worker'[u].pc \in Owning
               PROVE  FALSE
    BY <1>5 DEF SingleOwner
  <2>1. CASE v # w /\ u # w
    BY <1>4, <2>1 DEF SingleOwner
  <2>2. CASE v = w \/ u = w
    <3>1. k = j
      BY <1>3, <2>2, OneJobInHand
    <3>2. QED
      BY <1>4, <1>7, <2>2, <3>1
  <2>3. QED
    BY <2>1, <2>2
<1>13. VerdictKept' /\ GradeAfterCompletion'
  BY <1>1, <1>2, <1>3 DEF VerdictKept, GradeAfterCompletion, RowType
<1>14. QED
  BY <1>3, <1>8, <1>9, <1>10, <1>11, <1>12, <1>13, Frames

LEMMA ProcessSteps ==
  ASSUME PromptInv, Slow = {}, [Next]_vars, NEW w \in Workers, NEW j \in Jobs, Process(w, j)
  PROVE  Prompt'
<1> USE DEF PromptInv, ViewsAgree
<1>1. /\ row \in RowType /\ result \in ResultType /\ grade \in GradeType
      /\ worker \in WorkerType /\ worker' \in WorkerType /\ Loaded
  BY TypeStep DEF SlowInv, TypeInv, TypeOK, QueueTypeOK
<1>2. Idle.pc \in Quiet /\ Idle.pc = "idle" /\ Idle.job = {}
  BY DEF Idle, Quiet, PCs, Owning, Failing
<1>3. Finish(w) => /\ worker'[w].pc = "idle" /\ worker'[w].pc \in Quiet /\ worker'[w].job = {}
                   /\ \A v \in Workers \ {w} : worker'[v] = worker[v]
  BY <1>1, <1>2 DEF Finish, WorkerType
<1>4. ASSUME Has(w, j), worker[w].pc \in Owning
      PROVE  row[j].gs = "running" /\ worker[w].seen = result[j] /\ worker[w].seen \in Results
  BY <1>1, <1>4 DEF OwnersRun, SessionsCurrent, Loaded
\* A run that ends without a verdict.
<1>5. ASSUME Has(w, j), worker[w].pc \in Owning,
             NEW b \in BOOLEAN, FailJob(j, b), UNCHANGED <<lease, scan, result, grade, request>>,
             \A v \in Workers \ {w} : worker'[v] = worker[v],
             worker'[w].job \in {{}, {j}},
             (worker'[w].pc \in Failing /\ worker'[w].seen = Expired) \/ worker'[w].pc = "idle"
      PROVE  Prompt'
  <2>1. PICK to \in {"pending", "system_error"} : SetState(j, to)
    BY <1>4, <1>5 DEF FailJob
  <2>2. /\ worker'[w].pc \notin Owning /\ worker'[w].pc \notin {"graded", "hand_over"}
        /\ worker'[w].pc \in Failing => to # "completed" /\ worker'[w].seen = Expired
        /\ to \in {"completed", "pending", "system_error"}
    BY <1>5 DEF Failing, Owning
  <2>3. /\ RequestFirst' /\ OneScanner' /\ ListsHold' /\ OwnersRun' /\ OnlyPendingGradesAge'
        /\ SingleOwner' /\ AttemptsBounded' /\ GradeAfterCompletion' /\ SessionsCurrent'
    BY <1>5, <2>1, <2>2, RunEnds
  <2>4. VerdictKept'
    BY <1>1, <1>5, <2>1 DEF VerdictKept, SetState, RowType
  <2>5. QED
    BY <1>5, <2>3, <2>4, Frames DEF Prompt
<1>6. CASE Claim(w, j)
  BY <1>6, ClaimStep
<1>7. CASE ClaimMiss(w, j)
  <2>1. UNCHANGED <<row, lease, scan, result, grade, request>> /\ Finish(w)
    BY <1>7 DEF ClaimMiss
  <2>2. QED
    BY <1>1, <1>3, <2>1, Frames, Quieting DEF Prompt
<1>8. CASE Begin(w, j)
  <2> DEFINE new == [worker[w].seen EXCEPT !.status = "running"]
  <2>1. Has(w, j) /\ worker[w].pc = "claimed" /\ UNCHANGED <<row, lease, scan, grade, request>>
    BY <1>8 DEF Begin
  <2>2. new \in Results /\ new.status # "system_error" /\ worker[w].pc \in Owning
    BY <1>4, <2>1 DEF Results, Statuses, Owning
  <2>3. result' = [result EXCEPT ![j] = new]
    BY <1>1, <1>4, <1>8, <2>1, <2>2, FlushCurrent DEF Begin
  <2>4. worker' = [worker EXCEPT ![w].pc = "judging", ![w].seen = new]
    BY <1>8 DEF Begin
  <2>5. QED
    BY <2>1, <2>2, <2>3, <2>4, OwnerWrites DEF Owning
<1>9. CASE Judge(w, j)
  <2>1. Has(w, j) /\ worker[w].pc \in Owning /\ UNCHANGED <<row, lease, scan, grade, request>>
    BY <1>9 DEF Judge, Owning
  <2>2. PICK new \in Outcomes(j) :
          Flush(w, j, new) /\ worker' = [worker EXCEPT ![w].pc = "verdict", ![w].seen = new]
    BY <1>9 DEF Judge
  <2>3. new \in Results /\ new.status # "system_error" /\ (Mode[j] # "active" => new \in Verdicts)
    BY DEF Outcomes, Verdicts, Results, Statuses, Scores
  <2>4. result' = [result EXCEPT ![j] = new]
    BY <1>1, <1>4, <2>1, <2>2, <2>3, FlushCurrent
  <2>5. QED
    BY <2>1, <2>2, <2>3, <2>4, OwnerWrites DEF Owning
<1>10. ASSUME NEW b \in BOOLEAN, NEW pc \in Failing, worker[w].pc \in Owning, FailWith(w, j, b, pc)
       PROVE  Prompt'
  <2>1. /\ \A v \in Workers \ {w} : worker'[v] = worker[v]
        /\ worker'[w].pc = pc /\ worker'[w].seen = Expired /\ worker'[w].job = {j}
    BY <1>1, <1>10 DEF FailWith, WorkerType, Has
  <2>2. QED
    BY <1>5, <1>10, <2>1 DEF FailWith
<1>11. CASE ConfigError(w, j) \/ InfraError(w, j) \/ ImportError(w, j)
  BY <1>10, <1>11 DEF ConfigError, InfraError, ImportError, Failing, Owning
<1>12. CASE RecordFailure(w, j)
  <2>1. /\ Has(w, j) /\ worker[w].pc \in Failing /\ Finish(w)
        /\ UNCHANGED <<row, lease, scan, grade, request>>
    BY <1>12 DEF RecordFailure
  <2>2. PICK new \in Results : Flush(w, j, new) /\ (new.status = "system_error" => new.score = "none")
    BY <1>12 DEF RecordFailure, SystemError, Results, Statuses, Scores
  <2>3. row[j].gs \notin {"running", "completed"} /\ worker[w].seen = Expired
    BY <2>1 DEF OwnersRun, SessionsCurrent
  <2>4. result' = [result EXCEPT ![j] = new]
    BY <1>1, <2>2, <2>3, FlushCurrent
  <2>5. SessionsCurrent'
    <3> SUFFICES ASSUME NEW v \in Workers, NEW k \in Jobs, Has(v, k)'
                 PROVE  /\ worker'[v].pc \in Owning => worker'[v].seen = result'[k]
                        /\ worker'[v].pc = "verdict" /\ Mode[k] # "active" => worker'[v].seen \in Verdicts
                        /\ worker'[v].pc \in Failing => worker'[v].seen = Expired
      BY DEF SessionsCurrent
    <3>1. v # w /\ worker'[v] = worker[v] /\ Has(v, k)
      BY <1>3, <2>1 DEF Has
    <3>2. CASE k = j
      <4>1. worker[v].pc \notin Owning
        BY <2>3, <3>1, <3>2 DEF OwnersRun
      <4>2. QED
        BY <3>1, <4>1 DEF SessionsCurrent, Owning
    <3>3. CASE k # j
      BY <1>1, <2>4, <3>1, <3>3 DEF SessionsCurrent, ResultType
    <3>4. QED
      BY <3>2, <3>3
  <2>6. VerdictKept' /\ SystemErrorUnscored'
    BY <1>1, <2>1, <2>2, <2>3, <2>4 DEF VerdictKept, SystemErrorUnscored, ResultType
  <2>7. QED
    BY <1>1, <1>3, <2>1, <2>5, <2>6, Frames, Quieting DEF Prompt
<1>13. CASE Complete(w, j)
  <2>1. Has(w, j) /\ worker[w].pc = "verdict" /\ UNCHANGED <<lease, scan, grade, request>>
    BY <1>13 DEF Complete
  <2>2. worker[w].pc \in Owning
    BY <2>1 DEF Owning
  <2>3. CompleteJob(j) /\ (\/ result' = [result EXCEPT ![j].score = worker[w].seen.score]
                            \/ UNCHANGED result)
    BY <1>4, <1>13, <2>1, <2>2 DEF Complete
  <2>4. UNCHANGED result
    BY <1>1, <1>4, <2>1, <2>2, <2>3 DEF ResultType, Results
  <2>5. /\ \A v \in Workers \ {w} : worker'[v] = worker[v]
        /\ worker'[w].job \in {{}, {j}} /\ worker'[w].pc \in {"idle", "graded"}
    BY <1>1, <1>3, <1>13 DEF Complete, Goto, Has, WorkerType
  <2>6. SetState(j, "completed")
    BY <2>3 DEF CompleteJob
  <2>7. worker'[w].pc \notin Owning /\ worker'[w].pc \notin Failing
    BY <2>5 DEF Owning, Failing
  <2>8. /\ RequestFirst' /\ OneScanner' /\ ListsHold' /\ OwnersRun' /\ OnlyPendingGradesAge'
        /\ SingleOwner' /\ AttemptsBounded' /\ GradeAfterCompletion' /\ SessionsCurrent'
    BY <2>1, <2>2, <2>4, <2>5, <2>6, <2>7, RunEnds
  <2>9. VerdictKept'
    <3>1. Mode[j] # "active" => result[j] \in Verdicts
      BY <2>1, <2>2 DEF SessionsCurrent
    <3>2. QED
      BY <1>1, <2>4, <2>6, <3>1 DEF VerdictKept, SetState, RowType
  <2>10. QED
    BY <2>4, <2>8, <2>9, Frames DEF Prompt
<1>14. CASE CreateGrade(w, j)
  <2>1. Has(w, j) /\ worker[w].pc = "graded" /\ UNCHANGED <<row, lease, scan, result, request>>
    BY <1>14 DEF CreateGrade
  <2>2. row[j].gs = "completed"
    BY <2>1 DEF OwnersRun
  <2>3. OnlyPendingGradesAge' /\ GradeAfterCompletion'
    BY <1>1, <1>14, <2>1, <2>2 DEF CreateGrade, OnlyPendingGradesAge, GradeAfterCompletion, GradeType
  <2>4. CASE Finish(w)
    BY <1>1, <1>3, <2>1, <2>3, <2>4, Frames, Quieting DEF Prompt
  <2>5. CASE Goto(w, "hand_over")
    <3>1. /\ \A v \in Workers \ {w} : worker'[v] = worker[v]
          /\ worker'[w].pc = "hand_over" /\ worker'[w].job = worker[w].job
      BY <1>1, <2>5 DEF Goto, WorkerType
    <3>2. "hand_over" \notin Owning /\ "hand_over" \notin Failing
      BY DEF Owning, Failing
    <3>3. \A v \in Workers, k \in Jobs : Has(v, k)' <=> Has(v, k)
      BY <3>1 DEF Has
    <3>4. OwnersRun'
      BY <2>1, <2>2, <3>1, <3>2, <3>3, OneJobInHand DEF OwnersRun
    <3>5. SessionsCurrent'
      BY <2>1, <3>1, <3>2, <3>3 DEF SessionsCurrent
    <3>6. SingleOwner'
      BY <3>1, <3>2, <3>3 DEF SingleOwner
    <3>7. QED
      BY <2>1, <2>3, <3>4, <3>5, <3>6, Frames DEF Prompt
  <2>6. QED
    BY <1>14, <2>4, <2>5 DEF CreateGrade
<1>15. CASE HandOver(w, j)
  <2>1. UNCHANGED <<row, lease, scan, result, request>> /\ Finish(w)
    BY <1>15 DEF HandOver
  <2>2. OnlyPendingGradesAge' /\ GradeAfterCompletion'
    BY <1>1, <1>15, <2>1 DEF HandOver, OnlyPendingGradesAge, GradeAfterCompletion, GradeType
  <2>3. QED
    BY <1>1, <1>3, <2>1, <2>2, Frames, Quieting DEF Prompt
<1>16. CASE UnknownError(w, j)
  <2>1. /\ Has(w, j) /\ FailJob(j, TRUE) /\ Finish(w)
        /\ worker[w].pc \in Owning \cup Failing \cup {"graded", "hand_over"}
        /\ UNCHANGED <<lease, scan, result, grade, request>>
    BY <1>16 DEF UnknownError
  <2>2. CASE worker[w].pc \in Owning
    BY <1>3, <1>5, <2>1, <2>2
  <2>3. CASE worker[w].pc \notin Owning
    <3>1. UNCHANGED row
      BY <2>1, <2>3 DEF OwnersRun, FailJob
    <3>2. QED
      BY <1>1, <1>3, <2>1, <3>1, Frames, Quieting DEF Prompt
  <2>4. QED
    BY <2>2, <2>3
<1>17. QED
  BY <1>6, <1>7, <1>8, <1>9, <1>11, <1>12, <1>13, <1>14, <1>15, <1>16 DEF Process

-----------------------------------------------------------------------------
(* The workers between jobs, and the recovery scan.                         *)

LEMMA LoopSteps ==
  ASSUME PromptInv, [Next]_vars, NEW w \in Workers,
         Pop(w) \/ SkipRecovery(w) \/ Restart(w) \/ Crash(w)
  PROVE  Prompt'
<1> USE DEF PromptInv, ViewsAgree, Prompt
<1>1. worker \in WorkerType /\ worker' \in WorkerType /\ scan \in ScanType
  BY TypeStep DEF SlowInv, TypeInv, TypeOK, QueueTypeOK
<1>2. UNCHANGED <<row, lease, result, grade, request>>
  BY DEF Pop, SkipRecovery, Restart, Crash
<1>3. \A v \in Workers \ {w} : worker'[v] = worker[v]
  BY <1>1 DEF Pop, SkipRecovery, Restart, Crash, Goto, WorkerType
<1>4. worker'[w].pc \in {"popped", "idle", "boot", "down"}
  BY <1>1 DEF Pop, SkipRecovery, Restart, Crash, Goto, WorkerType
<1>5. worker'[w].pc \in Quiet
  BY <1>4 DEF Quiet, PCs, Owning, Failing
<1>6. OwnersRun' /\ SessionsCurrent' /\ SingleOwner'
  BY <1>1, <1>2, <1>3, <1>5, Quieting
<1>7. OneScanner' /\ ListsHold'
  <2>1. CASE UNCHANGED scan
    BY <1>2, <2>1, Frames
  <2>2. CASE scan' = [scan EXCEPT ![w] = NoScan]
    BY <1>1, <1>2, <2>2 DEF OneScanner, ListsHold, NoScan, ScanType
  <2>3. QED
    BY <2>1, <2>2 DEF Pop, SkipRecovery, Restart, Crash
<1>8. QED
  BY <1>2, <1>6, <1>7, Frames

LEMMA ScanFrameSteps ==
  ASSUME PromptInv, [Next]_vars, NEW w \in Workers,
         Recover(w) \/ ScanNext(w) \/ ScanEnd(w)
  PROVE  Prompt'
<1> USE DEF PromptInv, ViewsAgree, Prompt
<1>1. /\ worker \in WorkerType /\ worker' \in WorkerType /\ scan \in ScanType /\ row \in RowType
      /\ grade \in GradeType /\ lease \in Workers \cup {NoWorker}
  BY TypeStep DEF SlowInv, TypeInv, TypeOK, QueueTypeOK
<1>2. UNCHANGED <<row, result, request>>
  BY DEF Recover, StartScan, ScanNext, NextList, ScanEnd, EndScan, queueVars
<1>3. \A v \in Workers \ {w} : worker'[v] = worker[v]
  BY <1>1 DEF Recover, ScanNext, ScanEnd, Goto, WorkerType
<1>4. OwnersRun' /\ SessionsCurrent' /\ SingleOwner'
  <2>1. CASE UNCHANGED worker
    BY <1>2, <2>1, Frames
  <2>2. CASE worker'[w].pc \in {"scanning", "idle"}
    <3>1. worker'[w].pc \in Quiet
      BY <2>2 DEF Quiet, PCs, Owning, Failing
    <3>2. QED
      BY <1>1, <1>2, <1>3, <3>1, Quieting
  <2>3. QED
    BY <1>1, <2>1, <2>2 DEF Recover, ScanNext, ScanEnd, Goto, WorkerType
<1>5. \A v \in Workers \ {w} : scan'[v] = scan[v]
  BY <1>1 DEF Recover, StartScan, List, ScanNext, NextList, ScanEnd, EndScan, ScanType
<1>6. OneScanner'
  <2>1. CASE Recover(w)
    <3>1. lease' = w /\ lease \in {NoWorker, w}
      BY <2>1 DEF Recover, StartScan, LeaseAvailable
    <3>2. \A v \in Workers \ {w} : scan[v].phase = "off"
      BY <3>1, NoWorkerAssumption DEF OneScanner
    <3>3. QED
      BY <1>5, <3>1, <3>2 DEF OneScanner
  <2>2. CASE ScanNext(w)
    <3>1. scan[w].phase # "off" /\ lease' = lease
      BY <2>2 DEF ScanNext, NextList, SuccPhase
    <3>2. QED
      BY <1>5, <3>1 DEF OneScanner
  <2>3. CASE ScanEnd(w)
    <3>1. scan'[w].phase = "off" /\ lease' = lease
      BY <1>1, <2>3 DEF ScanEnd, EndScan, NoScan, ScanType
    <3>2. QED
      BY <1>5, <3>1 DEF OneScanner
  <2>4. QED
    BY <2>1, <2>2, <2>3
<1>7. ListsHold'
  <2>1. ASSUME NEW phase \in Phases, List(w, phase, Jobs) PROVE ListsHold'
    <3>1. scan'[w].phase = phase /\ scan'[w].todo = Listed(phase, Jobs)
      BY <1>1, <2>1 DEF List, ScanType
    <3>2. ASSUME NEW j \in scan'[w].todo
          PROVE  /\ phase = "pending" => row[j].old /\ row[j].attempt < MaxAttempts
                 /\ phase = "running" => /\ request[j] # "created"
                                         /\ row[j].gs \notin {"absent", "queued"}
                                         /\ row[j].gs = "running" => row[j].stale
      BY <3>1, <3>2 DEF Listed, RequestFirst
    <3>3. QED
      BY <1>2, <1>5, <3>1, <3>2 DEF ListsHold
  <2>2. CASE scan'[w] = NoScan
    BY <1>2, <1>5, <2>2 DEF ListsHold, NoScan
  <2>3. QED
    BY <1>1, <2>1, <2>2
    DEF Recover, StartScan, ScanNext, NextList, SuccPhase, ScanEnd, EndScan, Phases, ScanType
<1>8. OnlyPendingGradesAge' /\ GradeAfterCompletion'
  <2>1. CASE UNCHANGED grade
    BY <1>2, <2>1, Frames
  <2>2. CASE ScanEnd(w)
    BY <1>1, <1>2, <2>2 DEF ScanEnd, OnlyPendingGradesAge, GradeAfterCompletion, GradeType
  <2>3. QED
    BY <2>1, <2>2 DEF Recover, ScanNext
<1>9. QED
  BY <1>2, <1>4, <1>6, <1>7, <1>8, Frames

LEMMA ScanRowSteps ==
  ASSUME PromptInv, [Next]_vars, NEW w \in Workers, NEW j \in Jobs, ScanRow(w, j)
  PROVE  Prompt'
<1> USE DEF PromptInv, ViewsAgree, Prompt
<1>1. row \in RowType /\ result \in ResultType /\ scan \in ScanType /\ request \in RequestType
  BY DEF SlowInv, TypeInv, TypeOK, QueueTypeOK
<1>2. UNCHANGED <<lease, grade, request, worker>> /\ j \in scan[w].todo
  BY DEF ScanRow, RequeuePending, Repush, ResetRunning, Exhaust, ScanMiss, Hit, Take
<1>3. /\ \A v \in Workers \ {w} : scan'[v] = scan[v]
      /\ scan'[w].phase = scan[w].phase /\ scan'[w].todo = scan[w].todo \ {j}
  <2>1. \E hit \in BOOLEAN : Take(w, j, hit)
    BY DEF ScanRow, RequeuePending, Repush, ResetRunning, Exhaust, ScanMiss, Hit
  <2>2. QED
    BY <1>1, <2>1 DEF Take, ScanType
<1>4. OneScanner' /\ OnlyPendingGradesAge' /\ SingleOwner'
  BY <1>2, <1>3, Frames DEF OneScanner
\* The lease keeps everybody else out, and the row is not in the list any more.
<1>5. ASSUME scan[w].phase # "off", \A k \in Jobs \ {j} : row'[k] = row[k] PROVE ListsHold'
  <2> SUFFICES ASSUME NEW v \in Workers, NEW k \in scan'[v].todo
               PROVE  /\ scan'[v].phase = "pending" => row'[k].old /\ row'[k].attempt < MaxAttempts
                      /\ scan'[v].phase = "running" => /\ request[k] # "created"
                                                       /\ row'[k].gs \notin {"absent", "queued"}
                                                       /\ row'[k].gs = "running" => row'[k].stale
    BY <1>2 DEF ListsHold
  <2>1. CASE v # w
    <3>1. scan[v].phase = "off"
      BY <1>5, <2>1 DEF OneScanner
    <3>2. QED
      BY <1>3, <2>1, <3>1
  <2>2. CASE v = w
    <3>1. k \in scan[w].todo /\ k # j /\ k \in Jobs
      BY <1>1, <1>3, <2>2 DEF ScanType
    <3>2. row'[k] = row[k]
      BY <1>5, <3>1
    <3>3. QED
      BY <1>3, <2>2, <3>1, <3>2 DEF ListsHold
  <2>3. QED
    BY <2>1, <2>2
\* A row on its way to a new run, given up or pushed again has no owner.
<1>6. ASSUME NEW to \in {"pending", "queued", "system_error"}, row'[j].gs = to,
             row[j].gs \in {"pending", "queued", "running"}, row[j].gs = "running" => row[j].stale,
             \A k \in Jobs \ {j} : row'[k] = row[k], UNCHANGED result
      PROVE  OwnersRun' /\ SessionsCurrent' /\ VerdictKept' /\ SystemErrorUnscored' /\ GradeAfterCompletion'
  <2>1. OwnersRun'
    <3> SUFFICES ASSUME NEW v \in Workers, NEW k \in Jobs, Has(v, k)
                 PROVE  /\ worker[v].pc \in Owning => row'[k].gs = "running" /\ ~row'[k].stale
                        /\ worker[v].pc \in {"graded", "hand_over"} => row'[k].gs = "completed"
                        /\ worker[v].pc \in Failing => row'[k].gs \in {"pending", "queued", "system_error"}
      BY <1>2 DEF OwnersRun, Has
    <3>1. CASE k = j
      BY <1>6, <3>1 DEF OwnersRun
    <3>2. CASE k # j
      BY <1>6, <3>2 DEF OwnersRun
    <3>3. QED
      BY <3>1, <3>2
  <2>2. VerdictKept' /\ GradeAfterCompletion'
    BY <1>2, <1>6 DEF VerdictKept, GradeAfterCompletion
  <2>3. QED
    BY <1>2, <1>6, <2>1, <2>2, Frames
<1>7. CASE RequeuePending(w, j) /\ UNCHANGED result
  <2>1. /\ scan[w].phase = "pending" /\ row[j].gs = "pending"
        /\ row' = [row EXCEPT ![j].gs = "queued", ![j].stale = FALSE, ![j].attempt = @ + 1]
    BY <1>7 DEF RequeuePending, Hit, EnqueueJob
  <2>2. row[j].old /\ row[j].attempt < MaxAttempts /\ request[j] # "created"
    BY <1>2, <2>1 DEF ListsHold, RequestFirst
  <2>3. (\A k \in Jobs \ {j} : row'[k] = row[k]) /\ row'[j].gs = "queued"
    BY <1>1, <2>1 DEF RowType
  <2>4. ListsHold' /\ OwnersRun' /\ SessionsCurrent' /\ VerdictKept' /\ SystemErrorUnscored'
        /\ GradeAfterCompletion'
    BY <1>5, <1>6, <1>7, <2>1, <2>3
  <2>5. RequestFirst'
    BY <1>1, <1>2, <2>1, <2>2 DEF RequestFirst, RowType
  <2>6. AttemptsBounded'
    BY <1>1, <2>1, <2>2, MaxAttemptsAssumption DEF AttemptsBounded, RowType
  <2>7. QED
    BY <1>4, <2>4, <2>5, <2>6
<1>8. CASE (Repush(w, j) \/ ResetRunning(w, j)) /\ UNCHANGED result
  <2>1. PICK to \in {"pending", "queued"} :
          row' = [row EXCEPT ![j].gs = to, ![j].stale = FALSE]
    BY <1>8 DEF Repush, ResetRunning, SetState
  <2>2. /\ scan[w].phase \in {"queued", "running"}
        /\ row[j].gs \in {"queued", "running"}
        /\ row[j].gs = "running" => row[j].stale
    <3>1. CASE Repush(w, j)
      BY <3>1 DEF Repush, Hit, Matches
    <3>2. CASE ResetRunning(w, j)
      BY <1>2, <3>2 DEF ResetRunning, Hit, Matches, ListsHold
    <3>3. QED
      BY <1>8, <3>1, <3>2
  <2>3. (\A k \in Jobs \ {j} : row'[k] = row[k]) /\ row'[j].gs = to
    BY <1>1, <2>1 DEF RowType
  <2>4. ListsHold' /\ OwnersRun' /\ SessionsCurrent' /\ VerdictKept' /\ SystemErrorUnscored'
        /\ GradeAfterCompletion'
    BY <1>5, <1>6, <1>8, <2>2, <2>3
  <2>5. RequestFirst' /\ AttemptsBounded'
    BY <1>1, <1>2, <2>1, <2>2 DEF RequestFirst, AttemptsBounded, RowType
  <2>6. QED
    BY <1>4, <2>4, <2>5
<1>9. CASE ScanMiss(w, j) /\ UNCHANGED result
  <2>1. UNCHANGED row
    BY <1>9 DEF ScanMiss, queueVars
  <2>2. ListsHold'
    BY <1>2, <1>3, <2>1 DEF ListsHold
  <2>3. QED
    BY <1>2, <1>4, <1>9, <2>1, <2>2, Frames
<1>10. CASE Exhaust(w, j) /\ result' = [result EXCEPT ![j] = SystemError]
  <2>1. /\ scan[w].phase = "exhausted" /\ row[j].gs = "pending"
        /\ row' = [row EXCEPT ![j].gs = "system_error", ![j].stale = FALSE]
    BY <1>10 DEF Exhaust, Hit, Matches, SetState
  <2>2. row[j].attempt >= MaxAttempts
    BY <1>2, <2>1 DEF SlowInv, Exhaustible
  <2>3. request[j] # "created"
    BY <2>2, MaxAttemptsAssumption DEF RequestFirst
  <2>4. RequestFirst' /\ AttemptsBounded'
    BY <1>1, <1>2, <2>1, <2>3 DEF RequestFirst, AttemptsBounded, RowType
  <2>5. (\A k \in Jobs \ {j} : row'[k] = row[k]) /\ row'[j].gs = "system_error"
    BY <1>1, <2>1 DEF RowType
  <2>6. ListsHold'
    BY <1>5, <2>1, <2>5
  <2>7. OwnersRun'
    <3> SUFFICES ASSUME NEW v \in Workers, NEW k \in Jobs, Has(v, k)
                 PROVE  /\ worker[v].pc \in Owning => row'[k].gs = "running" /\ ~row'[k].stale
                        /\ worker[v].pc \in {"graded", "hand_over"} => row'[k].gs = "completed"
                        /\ worker[v].pc \in Failing => row'[k].gs \in {"pending", "queued", "system_error"}
      BY <1>2 DEF OwnersRun, Has
    <3>1. CASE k = j
      BY <2>1, <2>5, <3>1 DEF OwnersRun
    <3>2. CASE k # j
      BY <2>5, <3>2 DEF OwnersRun
    <3>3. QED
      BY <3>1, <3>2
  <2>8. SessionsCurrent'
    <3> SUFFICES ASSUME NEW v \in Workers, NEW k \in Jobs, Has(v, k)
                 PROVE  /\ worker[v].pc \in Owning => worker[v].seen = result'[k]
                        /\ worker[v].pc = "verdict" /\ Mode[k] # "active" => worker[v].seen \in Verdicts
                        /\ worker[v].pc \in Failing => worker[v].seen = Expired
      BY <1>2 DEF SessionsCurrent, Has
    <3>1. CASE k = j
      <4>1. worker[v].pc \notin Owning
        BY <2>1, <3>1 DEF OwnersRun
      <4>2. QED
        BY <4>1 DEF SessionsCurrent
    <3>2. CASE k # j
      BY <1>1, <1>10, <3>2 DEF SessionsCurrent, ResultType
    <3>3. QED
      BY <3>1, <3>2
  <2>9. VerdictKept' /\ SystemErrorUnscored' /\ GradeAfterCompletion'
    BY <1>1, <1>2, <1>10, <2>1, <2>5
    DEF VerdictKept, SystemErrorUnscored, GradeAfterCompletion, ResultType, SystemError
  <2>10. QED
    BY <1>4, <2>4, <2>6, <2>7, <2>8, <2>9
<1>11. QED
  BY <1>7, <1>8, <1>9, <1>10 DEF ScanRow

-----------------------------------------------------------------------------

LEMMA PromptStep ==
  ASSUME PromptInv, Slow = {}, [Next]_vars
  PROVE  PromptInv'
<1>1. SlowInv'
  BY TypeStep, ExhaustibleStep DEF PromptInv, SlowInv
<1>2. Prompt'
  <2>1. CASE UNCHANGED vars
    BY <2>1, Frames DEF Prompt, ViewsAgree, vars
  <2>2. CASE Next
    BY <2>2, RequestSteps, TimeSteps, ProcessSteps, LoopSteps, ScanFrameSteps, ScanRowSteps
    DEF Next, Step, Scan
  <2>3. QED
    BY <2>1, <2>2
<1>3. QED
  BY <1>1, <1>2 DEF PromptInv, Prompt

LEMMA PromptInit == Init => PromptInv
<1> SUFFICES ASSUME Init PROVE PromptInv
  OBVIOUS
<1>1. SlowInv
  BY TypeInit DEF SlowInv, Exhaustible, Init, QueueInit, NoScan
<1>2. \A w \in Workers, j \in Jobs : ~Has(w, j)
  BY DEF Init, Idle, Has
<1>3. OwnersRun /\ SessionsCurrent /\ SingleOwner
  BY <1>2 DEF OwnersRun, SessionsCurrent, SingleOwner
<1>4. RequestFirst /\ OneScanner /\ ListsHold /\ OnlyPendingGradesAge
  BY DEF Init, QueueInit, NoScan, RequestFirst, OneScanner, ListsHold, OnlyPendingGradesAge
<1>5. AttemptsBounded /\ VerdictKept /\ SystemErrorUnscored /\ GradeAfterCompletion
  BY MaxAttemptsAssumption
  DEF Init, QueueInit, AttemptsBounded, VerdictKept, SystemErrorUnscored, GradeAfterCompletion
<1>6. QED
  BY <1>1, <1>3, <1>4, <1>5 DEF PromptInv, ViewsAgree

\* When no clock runs out early, every view of a row agrees with the row.
THEOREM PromptInvariant == ASSUME Slow = {} PROVE Spec => []PromptInv
<1>1. PromptInv /\ [Next]_vars => PromptInv'
  BY PromptStep
<1>2. QED
  BY <1>1, PromptInit, PTL DEF Spec

\* Two workers never run the same submission, whatever wake-ups are lost or
\* duplicated, and however many processes die.
THEOREM OneOwner == ASSUME Slow = {} PROVE Spec => []SingleOwner
<1>1. PromptInv => SingleOwner
  BY DEF PromptInv
<1>2. QED
  BY <1>1, PromptInvariant, PTL

\* A submission is run MAX_ATTEMPTS times at most.
THEOREM BoundedAttempts == ASSUME Slow = {} PROVE Spec => []AttemptsBounded
<1>1. PromptInv => AttemptsBounded
  BY DEF PromptInv
<1>2. QED
  BY <1>1, PromptInvariant, PTL

\* The verdict of completed tests is not replaced by a failure, a system error
\* carries no score, and only completed tests reach the AI.
THEOREM ResultsRight ==
  ASSUME Slow = {} PROVE Spec => [](VerdictKept /\ SystemErrorUnscored /\ GradeAfterCompletion)
<1>1. PromptInv => VerdictKept /\ SystemErrorUnscored /\ GradeAfterCompletion
  BY DEF PromptInv
<1>2. QED
  BY <1>1, PromptInvariant, PTL

Final == \A j \in Jobs : (row[j].gs = "completed" /\ Mode[j] # "active")
                           => (row'[j].gs = "completed" /\ result'[j] = result[j])

LEMMA FinalStep ==
  ASSUME PromptInv, [Next]_vars
  PROVE  Final
<1> USE DEF PromptInv, ViewsAgree
<1> SUFFICES ASSUME NEW j \in Jobs, row[j].gs = "completed"
             PROVE  row'[j].gs = "completed" /\ result'[j] = result[j]
  BY DEF Final
<1>1. row \in RowType /\ result \in ResultType /\ TypeInv /\ Exhaustible
  BY DEF SlowInv, TypeInv, TypeOK, QueueTypeOK
<1>2. row'[j].gs = "completed"
  <2>1. ASSUME NEW k \in Jobs, Moved(k) \/ Touched(k) PROVE row'[j].gs = "completed"
    BY <1>1, <2>1 DEF Moved, Touched, CreateRow, ClaimJob, CompleteJob, SetState, RowType
  <2>2. QED
    BY <1>1, <2>1, RowEffect
<1>3. ASSUME NEW w \in Workers, NEW k \in Jobs, Process(w, k) PROVE result'[j] = result[j]
  <2>1. CASE Begin(w, k) \/ Judge(w, k) \/ RecordFailure(w, k) \/ Complete(w, k)
    <3>1. Has(w, k) /\ (worker[w].pc \in Owning \/ worker[w].pc \in Failing)
      BY <2>1 DEF Begin, Judge, RecordFailure, Complete, Owning
    <3>2. k # j
      BY <3>1 DEF OwnersRun
    <3>3. QED
      BY <1>1, <2>1, <3>2 DEF Begin, Judge, RecordFailure, Complete, Flush, ResultType
  <2>2. CASE \/ Claim(w, k) \/ ClaimMiss(w, k) \/ CreateGrade(w, k) \/ HandOver(w, k) \/ UnknownError(w, k)
             \/ ConfigError(w, k) \/ InfraError(w, k) \/ ImportError(w, k)
    BY <2>2 DEF Claim, ClaimMiss, CreateGrade, HandOver, UnknownError,
                ConfigError, InfraError, ImportError, FailWith
  <2>3. QED
    BY <1>3, <2>1, <2>2 DEF Process
<1>4. ASSUME NEW w \in Workers, NEW k \in Jobs, ScanRow(w, k) PROVE result'[j] = result[j]
  <2>1. CASE UNCHANGED result
    BY <2>1
  <2>2. CASE Exhaust(w, k) /\ result' = [result EXCEPT ![k] = SystemError]
    <3>1. row[k].gs = "pending"
      BY <2>2 DEF Exhaust, Hit, Matches
    <3>2. QED
      BY <1>1, <2>2, <3>1 DEF ResultType
  <2>3. QED
    BY <1>4, <2>1, <2>2 DEF ScanRow
<1>5. ASSUME NEW w \in Workers,
             \/ Pop(w) \/ Recover(w) \/ SkipRecovery(w) \/ ScanNext(w) \/ ScanEnd(w)
             \/ Restart(w) \/ Crash(w)
      PROVE  UNCHANGED result
  BY <1>5 DEF Pop, Recover, SkipRecovery, ScanNext, ScanEnd, Restart, Crash
<1>6. ASSUME NEW k \in Jobs, Create(k) \/ Enqueue(k) \/ RequestDies(k) \/ Tick(k) PROVE UNCHANGED result
  BY <1>6 DEF Create, Enqueue, RequestDies, Tick, others
<1>7. ASSUME Expire PROVE UNCHANGED result
  BY <1>7 DEF Expire, others
<1>8. CASE UNCHANGED vars
  BY <1>2, <1>8 DEF vars
<1>9. QED
  BY <1>2, <1>3, <1>4, <1>5, <1>6, <1>7, <1>8 DEF Next, Step, Scan

\* As long as no run, scan or request outlives its threshold, completed tests are
\* not run again and their verdict stands, whatever crashes, duplicate wake-ups,
\* other workers and scans come after.
THEOREM VerdictsFinal == ASSUME Slow = {} PROVE Spec => VerdictFinal
<1>1. PromptInv /\ [Next]_vars => [Final]_vars
  BY FinalStep
<1>2. QED
  BY <1>1, PromptInvariant, PTL DEF Spec, VerdictFinal, Final

\* What is left when something does come late (see OnlyLateRunsDamage).
LateOnly == \A j \in Jobs : row[j].gs = "completed" =>
  /\ row'[j].gs = "completed"
  /\ result'[j] # result[j] =>
       \E w \in Workers : Has(w, j) /\ worker[w].pc \in {"claimed", "judging"} \cup Failing

LEMMA LateStep ==
  ASSUME SlowInv, [Next]_vars
  PROVE  LateOnly
<1> DEFINE Late(j) == \E w \in Workers : Has(w, j) /\ worker[w].pc \in {"claimed", "judging"} \cup Failing
<1> SUFFICES ASSUME NEW j \in Jobs, row[j].gs = "completed"
             PROVE  row'[j].gs = "completed" /\ (result'[j] # result[j] => Late(j))
  BY DEF LateOnly
<1>1. row \in RowType /\ result \in ResultType /\ TypeInv /\ Exhaustible
  BY DEF SlowInv, TypeInv, TypeOK, QueueTypeOK
<1>2. row'[j].gs = "completed"
  <2>1. ASSUME NEW k \in Jobs, Moved(k) \/ Touched(k) PROVE row'[j].gs = "completed"
    BY <1>1, <2>1 DEF Moved, Touched, CreateRow, ClaimJob, CompleteJob, SetState, RowType
  <2>2. QED
    BY <1>1, <2>1, RowEffect
<1>3. ASSUME NEW w \in Workers, NEW k \in Jobs, Process(w, k) PROVE result'[j] = result[j] \/ Late(j)
  <2>1. CASE Begin(w, k) \/ Judge(w, k) \/ RecordFailure(w, k)
    <3>1. Has(w, k) /\ worker[w].pc \in {"claimed", "judging"} \cup Failing
      BY <2>1 DEF Begin, Judge, RecordFailure
    <3>2. CASE k = j
      BY <3>1, <3>2
    <3>3. CASE k # j
      BY <1>1, <2>1, <3>3 DEF Begin, Judge, RecordFailure, Flush, ResultType
    <3>4. QED
      BY <3>2, <3>3
  <2>2. CASE Complete(w, k)
    BY <1>1, <2>2 DEF Complete, CompleteJob, ResultType
  <2>3. CASE \/ Claim(w, k) \/ ClaimMiss(w, k) \/ CreateGrade(w, k) \/ HandOver(w, k) \/ UnknownError(w, k)
             \/ ConfigError(w, k) \/ InfraError(w, k) \/ ImportError(w, k)
    BY <2>3 DEF Claim, ClaimMiss, CreateGrade, HandOver, UnknownError,
                ConfigError, InfraError, ImportError, FailWith
  <2>4. QED
    BY <1>3, <2>1, <2>2, <2>3 DEF Process
<1>4. ASSUME NEW w \in Workers, NEW k \in Jobs, ScanRow(w, k) PROVE result'[j] = result[j]
  <2>1. CASE UNCHANGED result
    BY <2>1
  <2>2. CASE Exhaust(w, k) /\ result' = [result EXCEPT ![k] = SystemError]
    <3>1. row[k].gs = "pending"
      BY <2>2 DEF Exhaust, Hit, Matches
    <3>2. QED
      BY <1>1, <2>2, <3>1 DEF ResultType
  <2>3. QED
    BY <1>4, <2>1, <2>2 DEF ScanRow
<1>5. ASSUME NEW w \in Workers,
             \/ Pop(w) \/ Recover(w) \/ SkipRecovery(w) \/ ScanNext(w) \/ ScanEnd(w)
             \/ Restart(w) \/ Crash(w)
      PROVE  UNCHANGED result
  BY <1>5 DEF Pop, Recover, SkipRecovery, ScanNext, ScanEnd, Restart, Crash
<1>6. ASSUME NEW k \in Jobs, Create(k) \/ Enqueue(k) \/ RequestDies(k) \/ Tick(k) PROVE UNCHANGED result
  BY <1>6 DEF Create, Enqueue, RequestDies, Tick, others
<1>7. ASSUME Expire PROVE UNCHANGED result
  BY <1>7 DEF Expire, others
<1>8. CASE UNCHANGED vars
  BY <1>2, <1>8 DEF vars
<1> HIDE DEF Late
<1>9. QED
  BY <1>2, <1>3, <1>4, <1>5, <1>6, <1>7, <1>8 DEF Next, Step, Scan

\* However late runs, scans and requests are, a completed submission is not
\* judged again, and only an overtaken run that still holds the job can change
\* its result: the damage of stale_failure is all there is.
THEOREM DamageIsLate == Spec => OnlyLateRunsDamage
<1>1. SlowInv /\ [Next]_vars => [LateOnly]_vars
  BY LateStep
<1>2. QED
  BY <1>1, SlowInvariant, PTL DEF Spec, OnlyLateRunsDamage, LateOnly

\* While no actor is overtaken by the clock (Slow = {}), the scan takes a run away
\* only if it is overdue at that moment: what it listed holds until it comes to
\* the row, so that the guard lost with expire_all is not missed.  Overlapping
\* scans miss it (see fresh_reset): the lease and the thresholds carry this, not
\* the compare-and-swap.
THEOREM ResetsOnlyStale == ASSUME Slow = {} PROVE Spec => ResetOnlyStale
<1>1. ASSUME PromptInv, NEW w \in Workers, NEW j \in Jobs,
             ScanRow(w, j), row[j].gs = "running", row'[j].gs = "pending"
      PROVE  row[j].stale
  <2>1. row \in RowType /\ scan \in ScanType
    BY <1>1 DEF PromptInv, SlowInv, TypeInv, TypeOK, QueueTypeOK
  <2>2. ~RequeuePending(w, j)
    BY <1>1 DEF RequeuePending, EnqueueJob
  <2>3. ~Repush(w, j) /\ ~Exhaust(w, j)
    BY <1>1, <2>1 DEF Repush, Exhaust, SetState, RowType
  <2>4. ~ScanMiss(w, j)
    BY <1>1 DEF ScanMiss, queueVars
  <2>5. ResetRunning(w, j)
    BY <1>1, <2>2, <2>3, <2>4 DEF ScanRow
  <2>6. scan[w].phase = "running" /\ j \in scan[w].todo
    BY <2>5 DEF ResetRunning, Hit, Take
  <2>7. QED
    BY <1>1, <2>6 DEF PromptInv, ViewsAgree, ListsHold
<1>2. PromptInv /\ [Next]_vars
        => [\A w \in Workers, j \in Jobs :
              (ScanRow(w, j) /\ row[j].gs = "running" /\ row'[j].gs = "pending")
                => row[j].stale]_vars
  BY <1>1
<1>3. QED
  BY <1>2, PromptInvariant, PTL DEF Spec, ResetOnlyStale
=============================================================================
