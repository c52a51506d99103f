-------------------------- MODULE AssignmentJudge --------------------------
(***************************************************************************)
(* The grading of assignment submissions: the API that accepts one         *)
(* (api/judge.py), the judge workers (worker/judge_worker.py), and the     *)
(* recovery scan the workers run between jobs.  One action per database    *)
(* commit, since another process may act between any two commits.          *)
(*                                                                         *)
(* result[j] is what the student's page polls: Submission.status and       *)
(* Submission.score.  It is written by the ORM, without a guard; only      *)
(* grading_status (JudgeQueue!row) is moved by compare-and-swap.           *)
(*                                                                         *)
(* The consumer of the AI queue is outside this module: a CodeGrade that   *)
(* reaches "queued" has been handed over.                                  *)
(***************************************************************************)
EXTENDS JudgeQueue, SequencesExt

CONSTANTS Mode,        \* Mode[j]: grading_mode of j's question
          Slow,        \* which actors the clock may overtake (see Time)
          MaxCrashes   \* bound: process deaths

ASSUME ModeAssumption == Mode \in [Jobs -> {"legacy", "shadow", "active"}]
ASSUME SlowAssumption == Slow \subseteq {"api", "worker", "scan"}
ASSUME CrashAssumption == MaxCrashes \in Nat

VARIABLES result,   \* result[j]: status and score of the submission
          grade,    \* grade[j]: the CodeGrade of j, if any
          request,  \* request[j]: the POST /submissions call that creates j
          worker,   \* worker[w]: program counter, job in hand, loaded result
          crashes   \* deaths so far

vars == <<row, queue, faults, lease, scan, result, grade, request, worker, crashes>>

Scores == {"none", "zero", "full"}
Verdicts == {[status |-> "accepted", score |-> "full"], [status |-> "rejected", score |-> "zero"]}
SystemError == [status |-> "system_error", score |-> "none"]
Statuses == {"queued", "running", "accepted", "rejected", "system_error"}

\* What the session holds of the row after expire_all: nothing.
Expired == [status |-> "expired", score |-> "expired"]

PCs == {"down", "boot", "idle", "popped", "claimed", "judging", "verdict",
        "graded", "hand_over", "fail_system", "fail_student", "scanning"}

\* Steps at which the worker believes that it owns the job.
Owning == {"claimed", "judging", "verdict"}
\* Steps between fail_job and the ORM write that follows it.
Failing == {"fail_system", "fail_student"}

Idle == [pc |-> "idle", job |-> {}, seen |-> Expired]
Has(w, j) == worker[w].job = {j}

Results == [status : Statuses, score : Scores]
Seen == [status : Statuses \cup {"expired"}, score : Scores \cup {"expired"}]

ResultType == [Jobs -> Results]
GradeType == [Jobs -> [status : {"none", "pending", "queued"}, stale : BOOLEAN]]
RequestType == [Jobs -> {"none", "created", "done"}]
WorkerType == [Workers -> [pc : PCs, job : {{}} \cup {{j} : j \in Jobs}, seen : Seen]]

TypeOK == /\ QueueTypeOK
          /\ result \in ResultType
          /\ grade \in GradeType
          /\ request \in RequestType
          /\ worker \in WorkerType
          /\ crashes \in 0..MaxCrashes

Init == /\ QueueInit
        /\ result = [j \in Jobs |-> [status |-> "queued", score |-> "none"]]
        /\ grade = [j \in Jobs |-> [status |-> "none", stale |-> FALSE]]
        /\ request = [j \in Jobs |-> "none"]
        /\ worker = [w \in Workers |-> [Idle EXCEPT !.pc = "boot"]]
        /\ crashes = 0

Goto(w, pc) == worker' = [worker EXCEPT ![w].pc = pc]
Finish(w) == worker' = [worker EXCEPT ![w] = Idle]

\* commit() of an ORM object: a column is written only if it differs from the
\* value the session loaded.
Flush(w, j, new) ==
  result' = [result EXCEPT ![j] =
    [status |-> IF new.status # worker[w].seen.status THEN new.status ELSE @.status,
     score  |-> IF new.score  # worker[w].seen.score  THEN new.score  ELSE @.score]]

-----------------------------------------------------------------------------
(* create_submission: commit the row, then enqueue_job.                     *)

Create(j) == /\ CreateRow(j)
             /\ request' = [request EXCEPT ![j] = "created"]
             /\ UNCHANGED <<queue, faults, lease, scan, result, grade, worker, crashes>>

Enqueue(j) == /\ request[j] = "created"
              /\ \/ EnqueueJob(j)
                 \/ row[j].gs # "pending" /\ UNCHANGED queueVars
              /\ request' = [request EXCEPT ![j] = "done"]
              /\ UNCHANGED <<lease, scan, result, grade, worker, crashes>>

RequestDies(j) == /\ request[j] = "created"
                  /\ crashes < MaxCrashes
                  /\ crashes' = crashes + 1
                  /\ request' = [request EXCEPT ![j] = "done"]
                  /\ UNCHANGED <<row, queue, faults, lease, scan, result, grade, worker>>

-----------------------------------------------------------------------------
(* run_worker_loop and process_submission.                                  *)

\* brpop takes the end rpush appends to.
Pop(w) == /\ worker[w].pc = "idle"
          /\ queue # <<>>
          /\ worker' = [worker EXCEPT ![w] = [pc |-> "popped", job |-> {Last(queue)}, seen |-> Expired]]
          /\ queue' = Front(queue)
          /\ UNCHANGED <<row, faults, lease, scan, result, grade, request, crashes>>

\* Time: unless workers may be overtaken, the ORM write that follows fail_job
\* lands before another worker has picked the job up again.
Settled(w, j) == "worker" \in Slow \/ \A v \in Workers \ {w} : ~(Has(v, j) /\ worker[v].pc \in Failing)

Claim(w, j) == /\ worker[w].pc = "popped" /\ Has(w, j)
               /\ Settled(w, j)
               /\ ClaimJob(j)
               /\ worker' = [worker EXCEPT ![w].pc = "claimed", ![w].seen = result[j]]
               /\ UNCHANGED <<queue, faults, lease, scan, result, grade, request, crashes>>

\* Already completed, already claimed, or a duplicate wake-up.
ClaimMiss(w, j) == /\ worker[w].pc = "popped" /\ Has(w, j)
                   /\ row[j].gs # "queued"
                   /\ Finish(w)
                   /\ UNCHANGED <<row, queue, faults, lease, scan, result, grade, request, crashes>>

\* submission.status = "running"; commit.
Begin(w, j) == /\ worker[w].pc = "claimed" /\ Has(w, j)
               /\ LET new == [worker[w].seen EXCEPT !.status = "running"]
                  IN  /\ Flush(w, j, new)
                      /\ worker' = [worker EXCEPT ![w].pc = "judging", ![w].seen = new]
               /\ UNCHANGED <<row, queue, faults, lease, scan, grade, request, crashes>>

\* fail_job commits (or misses) and expires the session; the ORM write follows.
FailWith(w, j, retryable, pc) ==
  /\ Has(w, j)
  /\ FailJob(j, retryable)
  /\ worker' = [worker EXCEPT ![w].pc = pc, ![w].seen = Expired]
  /\ UNCHANGED <<queue, faults, lease, scan, result, grade, request, crashes>>

\* The question is gone, or its grading configuration is incomplete.
ConfigError(w, j)  == worker[w].pc \in {"claimed", "judging"} /\ FailWith(w, j, FALSE, "fail_system")
\* Docker, the environment image or the test run broke down.
InfraError(w, j)   == worker[w].pc = "judging" /\ FailWith(w, j, TRUE, "fail_system")
\* The student's code imports what the policy forbids.
ImportError(w, j)  == worker[w].pc = "judging" /\ FailWith(w, j, FALSE, "fail_student")

RecordFailure(w, j) ==
  /\ worker[w].pc \in Failing /\ Has(w, j)
  /\ Flush(w, j, IF worker[w].pc = "fail_system" THEN SystemError
                 ELSE [status |-> "rejected", score |-> "zero"])
  /\ Finish(w)
  /\ UNCHANGED <<row, queue, faults, lease, scan, grade, request, crashes>>

\* Legacy and shadow write the tests' verdict, active leaves it to the AI.
Outcomes(j) == IF Mode[j] = "active" THEN {[status |-> "running", score |-> "none"]} ELSE Verdicts

\* Mutants: the verdict is not committed; the CodeGrade comes before complete_job.
JudgeUncommitted(w, j) == /\ worker[w].pc = "judging" /\ Has(w, j)
                          /\ Goto(w, "verdict")
                          /\ UNCHANGED <<row, queue, faults, lease, scan, result, grade, request, crashes>>
JudgeGradesFirst(w, j) == /\ worker[w].pc = "judging" /\ Has(w, j)
                          /\ Goto(w, "graded")
                          /\ UNCHANGED <<row, queue, faults, lease, scan, result, grade, request, crashes>>

Judge(w, j) == /\ worker[w].pc = "judging" /\ Has(w, j)
               /\ \E new \in Outcomes(j) :
                    /\ Flush(w, j, new)
                    /\ worker' = [worker EXCEPT ![w].pc = "verdict", ![w].seen = new]
               /\ UNCHANGED <<row, queue, faults, lease, scan, grade, request, crashes>>

\* complete_job; only the legacy path passes the score along.
Complete(w, j) ==
  /\ worker[w].pc = "verdict" /\ Has(w, j)
  /\ \/ /\ CompleteJob(j)
        /\ result' = IF Mode[j] = "legacy" THEN [result EXCEPT ![j].score = worker[w].seen.score] ELSE result
     \/ row[j].gs # "running" /\ UNCHANGED <<row, result>>
  /\ IF Mode[j] = "legacy" THEN Finish(w) ELSE Goto(w, "graded")
  /\ UNCHANGED <<queue, faults, lease, scan, grade, request, crashes>>

CreateGrade(w, j) ==
  /\ worker[w].pc = "graded" /\ Has(w, j)
  /\ IF grade[j].status = "none"
       THEN grade' = [grade EXCEPT ![j].status = "pending"] /\ Goto(w, "hand_over")
       ELSE UNCHANGED grade /\ Finish(w)
  /\ UNCHANGED <<row, queue, faults, lease, scan, result, request, crashes>>

\* enqueue_ai_grade.
HandOver(w, j) ==
  /\ worker[w].pc = "hand_over" /\ Has(w, j)
  /\ grade' = [grade EXCEPT ![j] = IF @.status = "pending" THEN [status |-> "queued", stale |-> FALSE] ELSE @]
  /\ Finish(w)
  /\ UNCHANGED <<row, queue, faults, lease, scan, result, request, crashes>>

\* The last except clause: fail_job(retryable), the result is left as it is.
UnknownError(w, j) ==
  /\ worker[w].pc \in Owning \cup Failing \cup {"graded", "hand_over"} /\ Has(w, j)
  /\ FailJob(j, TRUE)
  /\ Finish(w)
  /\ UNCHANGED <<queue, faults, lease, scan, result, grade, request, crashes>>

-----------------------------------------------------------------------------
(* _recover_stale, at startup and when brpop times out on an empty queue.   *)

Recover(w) == /\ \/ worker[w].pc = "boot"
                 \/ worker[w].pc = "idle" /\ queue = <<>>
              /\ StartScan(w, Jobs)
              /\ Goto(w, "scanning")
              /\ UNCHANGED <<result, grade, request, crashes>>

\* Another instance holds the lease: no recovery at startup.
SkipRecovery(w) == /\ worker[w].pc = "boot"
                   /\ ~LeaseAvailable(w)
                   /\ Goto(w, "idle")
                   /\ UNCHANGED <<row, queue, faults, lease, scan, result, grade, request, crashes>>

\* Mutant: the scan does not look whether its update hit the row.
ScanRowUnchecked(w, j) ==
  /\ worker[w].pc = "scanning"
  /\ \/ (RequeuePending(w, j) \/ Repush(w, j) \/ ResetRunning(w, j) \/ ScanMiss(w, j))
        /\ result' = IF scan[w].phase = "exhausted" THEN [result EXCEPT ![j] = SystemError] ELSE result
     \/ Exhaust(w, j) /\ result' = [result EXCEPT ![j] = SystemError]
  /\ UNCHANGED <<grade, request, worker, crashes>>

ScanRow(w, j) ==
  /\ worker[w].pc = "scanning"
  /\ \/ (RequeuePending(w, j) \/ Repush(w, j) \/ ResetRunning(w, j) \/ ScanMiss(w, j)) /\ UNCHANGED result
     \/ Exhaust(w, j) /\ result' = [result EXCEPT ![j] = SystemError]
  /\ UNCHANGED <<grade, request, worker, crashes>>

ScanNext(w) == /\ worker[w].pc = "scanning"
               /\ NextList(w, Jobs)
               /\ UNCHANGED <<result, grade, request, worker, crashes>>

\* Mutant: the scan forgets the AI queue.
ScanEndJudgeOnly(w) == /\ worker[w].pc = "scanning"
                       /\ EndScan(w)
                       /\ Goto(w, "idle")
                       /\ UNCHANGED <<result, grade, request, crashes>>

\* recover_stale_ai_grades, as far as a pending CodeGrade is concerned.
ScanEnd(w) == /\ worker[w].pc = "scanning"
              /\ EndScan(w)
              /\ grade' = [j \in Jobs |-> IF grade[j].stale THEN [status |-> "queued", stale |-> FALSE]
                                                            ELSE grade[j]]
              /\ Goto(w, "idle")
              /\ UNCHANGED <<result, request, crashes>>

Crash(w) == /\ worker[w].pc # "down"
            /\ crashes < MaxCrashes
            /\ crashes' = crashes + 1
            /\ worker' = [worker EXCEPT ![w] = [Idle EXCEPT !.pc = "down"]]
            /\ scan' = [scan EXCEPT ![w] = NoScan]
            /\ UNCHANGED <<row, queue, faults, lease, result, grade, request>>

Restart(w) == /\ worker[w].pc = "down"
              /\ Goto(w, "boot")
              /\ UNCHANGED <<row, queue, faults, lease, scan, result, grade, request, crashes>>

-----------------------------------------------------------------------------
(* Time.  Without "worker" in Slow no threshold elapses while a live worker *)
(* owns the job, without "scan" the lease outlives the scan it protects,    *)
(* without "api" a request enqueues within 60 s of the commit.              *)

Owned(j) == \E w \in Workers : Has(w, j) /\ worker[w].pc \in Owning
others == <<result, grade, request, worker, crashes>>

Tick(j) == \/ ("api" \in Slow \/ request[j] = "done") /\ AgeCreated(j) /\ UNCHANGED others
           \/ AgeQueued(j) /\ UNCHANGED others
           \/ ("worker" \in Slow \/ ~Owned(j)) /\ AgeRunning(j) /\ UNCHANGED others
           \/ /\ grade[j].status = "pending" /\ ~grade[j].stale
              /\ grade' = [grade EXCEPT ![j].stale = TRUE]
              /\ UNCHANGED <<row, queue, faults, lease, scan, result, request, worker, crashes>>

Expire == /\ "scan" \in Slow \/ (\A w \in Workers : scan[w].phase = "off")
          /\ LeaseExpires
          /\ UNCHANGED others

-----------------------------------------------------------------------------

Process(w, j) == \/ Claim(w, j) \/ ClaimMiss(w, j) \/ Begin(w, j)
                 \/ ConfigError(w, j) \/ InfraError(w, j) \/ ImportError(w, j) \/ RecordFailure(w, j)
                 \/ Judge(w, j) \/ Complete(w, j) \/ CreateGrade(w, j) \/ HandOver(w, j)
                 \/ UnknownError(w, j)

Scan(w) == \/ Recover(w) \/ SkipRecovery(w) \/ ScanNext(w) \/ ScanEnd(w)
           \/ \E j \in Jobs : ScanRow(w, j)

Step(w) == Pop(w) \/ Scan(w) \/ Restart(w) \/ \E j \in Jobs : Process(w, j)

Next == \/ \E j \in Jobs : Create(j) \/ Enqueue(j) \/ RequestDies(j) \/ Tick(j)
        \/ \E w \in Workers : Step(w) \/ Crash(w)
        \/ Expire

Spec == Init /\ [][Next]_vars

-----------------------------------------------------------------------------
(* Properties.                                                              *)

\* Two workers never both believe that they run the same submission, in spite
\* of duplicate wake-ups, crashes and the recovery scan, as long as no run
\* outlives the 300 s after which the scan takes the job away.
SingleOwner ==
  \A v, w \in Workers, j \in Jobs :
    (v # w /\ Has(v, j) /\ Has(w, j)) => ~(worker[v].pc \in Owning /\ worker[w].pc \in Owning)

\* MAX_ATTEMPTS bounds the runs of a submission.
AttemptsBounded == \A j \in Jobs : row[j].attempt <= MaxAttempts

\* Scans that overlap can each spend one attempt they listed before the limit
\* was reached, and so can a late request: the overrun is bounded.
OverrunBounded == \A j \in Jobs : row[j].attempt <= MaxAttempts + Cardinality(Workers)

\* A recovery scan takes a run away from its worker only if the run is overdue
\* at that moment, not merely when the scan selected it: the compare-and-swap on
\* started_at that requeue_stale_jobs announces ("started_at has not changed").
\* The code keeps to it for the first row that a list updates; see fresh_reset.
ResetOnlyStale ==
  [][\A w \in Workers, j \in Jobs : (ScanRow(w, j) /\ row[j].gs = "running" /\ row'[j].gs = "pending")
                                     => row[j].stale]_vars

\* A submission whose tests were run keeps the verdict of these tests: nobody
\* replaces it by an infrastructure error afterwards (fail_job's promise).
VerdictKept ==
  \A j \in Jobs : (row[j].gs = "completed" /\ Mode[j] # "active") => result[j] \in Verdicts

\* A system error is never counted as a score.
SystemErrorUnscored == \A j \in Jobs : result[j].status = "system_error" => result[j].score = "none"

\* The AI is asked only about a submission whose tests have been run to the end.
GradeAfterCompletion == \A j \in Jobs : grade[j].status # "none" => row[j].gs = "completed"

\* Once the tests of a submission are completed, they are not run again and
\* their verdict does not change, whatever wake-ups, scans, crashes and other
\* workers come after.  A run that outlives its threshold breaks this (see
\* stale_failure), so that it is checked and proved with Slow = {}.
VerdictFinal ==
  [][\A j \in Jobs : (row[j].gs = "completed" /\ Mode[j] # "active")
                        => (row'[j].gs = "completed" /\ result'[j] = result[j])]_vars

\* However slow the actors are, a completed submission is not judged again, and
\* nobody changes its result but a run that was overtaken and still takes the
\* job for its own: no scan, wake-up, request or crash, and no AI hand-over.
OnlyLateRunsDamage ==
  [][\A j \in Jobs : row[j].gs = "completed" =>
       /\ row'[j].gs = "completed"
       /\ result'[j] # result[j] =>
            \E w \in Workers : Has(w, j) /\ worker[w].pc \in {"claimed", "judging"} \cup Failing]_vars

\* The judge owes a result or a hand-over to the AI, and owes none: a submission
\* accepted by the API is graded or given up, a pending CodeGrade is in the AI queue.
JudgeWaits == \E j \in Jobs : row[j].gs = "pending" \/ grade[j].status = "pending"
JudgeDone == \A j \in Jobs : /\ row[j].gs \in {"absent", "completed", "system_error"}
                             /\ grade[j].status # "pending"

\* grading_status behaves as the queue module promises (GradingJob).
Lifecycle == INSTANCE GradingJob
  WITH job <- [j \in Jobs |-> [gs |-> row[j].gs, attempt |-> row[j].attempt]]
Refinement == Lifecycle!Spec
=============================================================================
