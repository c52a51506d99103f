------------------------------ MODULE AIQueue ------------------------------
(***************************************************************************)
(* The operations of services/ai_grading_queue.py on the status of a       *)
(* CodeGrade.  As in JudgeQueue the row is the source of truth, the Redis  *)
(* list only wakes the AI worker up, and every operation is one conditional*)
(* UPDATE.  Three things differ from the judge's queue:                    *)
(*   - an attempt is counted when the grade is claimed, not when it is     *)
(*     enqueued, and the recovery scan never gives a grade up;             *)
(*   - pending grades are listed and guarded by created_at (`old'), the    *)
(*     others by the timestamp of their state (`stale');                   *)
(*   - a hit of the scan leaves the session as it is, but a miss rolls     *)
(*     back, which expires it: the timestamps of the rows still listed are *)
(*     read again (`held' is false) and guard nothing.                     *)
(***************************************************************************)
EXTENDS Naturals, Sequences, FiniteSets

CONSTANTS Grades,       \* CodeGrades that may be created
          Scanners,     \* judge workers, which run the recovery
          NoScanner,    \* owner of a lease nobody holds
          MaxAIAttempts,  \* max_attempts of fail_ai_grade
          MaxAIFaults,    \* bound: pushes that Redis loses
          MaxAICopies     \* bound: wake-ups of one grade waiting when time passes

ASSUME AIQueueAssumption == /\ MaxAIAttempts \in Nat \ {0} /\ MaxAIFaults \in Nat
                            /\ MaxAICopies \in Nat \ {0}
                            /\ NoScanner \notin Scanners

VARIABLES cg,       \* cg[g]: status, attempt_count, the age flags
          aiQueue,  \* the Redis list
          lost,     \* pushes lost so far
          aiLease,    \* owner of the unexpired lease "grading-recovery"
          aiScan      \* scan[s]: phase of the scan, rows left, timestamps held

aiVars == <<cg, aiQueue, lost>>

GradeStatuses == {"none", "pending", "queued", "running", "completed", "review_required"}
AIPhases == {"off", "running", "queued", "pending"}
NoAIScan == [phase |-> "off", todo |-> {}, held |-> FALSE]

GradeRow == [status : GradeStatuses, attempt : Nat, old : BOOLEAN, stale : BOOLEAN]
CodeGradeType == [Grades -> GradeRow]
AIScanType == [Scanners -> [phase : AIPhases, todo : SUBSET Grades, held : BOOLEAN]]

AIQueueTypeOK ==
  /\ cg \in CodeGradeType
  /\ aiQueue \in Seq(Grades)
  /\ lost \in 0..MaxAIFaults
  /\ aiLease \in Scanners \cup {NoScanner}
  /\ aiScan \in AIScanType

AIQueueInit ==
  /\ cg = [g \in Grades |-> [status |-> "none", attempt |-> 0, old |-> FALSE, stale |-> FALSE]]
  /\ aiQueue = <<>> /\ lost = 0 /\ aiLease = NoScanner
  /\ aiScan = [s \in Scanners |-> NoAIScan]

Moved(r, to) == [r EXCEPT !.status = to, !.stale = FALSE]
SetStatus(g, to) == cg' = [cg EXCEPT ![g] = Moved(@, to)]

PushGrade(g) == \/ aiQueue' = Append(aiQueue, g) /\ UNCHANGED lost
                \/ lost < MaxAIFaults /\ lost' = lost + 1 /\ UNCHANGED aiQueue

EnqueueAIGrade(g) == \/ cg[g].status = "pending" /\ SetStatus(g, "queued") /\ PushGrade(g)
                     \/ cg[g].status # "pending" /\ UNCHANGED aiVars

Claimed(r) == [Moved(r, "running") EXCEPT !.attempt = r.attempt + 1]

\* Mutant: a grade that is already being graded may be claimed.
ClaimAnyGrade(g) == /\ cg[g].status \in {"queued", "running"}
                    /\ cg' = [cg EXCEPT ![g] = Claimed(@)]
                    /\ UNCHANGED <<aiQueue, lost>>

ClaimAIGrade(g) == /\ cg[g].status = "queued"
                   /\ cg' = [cg EXCEPT ![g] = Claimed(@)]
                   /\ UNCHANGED <<aiQueue, lost>>

\* Mutant: retries without a limit.
FailWithoutLimit(g, retryable) ==
  \/ /\ cg[g].status = "running"
     /\ IF retryable THEN SetStatus(g, "queued") /\ PushGrade(g)
                     ELSE SetStatus(g, "review_required") /\ UNCHANGED <<aiQueue, lost>>
  \/ cg[g].status # "running" /\ UNCHANGED aiVars

\* Mutant: a permanent failure gets the status the judge uses for its own.
FailLikeTheJudge(g, retryable) ==
  \/ /\ cg[g].status = "running"
     /\ IF retryable /\ cg[g].attempt < MaxAIAttempts
          THEN SetStatus(g, "queued") /\ PushGrade(g)
          ELSE SetStatus(g, "system_error") /\ UNCHANGED <<aiQueue, lost>>
  \/ cg[g].status # "running" /\ UNCHANGED aiVars

\* The read of attempt_count and the UPDATE follow each other without a commit.
FailAIGrade(g, retryable) ==
  \/ /\ cg[g].status = "running"
     /\ IF retryable /\ cg[g].attempt < MaxAIAttempts
          THEN SetStatus(g, "queued") /\ PushGrade(g)
          ELSE SetStatus(g, "review_required") /\ UNCHANGED <<aiQueue, lost>>
  \/ cg[g].status # "running" /\ UNCHANGED aiVars

-----------------------------------------------------------------------------
(* recover_stale_ai_grades                                                  *)

\* Mutant: queued grades whose wake-up was lost are not listed.
ListedGradesWithoutQueued(phase) ==
  {g \in Grades : /\ cg[g].status = phase /\ phase # "queued"
                  /\ IF phase = "pending" THEN cg[g].old ELSE cg[g].stale}

ListedGrades(phase) ==
  {g \in Grades : /\ cg[g].status = phase
                  /\ IF phase = "pending" THEN cg[g].old ELSE cg[g].stale}

ListGrades(s, phase) == aiScan' = [aiScan EXCEPT ![s] = [phase |-> phase, todo |-> ListedGrades(phase), held |-> TRUE]]

GradeMatches(s, g) ==
  /\ cg[g].status = aiScan[s].phase
  /\ IF aiScan[s].phase = "pending" THEN cg[g].old ELSE cg[g].stale \/ ~aiScan[s].held

SuccAIPhase == [running |-> "queued", queued |-> "pending"]

StartAIScan(s) == /\ aiScan[s].phase = "off"
                  /\ aiLease \in {NoScanner, s}
                  /\ aiLease' = s
                  /\ ListGrades(s, "running")
                  /\ UNCHANGED aiVars

NextGradeList(s) == /\ aiScan[s].phase \in DOMAIN SuccAIPhase /\ aiScan[s].todo = {}
                    /\ ListGrades(s, SuccAIPhase[aiScan[s].phase])
                    /\ UNCHANGED <<aiVars, aiLease>>

EndAIScan(s) == /\ aiScan[s].phase = "pending" /\ aiScan[s].todo = {}
                /\ aiScan' = [aiScan EXCEPT ![s] = NoAIScan]
                /\ UNCHANGED <<aiVars, aiLease>>

\* In each of the three lists a hit makes the row queued and pushes it.
RecoverRow(s, g) == /\ g \in aiScan[s].todo /\ GradeMatches(s, g)
                    /\ SetStatus(g, "queued")
                    /\ PushGrade(g)
                    /\ aiScan' = [aiScan EXCEPT ![s].todo = @ \ {g}]
                    /\ UNCHANGED aiLease

SkipRow(s, g) == /\ g \in aiScan[s].todo /\ ~GradeMatches(s, g)
                 /\ aiScan' = [aiScan EXCEPT ![s].todo = @ \ {g}, ![s].held = FALSE]
                 /\ UNCHANGED <<aiVars, aiLease>>

-----------------------------------------------------------------------------
(* The clock.                                                               *)

GradeCopies(g) == Cardinality({i \in DOMAIN aiQueue : aiQueue[i] = g})

Age(g, flag) == /\ ~cg[g][flag]
                /\ cg' = [cg EXCEPT ![g][flag] = TRUE]
                /\ UNCHANGED <<aiQueue, lost, aiLease, aiScan>>

AgeGradeCreated(g) == cg[g].status # "none" /\ Age(g, "old")
AgeGradeQueued(g)  == cg[g].status = "queued" /\ GradeCopies(g) < MaxAICopies /\ Age(g, "stale")
AgeGradeRunning(g) == cg[g].status = "running" /\ Age(g, "stale")

AILeaseExpires == aiLease # NoScanner /\ aiLease' = NoScanner /\ UNCHANGED <<aiVars, aiScan>>
=============================================================================
