----------------------------- MODULE JudgeQueue -----------------------------
(***************************************************************************)
(* The operations of services/judge_queue.py, shared by the pipelines that *)
(* grade assignment submissions and exam answers.  The database row is the *)
(* only source of truth; the Redis list only wakes a worker up.  Every     *)
(* operation is one conditional UPDATE (compare-and-swap on grading_status)*)
(* and is therefore one atomic step; the recovery scan is a list of such   *)
(* steps over rows it selected earlier.                                    *)
(*                                                                         *)
(* Time is abstracted to two flags of a row.  `old' is set when created_at *)
(* is more than 60 s in the past.  `stale' is set when the timestamp of    *)
(* the current state (queued_at, started_at) is older than its threshold,  *)
(* and every transition resets it.                                         *)
(*                                                                         *)
(* The scan guards its updates of queued and running rows with the         *)
(* timestamp its SELECT read, so that a row which has moved since is left  *)
(* alone: "still in that state and still stale".  The first update of a    *)
(* list, however, is followed by expire_all(), and the session reloads the *)
(* rows left in the list only when it comes to each of them.  From then on *)
(* (`held' is false) the guard compares the row with itself.               *)
(***************************************************************************)
EXTENDS Naturals, Sequences, FiniteSets

CONSTANTS Jobs,          \* rows that may be created
          Workers,       \* judge worker processes
          NoWorker,      \* owner of a lease nobody holds
          MaxAttempts,   \* MAX_ATTEMPTS
          MaxFaults,     \* bound: pushes that Redis loses
          MaxCopies      \* bound: wake-ups of one job waiting when time passes

ASSUME MaxAttemptsAssumption == MaxAttempts \in Nat \ {0}
ASSUME BoundsAssumption == MaxFaults \in Nat /\ MaxCopies \in Nat \ {0}
ASSUME NoWorkerAssumption == NoWorker \notin Workers

VARIABLES row,     \* row[j]: grading_status, attempt_count, the age flags
          queue,   \* the Redis list, rpush at the end
          faults,  \* pushes lost so far
          lease,   \* owner of the unexpired lease "grading-recovery"
          scan     \* scan[w]: phase of w's recovery scan, rows still listed,
           \*          whether the session holds the timestamps it listed

queueVars == <<row, queue, faults>>

States == {"absent", "pending", "queued", "running", "completed", "system_error"}
Phases == {"off", "pending", "exhausted", "queued", "running"}

NoScan == [phase |-> "off", todo |-> {}, held |-> FALSE]

RowType == [Jobs -> [gs : States, attempt : Nat, old : BOOLEAN, stale : BOOLEAN]]
ScanType == [Workers -> [phase : Phases, todo : SUBSET Jobs, held : BOOLEAN]]

QueueTypeOK ==
  /\ row \in RowType
  /\ queue \in Seq(Jobs)
  /\ faults \in 0..MaxFaults
  /\ lease \in Workers \cup {NoWorker}
  /\ scan \in ScanType

QueueInit ==
  /\ row = [j \in Jobs |-> [gs |-> "absent", attempt |-> 0, old |-> FALSE, stale |-> FALSE]]
  /\ queue = <<>>
  /\ faults = 0
  /\ lease = NoWorker
  /\ scan = [w \in Workers |-> NoScan]

\* UPDATE ... SET grading_status: the new state starts with a fresh timestamp.
SetState(j, to) == row' = [row EXCEPT ![j].gs = to, ![j].stale = FALSE]

\* rpush; when Redis fails, or the process dies first, the row stays queued.
Push(j) == \/ queue' = Append(queue, j) /\ UNCHANGED faults
           \/ faults < MaxFaults /\ faults' = faults + 1 /\ UNCHANGED queue

CreateRow(j) == row[j].gs = "absent" /\ SetState(j, "pending")

\* enqueue_job and _do_enqueue: the guard is grading_status alone.
EnqueueJob(j) ==
  /\ row[j].gs = "pending"
  /\ row' = [row EXCEPT ![j].gs = "queued", ![j].stale = FALSE, ![j].attempt = @ + 1]
  /\ Push(j)

\* Mutants: a claim that ignores other workers, or a finished grading.
ClaimAnyway(j) == row[j].gs \in {"queued", "running"} /\ SetState(j, "running")
ClaimAgain(j) == row[j].gs \in {"queued", "completed"} /\ SetState(j, "running")

ClaimJob(j) == row[j].gs = "queued" /\ SetState(j, "running")

CompleteJob(j) == row[j].gs = "running" /\ SetState(j, "completed")

\* Mutant: a failure that is not conditional on running.
FailAnyway(j, retryable) == SetState(j, IF retryable THEN "pending" ELSE "system_error")

\* Mutant: a run that broke down does not count, nor do those before it.
FailForgets(j, retryable) ==
  \/ /\ row[j].gs = "running"
     /\ row' = [row EXCEPT ![j].gs = IF retryable THEN "pending" ELSE "system_error",
                           ![j].stale = FALSE, ![j].attempt = IF retryable THEN 0 ELSE @]
  \/ row[j].gs # "running" /\ UNCHANGED row

FailJob(j, retryable) ==
  \/ /\ row[j].gs = "running"
     /\ SetState(j, IF retryable THEN "pending" ELSE "system_error")
  \/ row[j].gs # "running" /\ UNCHANGED row

-----------------------------------------------------------------------------
(* requeue_stale_jobs: four SELECTs, each followed by one UPDATE per row.   *)

\* Mutants: the pending list ignores the attempts; lost wake-ups are not listed.
ListedWithoutLimit(phase, eligible) ==
  {j \in eligible :
     \/ phase = "pending" /\ row[j].gs = "pending" /\ row[j].old
     \/ phase \in {"queued", "running"} /\ row[j].gs = phase /\ row[j].stale}
ListedWithoutQueued(phase, eligible) ==
  {j \in eligible :
     \/ phase = "pending"   /\ row[j].gs = "pending" /\ row[j].attempt < MaxAttempts /\ row[j].old
     \/ phase = "exhausted" /\ row[j].gs = "pending" /\ row[j].attempt >= MaxAttempts
     \/ phase = "running"   /\ row[j].gs = "running" /\ row[j].stale}

Listed(phase, eligible) ==
  {j \in eligible :
     \/ phase = "pending"   /\ row[j].gs = "pending" /\ row[j].attempt < MaxAttempts /\ row[j].old
     \/ phase = "exhausted" /\ row[j].gs = "pending" /\ row[j].attempt >= MaxAttempts
     \/ phase = "queued"    /\ row[j].gs = "queued"  /\ row[j].stale
     \/ phase = "running"   /\ row[j].gs = "running" /\ row[j].stale}

List(w, phase, eligible) ==
  scan' = [scan EXCEPT ![w] = [phase |-> phase, todo |-> Listed(phase, eligible), held |-> TRUE]]

\* The WHERE clause of the UPDATE of one row listed.
Matches(w, j) ==
  LET phase == scan[w].phase
  IN  \/ phase \in {"pending", "exhausted"} /\ row[j].gs = "pending"
      \/ phase \in {"queued", "running"} /\ row[j].gs = phase /\ (row[j].stale \/ ~scan[w].held)

SuccPhase == [pending |-> "exhausted", exhausted |-> "queued", queued |-> "running"]

\* try_acquire_lease("grading-recovery"): free, expired, or already ours.
LeaseAvailable(w) == lease \in {NoWorker, w}

StartScan(w, eligible) ==
  /\ LeaseAvailable(w)
  /\ lease' = w
  /\ List(w, "pending", eligible)
  /\ UNCHANGED queueVars

NextList(w, eligible) ==
  /\ scan[w].phase \in DOMAIN SuccPhase
  /\ scan[w].todo = {}
  /\ List(w, SuccPhase[scan[w].phase], eligible)
  /\ UNCHANGED <<queueVars, lease>>

EndScan(w) == /\ scan[w].phase = "running"
              /\ scan[w].todo = {}
              /\ scan' = [scan EXCEPT ![w] = NoScan]
              /\ UNCHANGED <<queueVars, lease>>

\* One row of the list: a hit commits and expires the session.
Take(w, j, hit) == /\ j \in scan[w].todo
                   /\ scan' = [scan EXCEPT ![w].todo = @ \ {j}, ![w].held = @ /\ ~hit]
                   /\ UNCHANGED lease

Hit(w, phase, j) == /\ scan[w].phase = phase
                    /\ Matches(w, j)
                    /\ Take(w, j, TRUE)

RequeuePending(w, j) == Hit(w, "pending", j) /\ EnqueueJob(j)

Exhaust(w, j) == /\ Hit(w, "exhausted", j)
                 /\ SetState(j, "system_error")
                 /\ UNCHANGED <<queue, faults>>

Repush(w, j) == /\ Hit(w, "queued", j)
                /\ SetState(j, "queued")
                /\ Push(j)

ResetRunning(w, j) == /\ Hit(w, "running", j)
                      /\ SetState(j, "pending")
                      /\ UNCHANGED <<queue, faults>>

\* rowcount = 0: another instance has moved the row since it was listed.
ScanMiss(w, j) == /\ ~Matches(w, j)
                  /\ Take(w, j, FALSE)
                  /\ UNCHANGED queueVars

-----------------------------------------------------------------------------
(* The clock.                                                               *)

Copies(j) == Cardinality({i \in DOMAIN queue : queue[i] = j})

AgeCreated(j) == /\ row[j].gs # "absent" /\ ~row[j].old
                 /\ row' = [row EXCEPT ![j].old = TRUE]
                 /\ UNCHANGED <<queue, faults, lease, scan>>

AgeQueued(j) == /\ row[j].gs = "queued" /\ ~row[j].stale
                /\ Copies(j) < MaxCopies
                /\ row' = [row EXCEPT ![j].stale = TRUE]
                /\ UNCHANGED <<queue, faults, lease, scan>>

AgeRunning(j) == /\ row[j].gs = "running" /\ ~row[j].stale
                 /\ row' = [row EXCEPT ![j].stale = TRUE]
                 /\ UNCHANGED <<queue, faults, lease, scan>>

LeaseExpires == /\ lease # NoWorker
                /\ lease' = NoWorker
                /\ UNCHANGED <<queueVars, scan>>
=============================================================================
