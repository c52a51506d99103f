------------------------ MODULE AssignmentJudgeInv ------------------------
(***************************************************************************)
(* The inductive invariants of AssignmentJudge.  TLC checks them on the    *)
(* small instances; AssignmentJudgeProofs proves them in general.          *)
(***************************************************************************)
EXTENDS AssignmentJudge

(***************************************************************************)
(* Whatever is slow.  TypeOK alone is not inductive: complete_job writes   *)
(* the score the session holds, so that a step needs to know that the      *)
(* session of a worker that owns a job holds a real row.                   *)
(***************************************************************************)
Loaded == \A w \in Workers : worker[w].pc \in Owning => worker[w].seen \in Results

TypeInv == TypeOK /\ Loaded

\* The scan tests attempt_count when it lists a row, not when it gives it up.
Exhaustible ==
  \A w \in Workers : scan[w].phase = "exhausted" =>
    \A j \in scan[w].todo : row[j].attempt >= MaxAttempts

\* Every step moves one row along an edge of the lifecycle, in spite of the
\* lists, the loaded sessions and the wake-ups that lag behind the rows.
SlowInv == TypeInv /\ Exhaustible

-----------------------------------------------------------------------------
(***************************************************************************)
(* When no actor is overtaken by the clock (Slow = {}).                    *)
(***************************************************************************)

\* A request that has not enqueued its submission yet is the first to move it.
RequestFirst ==
  \A j \in Jobs :
    /\ row[j].gs = "absent" => row[j].attempt = 0 /\ ~row[j].old /\ request[j] # "created"
    /\ request[j] = "created" => row[j].gs = "pending" /\ row[j].attempt = 0 /\ ~row[j].old

\* The lease admits one scan at a time.
OneScanner == \A w \in Workers : scan[w].phase # "off" => lease = w

\* What the scan listed is still so when it comes to the row.
ListsHold ==
  \A w \in Workers : \A j \in scan[w].todo :
    /\ scan[w].phase = "pending" => row[j].old /\ row[j].attempt < MaxAttempts
    /\ scan[w].phase = "running" => /\ request[j] # "created"
                                    /\ row[j].gs \notin {"absent", "queued"}
                                    /\ row[j].gs = "running" => row[j].stale

\* Where the row of the job in a worker's hand is.
OwnersRun ==
  \A w \in Workers, j \in Jobs : Has(w, j) =>
    /\ worker[w].pc \in Owning => row[j].gs = "running" /\ ~row[j].stale
    /\ worker[w].pc \in {"graded", "hand_over"} => row[j].gs = "completed"
    /\ worker[w].pc \in Failing => row[j].gs \in {"pending", "queued", "system_error"}

\* What its session holds of that row.
SessionsCurrent ==
  \A w \in Workers, j \in Jobs : Has(w, j) =>
    /\ worker[w].pc \in Owning => worker[w].seen = result[j]
    /\ worker[w].pc = "verdict" /\ Mode[j] # "active" => worker[w].seen \in Verdicts
    /\ worker[w].pc \in Failing => worker[w].seen = Expired

OnlyPendingGradesAge == \A j \in Jobs : grade[j].stale => grade[j].status = "pending"

\* Each actor's view of a row - the request's, the scan's list, the worker's
\* session - agrees with the row, so that the unguarded writes are harmless.
ViewsAgree ==
  /\ RequestFirst /\ OneScanner /\ ListsHold
  /\ OwnersRun /\ SessionsCurrent /\ OnlyPendingGradesAge

PromptInv == /\ SlowInv /\ ViewsAgree
             /\ SingleOwner /\ AttemptsBounded
             /\ VerdictKept /\ SystemErrorUnscored /\ GradeAfterCompletion
=============================================================================
