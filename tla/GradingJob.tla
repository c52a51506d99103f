----------------------------- MODULE GradingJob -----------------------------
(***************************************************************************)
(* What services/judge_queue.py promises about one grading job, whatever   *)
(* the workers, the Redis list and the recovery scan do: the lifecycle of  *)
(* the column grading_status, with its attempt counter.                    *)
(*                                                                         *)
(*   absent -> pending -> queued -> running -> completed                   *)
(*                ^                    |                                   *)
(*                +---- retryable -----+---- permanent ---> system_error   *)
(*                +---- attempts used up -----------------> system_error   *)
(*                                                                         *)
(* A detailed module (AssignmentJudge) is shown to implement it.           *)
(***************************************************************************)
EXTENDS Naturals

CONSTANTS Jobs,          \* the submissions that may be handed in
          MaxAttempts    \* MAX_ATTEMPTS

VARIABLE job             \* job[j]: grading_status and attempt_count

States == {"absent", "pending", "queued", "running", "completed", "system_error"}

TypeOK == job \in [Jobs -> [gs : States, attempt : Nat]]

Init == job = [j \in Jobs |-> [gs |-> "absent", attempt |-> 0]]

Move(j, from, to) == /\ job[j].gs = from
                     /\ job' = [job EXCEPT ![j].gs = to]

Submit(j)   == Move(j, "absent", "pending")
Claim(j)    == Move(j, "queued", "running")
Complete(j) == Move(j, "running", "completed")
Retry(j)    == Move(j, "running", "pending")
Fail(j)     == Move(j, "running", "system_error")

\* The only transition that spends an attempt.
Enqueue(j) == /\ job[j].gs = "pending"
              /\ job' = [job EXCEPT ![j].gs = "queued", ![j].attempt = @ + 1]

\* Giving up without a run is allowed only when the attempts are used up.
Exhaust(j) == /\ job[j].attempt >= MaxAttempts
              /\ Move(j, "pending", "system_error")

Next == \E j \in Jobs : \/ Submit(j) \/ Enqueue(j) \/ Claim(j) \/ Complete(j)
                        \/ Retry(j)  \/ Fail(j)    \/ Exhaust(j)

Spec == Init /\ [][Next]_job
=============================================================================
