----------------------------- MODULE MCGrading -----------------------------
(* The judge and the AI side by side, for TLC.  The two models share no    *)
(* state; a behaviour picks one and the other stands still.                *)
EXTENDS MCAIGrading, MCAssignmentJudge

VARIABLE part

ActiveJobs == [j \in Jobs |-> "active"]
AllSlow == {"api", "worker", "scan"}

gradingVars == <<part, aiGradingVars, vars>>

GradingInit == part \in {"judge", "ai"} /\ AIInit /\ Init

GradingNext ==
  /\ UNCHANGED part
  /\ IF part = "ai"    THEN AINext ELSE UNCHANGED aiGradingVars
  /\ IF part = "judge" THEN Next   ELSE UNCHANGED vars

GradingSpec == GradingInit /\ [][GradingNext]_gradingVars

\* Processes that are up keep running, the supervisor restarts one that died,
\* requests in progress are answered and time passes, in the part that moves.
\* Submissions, requests of teachers, crashes and faults are never required.
FairAI ==
  /\ \A w \in AIWorkers : WF_aiGradingVars(part = "ai" /\ AIStep(w))
  /\ \A s \in Scanners : WF_aiGradingVars(part = "ai" /\ Recovery(s))
  /\ \A t \in Teachers : WF_aiGradingVars(part = "ai" /\ Serve(t))
  /\ \A g \in Grades : /\ WF_aiGradingVars(part = "ai" /\ JudgeGrades(g))
                       /\ WF_aiGradingVars(part = "ai" /\ TickGrade(g))
  /\ WF_aiGradingVars(part = "ai" /\ ExpireAILease)
FairJudge ==
  /\ \A w \in Workers : WF_vars(part = "judge" /\ Step(w))
  /\ \A j \in Jobs : /\ WF_vars(part = "judge" /\ Tick(j))
                     /\ WF_vars(part = "judge" /\ Enqueue(j))
  /\ WF_vars(part = "judge" /\ Expire)
FairGrading == GradingSpec /\ FairAI /\ FairJudge

\* Only one part moves: the workers of both are swapped, or the scores, or both.
Swap(x, y) == (x :> y) @@ (y :> x)
GradingSymmetry == {Swap(a1, a2) @@ Swap(w1, w2)} \cup Permutations(AIScores)

\* What was handed in is graded or given up, what the AI is to see reaches its
\* queue, and what it has begun ends with a score or with a teacher, in spite of
\* lost pushes, a crash, runs that outlive their thresholds and an override.
EveryGradingEnds == (AIWaits \/ JudgeWaits) ~> (AIDone /\ JudgeDone)
=============================================================================
