------------------------- MODULE MCAssignmentJudge -------------------------
(* Small instances of AssignmentJudge for TLC.                              *)
EXTENDS AssignmentJudgeInv, TLC

CONSTANTS j1, j2, w1, w2

OneJob  == {j1}
TwoJobs == {j1, j2}
TwoWorkers == {w1, w2}

LegacyMode == [j \in Jobs |-> "legacy"]
MixedMode  == [j \in Jobs |-> IF j = j1 THEN "shadow" ELSE "legacy"]

NoneSlow == {}
SlowWork == {"worker"}
SlowBoth == {"scan", "worker"}

FullSymmetry == Permutations(Workers) \cup Permutations(Jobs)
=============================================================================
