---------------------------- MODULE MCAIGrading ----------------------------
(* Small instances of AIGrading for TLC.                                    *)
EXTENDS AIGrading, TLC

CONSTANTS g1, a1, a2, t1, s1, p, q

OneGrade  == {g1}
TwoAIWorkers == {a1, a2}
OneTeacher  == {t1}
SoleScanner  == {s1}
OneScore  == {p}
TwoScores == {p, q}

ActiveMode == [g \in Grades |-> "active"]

NoneLate == {}
SlowWorkers == {"worker"}
Overrides == {"override"}
Repeats  == {"retry", "regrade"}

Symmetry == Permutations(AIWorkers) \cup Permutations(AIScores)
=============================================================================
