------------------------------- MODULE MCExam -------------------------------
(* ExamGrading for TLC: a choice, a code question, one that the AI scores.  *)
EXTENDS ExamGrading, TLC

CONSTANTS c1, k1, a1, s1, j1, w1, w2

KindMC == [q \in Questions |-> CASE q = c1 -> "choice" [] q = k1 -> "code" [] OTHER -> "active"]
WorthMC == [d \in Drafts |-> 2]
SoundMC == {}
Tabs == Permutations(Web)
=============================================================================
