---------------------------- MODULE MCEnvironment ----------------------------
(* EnvironmentBuild for TLC: two jobs of one or two versions.               *)
EXTENDS EnvironmentBuild, TLC

CONSTANTS w1, w2, m1, m2
Pair == Permutations(Workers) \cup Permutations(Admins)
OneVersion == 1..1
TwoVersions == 1..2
TwoJobs == 1..2
ThreeJobs == 1..3

\* Bounds: a legacy profile has no draft to edit and is archived once or never.
Edits == [v2 |-> 2, legacy |-> 1]
DraftEdit == [v2 |-> 1, legacy |-> 0]
Troubles == [v2 |-> 2, legacy |-> 1]
TwoTroubles == [v2 |-> 2, legacy |-> 2]
ThreeInAll == [v2 |-> 3, legacy |-> 3]
=============================================================================
