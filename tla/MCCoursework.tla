---------------------------- MODULE MCCoursework ----------------------------
(* The judging of a submission and what there has to be before it, for     *)
(* TLC: the session of the user, the entries of the course's notebooks,    *)
(* the task, the AI configuration of its questions, the image it runs in,  *)
(* and the pages that show what has been graded.                           *)
(* The models share no state; a behaviour picks one part and the others stand  *)
(* still, so that the run explores the sum of their state spaces and not   *)
(* the product.                                                            *)
EXTENDS MCAssignmentJudge, TaskAuthoring, ConfigPanel, NotebookEntry, ImageBuilder,
        AuthSession, ReadModels

CONSTANTS r1, r2, k1, k2, u1, u2

VARIABLE part

courseworkVars == <<part, vars, taskVars, panelVars, entryVars, imageVars, authVars,
                    pageVars>>

CourseworkInit ==
  /\ part \in {"judge", "task", "panel", "entries", "images", "auth", "pages"}
  /\ Init /\ TaskInit /\ PanelInit /\ EntryInit /\ ImageInit /\ AuthInit
  /\ PageInit
  /\ part # "task" => kind = "exam"
  /\ part # "images" => route = "v2"
  /\ part # "pages" => topic = "exam" /\ issued = FALSE

CourseworkNext ==
  /\ UNCHANGED part
  /\ IF part = "judge"   THEN Next       ELSE UNCHANGED vars
  /\ IF part = "task"    THEN TaskNext   ELSE UNCHANGED taskVars
  /\ IF part = "panel"   THEN PanelNext  ELSE UNCHANGED panelVars
  /\ IF part = "entries" THEN EntryNext  ELSE UNCHANGED entryVars
  /\ IF part = "images"  THEN ImageNext  ELSE UNCHANGED imageVars
  /\ IF part = "auth"    THEN AuthNext   ELSE UNCHANGED authVars
  /\ IF part = "pages"   THEN PageNext   ELSE UNCHANGED pageVars

\* The pages are compared where their rows move.
PagesSound == part = "pages" => PagesAgree

CourseworkSpec == CourseworkInit /\ [][CourseworkNext]_courseworkVars

(* Only one part moves: the workers are swapped, or the clerks, questions  *)
(* and users, or both, or none.                                            *)
Swap(x, y) == (x :> y) @@ (y :> x)
First == {w1, w2}
Others == {r1, r2, k1, k2, u1, u2}
Mate == Swap(w1, w2) @@ Swap(r1, r2) @@ Swap(k1, k2) @@ Swap(u1, u2)
CourseworkSymmetry == {[x \in First \cup Others |-> IF x \in moved THEN Mate[x] ELSE x] :
                         moved \in {{}, First, Others, First \cup Others}}
=============================================================================
