----------------------------- MODULE MCServices -----------------------------
(* The services that share no state with each other, for TLC: a behaviour  *)
(* picks one of them and the others stand still, so that the run explores  *)
(* the sum of their state spaces and not the product.                      *)
EXTENDS KernelSession, NotebookRecord, StorageObjects, StudioDraft, CourseAccess, TLC

CONSTANTS r1, r2, t1, t2, c1, c2, k1, k2, w1, w2

VARIABLE part

vars == <<part, kernelVars, notebookVars, storageVars, studioVars, courseVars>>

Init == /\ part \in {"kernel", "notebook", "storage", "studio", "courses"}
        /\ KernelInit /\ NotebookInit /\ StorageInit /\ StudioInit /\ CourseInit
        /\ part # "courses" => course.visibility = "class"

Next ==
  /\ UNCHANGED part
  /\ IF part = "kernel"   THEN KernelNext   ELSE UNCHANGED kernelVars
  /\ IF part = "notebook" THEN NotebookNext ELSE UNCHANGED notebookVars
  /\ IF part = "storage"  THEN StorageNext  ELSE UNCHANGED storageVars
  /\ IF part = "studio"   THEN StudioNext   ELSE UNCHANGED studioVars
  /\ IF part = "courses"  THEN CourseNext   ELSE UNCHANGED courseVars

Spec == Init /\ [][Next]_vars

(* Only one service moves: its symmetries need not be combined with those  *)
(* of the others.  The first pair of each is swapped, or the second, both, *)
(* or none.                                                                *)
Swap(p, q) == (p :> q) @@ (q :> p)
First == {r1, r2, t1, t2, k1, k2}
Second == {c1, c2, w1, w2}
Partner == Swap(r1, r2) @@ Swap(t1, t2) @@ Swap(k1, k2)
           @@ Swap(c1, c2) @@ Swap(w1, w2)
Alike == {[x \in First \cup Second |-> IF x \in moved THEN Partner[x] ELSE x] :
            moved \in {{}, First, Second, First \cup Second}}
=============================================================================
