--------------------------- MODULE StorageObjects ---------------------------
(***************************************************************************)
(* The file behind one business row (a course's cover, a lesson's video):  *)
(* handlers that replace or remove it (api/course_covers.py,               *)
(* api/lesson_videos.py), the metadata row of the file                     *)
(* (storage_object_service.py, storage_object_binding_service.py), the     *)
(* reconciliation that writes the quarantine ledger (storage_reconcile.py) *)
(* and the collector that works through it (storage_gc.py).                *)
(*                                                                         *)
(* Database and file store have no common transaction: every commit and    *)
(* every operation on a file is a step of its own, and the process may die *)
(* between any two.  A ledger entry is waiting until its retention is over *)
(* and due from then on; a retry of 15 minutes is over at once.            *)
(***************************************************************************)
EXTENDS Naturals

CONSTANTS Keys, Writers, NoKey,
          MaxFuss  \* bound on failures and deaths

ASSUME StorageAssumption == NoKey \notin Keys /\ MaxFuss \in Nat

VARIABLES files,     \* keys of the files that exist
          rows,      \* rows[k]: the StorageObject's status, or "none"
          bound,     \* the key in the business row
          writer,    \* handlers: pc, the new key, the key found in the business row
          waiting, due,  \* ledger entries <<key, kind>>
          auditor,   \* StorageReconcileService.scan
          collector, \* StorageGarbageCollector.collect
          fuss       \* failures so far

storageVars == <<files, rows, bound, writer, waiting, due, auditor, collector, fuss>>

Rest == [pc |-> "rest", key |-> NoKey, old |-> NoKey]
NoScan == [on |-> FALSE, found |-> {}, known |-> {}, ref |-> NoKey, leaks |-> {}]
NoItem == <<NoKey, "none">>
NoCollection == [pc |-> "rest", ref |-> NoKey, item |-> NoItem]

StorageInit ==
  /\ files = {} /\ rows = [k \in Keys |-> "none"] /\ bound = NoKey
  /\ writer = [w \in Writers |-> Rest] /\ waiting = {} /\ due = {}
  /\ auditor = NoScan /\ collector = NoCollection /\ fuss = 0

Busy(k) == \E w \in Writers : k \in {writer[w].key, writer[w].old}
Noted(k) == \E e \in waiting \cup due \cup auditor.found : e[1] = k
Doing(w, pc) == writer[w].pc = pc
Then(w, pc) == writer' = [writer EXCEPT ![w] = IF pc = "rest" THEN Rest ELSE [@ EXCEPT !.pc = pc]]
Fuss == fuss < MaxFuss /\ fuss' = fuss + 1

-----------------------------------------------------------------------------
(* store_upload writes under a new key.  What the handler takes for the    *)
(* old key is what it loaded first: SELECT FOR UPDATE does not refresh it. *)
Upload(w, k) ==
  /\ Doing(w, "rest") /\ rows[k] = "none" /\ k \notin files /\ ~Busy(k) /\ ~Noted(k)
  /\ files' = files \cup {k}
  /\ writer' = [writer EXCEPT ![w] = [pc |-> "written", key |-> k, old |-> bound]]
  /\ UNCHANGED <<rows, bound, waiting, due, auditor, collector, fuss>>

(* register_active_object and the business row, in one transaction.        *)
Bind(w) ==
  /\ Doing(w, "written")
  /\ rows' = [rows EXCEPT ![writer[w].key] = "active"] /\ bound' = writer[w].key
  /\ Then(w, IF writer[w].old = NoKey THEN "rest" ELSE "retire")
  /\ UNCHANGED <<files, waiting, due, auditor, collector, fuss>>

(* The transaction fails: the new file is removed, if that does not fail.  *)
BindFails(w) ==
  /\ Doing(w, "written") /\ Fuss
  /\ files' \in {files, files \ {writer[w].key}}
  /\ Then(w, "rest")
  /\ UNCHANGED <<rows, bound, waiting, due, auditor, collector>>

(* delete_course_cover, delete_lesson_video.                               *)
AskRemoval(w) ==
  /\ Doing(w, "rest") /\ bound # NoKey
  /\ writer' = [writer EXCEPT ![w] = [Rest EXCEPT !.pc = "unbind", !.old = bound]]
  /\ UNCHANGED <<files, rows, bound, waiting, due, auditor, collector, fuss>>

Unbind(w) ==
  /\ Doing(w, "unbind")
  /\ bound' = NoKey /\ Then(w, "retire")
  /\ UNCHANGED <<files, rows, waiting, due, auditor, collector, fuss>>

(* retire_bound_object: mark_deleting, delete, mark_deleted.               *)
MarkDeleting(w) ==
  /\ Doing(w, "retire")
  /\ rows' = [rows EXCEPT ![writer[w].old] = IF @ = "active" THEN "deleting" ELSE @]
  /\ Then(w, "delete")
  /\ UNCHANGED <<files, bound, waiting, due, auditor, collector, fuss>>

Delete(w) ==
  /\ Doing(w, "delete")
  /\ files' = files \ {writer[w].old} /\ Then(w, "mark")
  /\ UNCHANGED <<rows, bound, waiting, due, auditor, collector, fuss>>

(* Mutant: the row is marked as deleted although the file could not be.    *)
DeleteFailsMarked(w) ==
  /\ Doing(w, "delete") /\ Fuss
  /\ Then(w, "mark")
  /\ UNCHANGED <<files, rows, bound, waiting, due, auditor, collector>>

DeleteFails(w) ==
  /\ Doing(w, "delete") /\ Fuss
  /\ Then(w, "rest")
  /\ UNCHANGED <<files, rows, bound, waiting, due, auditor, collector>>

MarkDeleted(w) ==
  /\ Doing(w, "mark")
  /\ rows' = [rows EXCEPT ![writer[w].old] = IF @ = "deleting" THEN "deleted" ELSE @]
  /\ Then(w, "rest")
  /\ UNCHANGED <<files, bound, waiting, due, auditor, collector, fuss>>

Killed(w) ==
  /\ ~Doing(w, "rest") /\ Fuss
  /\ Then(w, "rest")
  /\ UNCHANGED <<files, rows, bound, waiting, due, auditor, collector>>

-----------------------------------------------------------------------------
(* Mutant: a row that stays in deleting is not reported.                   *)
FindingsOfRowForgiving(k) ==
  {e \in {k} \X {"deleted_physical_present", "unreferenced_active"} :
     /\ k \in files
     /\ \/ e[2] = "deleted_physical_present" /\ rows[k] = "deleted"
        \/ e[2] = "unreferenced_active" /\ rows[k] = "active" /\ k # bound}

(* _append_stale_state_findings and what head says; kinds that the         *)
(* collector does not delete (missing_physical, mismatches) are left out.  *)
FindingsOfRow(k) ==
  {e \in {k} \X {"stale_deleting", "deleted_physical_present", "unreferenced_active"} :
     \/ e[2] = "stale_deleting" /\ rows[k] = "deleting" /\ ~Busy(k)
     \/ e[2] = "deleted_physical_present" /\ rows[k] = "deleted" /\ k \in files
     \/ e[2] = "unreferenced_active" /\ rows[k] = "active" /\ k \in files /\ k # bound}

(* scan reads references and rows.  One maintenance job runs at a time.    *)
ScanRows ==
  /\ ~auditor.on /\ collector.pc = "rest"
  /\ auditor' = [on |-> TRUE, found |-> UNION {FindingsOfRow(k) : k \in Keys},
                 known |-> {k \in Keys : rows[k] # "none"}, ref |-> bound,
                 leaks |-> {k \in files \ {bound} : ~Busy(k)}]
  /\ UNCHANGED <<files, rows, bound, writer, waiting, due, collector, fuss>>

(* Then it lists the files, and writes the ledger.                         *)
ScanFiles ==
  /\ auditor.on
  /\ LET loose == (files \ auditor.known) \ {auditor.ref}
         all == auditor.found \cup {<<k, "untracked_physical">> : k \in loose}
     IN waiting' = waiting \cup (all \ due)
  /\ auditor' = NoScan
  /\ UNCHANGED <<files, rows, bound, writer, due, collector, fuss>>

(* The retention of a day, in which every handler has long ended.          *)
Mature(e) ==
  /\ e \in waiting /\ ~Busy(e[1]) /\ ~auditor.on /\ collector.pc = "rest"
  /\ waiting' = waiting \ {e} /\ due' = due \cup {e}
  /\ UNCHANGED <<files, rows, bound, writer, auditor, collector, fuss>>

(* collect reads the references once, and comes to an entry much later.    *)
CollectStart(e) ==
  /\ collector.pc = "rest" /\ ~auditor.on /\ e \in due
  /\ collector' = [pc |-> "next", ref |-> bound, item |-> e]
  /\ UNCHANGED <<files, rows, bound, writer, waiting, due, auditor, fuss>>

SkipReferenced ==
  /\ collector.pc = "next" /\ collector.item[1] = collector.ref
  /\ collector' = NoCollection
  /\ UNCHANGED <<files, rows, bound, writer, waiting, due, auditor, fuss>>

CollectorAt(pc) == collector' = [collector EXCEPT !.pc = pc]

(* Mutant: no check for references that have appeared since the scan.      *)
PrepareAny ==
  /\ collector.pc = "next"
  /\ rows' = [rows EXCEPT ![collector.item[1]] =
       IF @ = "active" /\ collector.item[2] \in {"unreferenced_active", "untracked_physical"}
       THEN "deleting" ELSE @]
  /\ CollectorAt("delete")
  /\ UNCHANGED <<files, bound, writer, waiting, due, auditor, fuss>>

(* _prepare_metadata_for_delete                                            *)
Prepare ==
  /\ collector.pc = "next" /\ collector.item[1] # collector.ref
  /\ rows' = [rows EXCEPT ![collector.item[1]] =
       IF @ = "active" /\ collector.item[2] \in {"unreferenced_active", "untracked_physical"}
       THEN "deleting" ELSE @]
  /\ CollectorAt("delete")
  /\ UNCHANGED <<files, bound, writer, waiting, due, auditor, fuss>>

CollectFile ==
  /\ collector.pc = "delete"
  /\ files' = files \ {collector.item[1]} /\ CollectorAt("mark")
  /\ UNCHANGED <<rows, bound, writer, waiting, due, auditor, fuss>>

CollectFails ==
  /\ collector.pc = "delete" /\ Fuss
  /\ collector' = NoCollection
  /\ UNCHANGED <<files, rows, bound, writer, waiting, due, auditor>>

CollectMark ==
  /\ collector.pc = "mark"
  /\ rows' = [rows EXCEPT ![collector.item[1]] = IF @ = "deleting" THEN "deleted" ELSE @]
  /\ CollectorAt("resolve")
  /\ UNCHANGED <<files, bound, writer, waiting, due, auditor, fuss>>

Resolve ==
  /\ collector.pc = "resolve"
  /\ due' = due \ {collector.item}
  /\ collector' = NoCollection
  /\ UNCHANGED <<files, rows, bound, writer, waiting, auditor, fuss>>

CollectorDies ==
  /\ collector.pc # "rest" /\ Fuss
  /\ collector' = NoCollection
  /\ UNCHANGED <<files, rows, bound, writer, waiting, due, auditor>>

Handler(w) ==
  \/ \E k \in Keys : Upload(w, k)
  \/ Bind(w) \/ BindFails(w) \/ AskRemoval(w) \/ Unbind(w) \/ MarkDeleting(w)
  \/ Delete(w) \/ DeleteFails(w) \/ MarkDeleted(w) \/ Killed(w)

Audit == ScanRows \/ ScanFiles \/ \E e \in waiting : Mature(e)

Collect ==
  \/ (\E e \in due : CollectStart(e)) \/ SkipReferenced \/ Prepare
  \/ CollectFile \/ CollectFails \/ CollectMark \/ Resolve \/ CollectorDies

StorageNext == (\E w \in Writers : Handler(w)) \/ Audit \/ Collect

-----------------------------------------------------------------------------
(* What the business row names is there and active: no replacement that    *)
(* another one overtakes, no failure and no collector takes it away.       *)
ReferencedIsThere == bound # NoKey => bound \in files /\ rows[bound] = "active"

(* A row says deleted only if the file is gone: deletion is retried until  *)
(* then, by whoever comes across the row.                                  *)
DeletedIsGone == \A k \in Keys : rows[k] = "deleted" => k \notin files

(* A file that nobody refers to and nobody works on when a scan starts has *)
(* an entry in the ledger when it ends, whatever died to leave it behind.  *)
LeaksAreFound ==
  [][ScanFiles => \A k \in auditor.leaks \cap files : \E e \in waiting' \cup due : e[1] = k]_storageVars

(* Rows tell the truth about files, though no transaction spans the two.   *)
RowsMatchFiles == ReferencedIsThere /\ DeletedIsGone
=============================================================================
