---------------------------- MODULE StorageProofs ----------------------------
(***************************************************************************)
(* Theorems about what is stored and who is told so, checked by TLAPS for  *)
(* any numbers of keys, handlers, attempts, tabs, cells and failures.      *)
(*                                                                         *)
(* StorageObjects: a file that a business row names is never taken away, a *)
(* row that says deleted is right, and a scan misses no file that was left *)
(* behind.                                                                 *)
(* ImageBuilder: the image of a version was built from its lock, is there  *)
(* and was tested, and no temporary one is left behind, with the           *)
(* exceptions that the model names.                                        *)
(* NotebookRecord: what a page calls saved or submitted is stored, unless  *)
(* two handlers overlapped between read and commit.                        *)
(* StudioDraft: what is stored of a template's draft builds up, a version  *)
(* is one saved draft, and a page displays what it says.                   *)
(***************************************************************************)
EXTENDS StorageObjects, ImageBuilder, NotebookRecord, StudioDraft, FiniteSetTheorems, TLAPS

StorageSpec == StorageInit /\ [][StorageNext]_storageVars

RowStates == {"none", "active", "deleting", "deleted"}
Kinds == {"stale_deleting", "deleted_physical_present", "unreferenced_active", "untracked_physical"}
Entries == Keys \X Kinds
Named == Keys \cup {NoKey}
WriterType == [pc : {"rest", "written", "unbind", "retire", "delete", "mark"}, key : Named, old : Named]
ScanType == [on : BOOLEAN, found : SUBSET Entries, known : SUBSET Keys, ref : Named, leaks : SUBSET Keys]
CollectorType == [pc : {"rest", "next", "delete", "mark", "resolve"}, ref : Named, item : Entries \cup {NoItem}]

TypeOK == /\ files \subseteq Keys /\ rows \in [Keys -> RowStates] /\ bound \in Named
          /\ writer \in [Writers -> WriterType]
          /\ waiting \subseteq Entries /\ due \subseteq Entries
          /\ auditor \in ScanType /\ collector \in CollectorType

\* A file that is being written has no row yet, is nobody else's and is there;
\* nobody replaces it, and no collector knows of it.
Writing(k) == \E w \in Writers : writer[w].pc = "written" /\ writer[w].key = k
Uploads ==
  \A w \in Writers : writer[w].pc = "written" =>
    /\ writer[w].key \in files /\ rows[writer[w].key] = "none"
    /\ \A v \in Writers : writer[v].pc = "written" /\ writer[v].key = writer[w].key => v = w
    /\ \A e \in due : e[1] # writer[w].key

\* What a handler takes for the old key had a row; one that retires it does so
\* when the business row names it no more, and it is gone when it is marked.
Retirements ==
  \A w \in Writers :
    /\ writer[w].old # NoKey => rows[writer[w].old] # "none"
    /\ writer[w].pc \in {"unbind", "retire", "delete", "mark"} => writer[w].old # NoKey
    /\ writer[w].pc \in {"retire", "delete", "mark"} => writer[w].old # bound
    /\ writer[w].pc = "mark" => writer[w].old \notin files

\* The collector works on a ledger entry that keeps its key from being used
\* again, and that the business row does not name, now or when it began.
Collections ==
  collector.pc # "rest" =>
    /\ collector.item \in due
    /\ collector.pc = "next" => (collector.item[1] = bound => collector.item[1] = collector.ref)
    /\ collector.pc # "next" => collector.item[1] # bound
    /\ collector.pc \in {"mark", "resolve"} => collector.item[1] \notin files

\* What the scan has read explains every file left behind, or will find it loose.
Audits ==
  auditor.on => \A k \in auditor.leaks : /\ k # auditor.ref
                                         /\ k \in auditor.known => \E e \in auditor.found : e[1] = k

Inv == TypeOK /\ Uploads /\ Retirements /\ Collections /\ Audits /\ RowsMatchFiles

-----------------------------------------------------------------------------
(* The handlers.                                                            *)

LEMMA RestRow == Rest \in WriterType /\ Rest.pc = "rest" /\ Rest.old = NoKey
BY DEF Rest, WriterType, Named

\* A handler that goes on with what it has.
LEMMA ThenRow ==
  ASSUME TypeOK, NEW w \in Writers, NEW pc \in {"rest", "written", "unbind", "retire", "delete", "mark"},
         Then(w, pc)
  PROVE  /\ writer' \in [Writers -> WriterType] /\ \A v \in Writers : v # w => writer'[v] = writer[v]
         /\ writer'[w].pc = pc
         /\ pc # "rest" => writer'[w].key = writer[w].key /\ writer'[w].old = writer[w].old
         /\ pc = "rest" => writer'[w].old = NoKey
<1> DEFINE new == IF pc = "rest" THEN Rest ELSE [writer[w] EXCEPT !.pc = pc]
<1>1. writer' = [writer EXCEPT ![w] = new] /\ writer \in [Writers -> WriterType]
  BY DEF Then, TypeOK
<1>2. /\ new \in WriterType /\ new.pc = pc
      /\ pc # "rest" => new.key = writer[w].key /\ new.old = writer[w].old
      /\ pc = "rest" => new.old = NoKey
  BY <1>1, RestRow DEF WriterType
<1> HIDE DEF new
<1>3. QED
  BY <1>1, <1>2

\* A handler step that changes no row, no file but its own and not what is bound.
LEMMA HandlerFrame ==
  ASSUME Inv, NEW w \in Writers, UNCHANGED <<rows, bound, waiting, due, auditor, collector>>,
         writer' \in [Writers -> WriterType], \A v \in Writers : v # w => writer'[v] = writer[v],
         files' \subseteq files,
         \A k \in Keys : k \in files /\ k \notin files' =>
           k # bound /\ \A v \in Writers : v # w /\ writer[v].pc = "written" => writer[v].key # k,
         writer'[w].pc = "written" => writer[w].pc = "written" /\ writer'[w].key = writer[w].key /\ files' = files,
         writer'[w].old # NoKey => writer'[w].old = writer[w].old \/ writer'[w].old = bound,
         writer'[w].pc \in {"unbind", "retire", "delete", "mark"} => writer'[w].old # NoKey,
         writer'[w].pc \in {"retire", "delete", "mark"} => writer'[w].old # bound,
         writer'[w].pc = "mark" => writer'[w].old \notin files'
  PROVE  Inv'
<1>1. TypeOK'
  BY DEF Inv, TypeOK
<1>2. Uploads'
  <2>1. SUFFICES ASSUME NEW u \in Writers, writer'[u].pc = "written"
                 PROVE  /\ writer'[u].key \in files' /\ rows[writer'[u].key] = "none"
                        /\ \A v \in Writers : writer'[v].pc = "written" /\ writer'[v].key = writer'[u].key => v = u
                        /\ \A e \in due : e[1] # writer'[u].key
    BY DEF Uploads
  <2>2. \A v \in Writers : writer'[v].pc = "written" => writer[v].pc = "written" /\ writer'[v].key = writer[v].key
    OBVIOUS
  <2>3. writer[u].key \in files /\ files \subseteq Keys
    BY <2>1, <2>2 DEF Inv, Uploads, TypeOK
  <2>4. writer[u].key \in files'
    BY <2>1, <2>2, <2>3
  <2>5. QED
    BY <2>1, <2>2, <2>4 DEF Inv, Uploads
<1>3. Retirements'
  <2>1. \A u \in Writers : writer'[u].old # NoKey => rows[writer'[u].old] # "none"
    BY DEF Inv, Retirements, RowsMatchFiles, ReferencedIsThere
  <2>2. QED
    BY <2>1 DEF Inv, Retirements
<1>4. Collections'
  BY DEF Inv, Collections
<1>5. Audits'
  BY DEF Inv, Audits
<1>6. RowsMatchFiles'
  BY DEF Inv, TypeOK, RowsMatchFiles, ReferencedIsThere, DeletedIsGone
<1>7. QED
  BY <1>1, <1>2, <1>3, <1>4, <1>5, <1>6 DEF Inv

\* What a handler without a file still has: deletions that fail, and deaths.
LEMMA RestSteps ==
  ASSUME Inv, NEW w \in Writers, BindFails(w) \/ Delete(w) \/ DeleteFails(w) \/ Killed(w) \/ AskRemoval(w)
  PROVE  Inv'
<1>1. TypeOK /\ writer \in [Writers -> WriterType]
  BY DEF Inv, TypeOK
<1>2. CASE BindFails(w)
  <2>1. writer[w].pc = "written" /\ Then(w, "rest") /\ files' \in {files, files \ {writer[w].key}}
    BY <1>2 DEF BindFails, Doing
  <2>2. /\ writer[w].key # bound
        /\ \A v \in Writers : v # w /\ writer[v].pc = "written" => writer[v].key # writer[w].key
    BY <2>1, StorageAssumption DEF Inv, Uploads, RowsMatchFiles, ReferencedIsThere, TypeOK
  <2>3. QED
    BY <1>1, <1>2, <2>1, <2>2, ThenRow, HandlerFrame DEF BindFails
<1>3. CASE Delete(w)
  <2>1. writer[w].pc = "delete" /\ Then(w, "mark") /\ files' = files \ {writer[w].old}
    BY <1>3 DEF Delete, Doing
  <2>2. writer[w].old \notin {NoKey, bound} /\ rows[writer[w].old] # "none"
    BY <2>1 DEF Inv, Retirements
  <2>3. \A v \in Writers : writer[v].pc = "written" => writer[v].key # writer[w].old
    BY <2>2 DEF Inv, Uploads
  <2>4. QED
    BY <1>1, <1>3, <2>1, <2>2, <2>3, ThenRow, HandlerFrame DEF Delete
<1>4. CASE DeleteFails(w) \/ Killed(w)
  BY <1>1, <1>4, ThenRow, HandlerFrame DEF DeleteFails, Killed
<1>5. CASE AskRemoval(w)
  <2> DEFINE new == [Rest EXCEPT !.pc = "unbind", !.old = bound]
  <2>1. writer' = [writer EXCEPT ![w] = new] /\ bound # NoKey /\ bound \in Named
    BY <1>1, <1>5 DEF AskRemoval, TypeOK
  <2>2. new \in WriterType /\ new.pc = "unbind" /\ new.old = bound
    BY <2>1 DEF Rest, WriterType, Named
  <2> HIDE DEF new
  <2>3. writer' \in [Writers -> WriterType] /\ writer'[w] = new /\ \A v \in Writers : v # w => writer'[v] = writer[v]
    BY <1>1, <2>1, <2>2
  <2>4. QED
    BY <1>5, <2>1, <2>2, <2>3, HandlerFrame DEF AskRemoval
<1>6. QED
  BY <1>2, <1>3, <1>4, <1>5

LEMMA UploadStep ==
  ASSUME Inv, NEW w \in Writers, NEW k \in Keys, Upload(w, k)
  PROVE  Inv'
<1> DEFINE new == [pc |-> "written", key |-> k, old |-> bound]
<1>1. /\ writer' = [writer EXCEPT ![w] = new] /\ files' = files \cup {k}
      /\ writer \in [Writers -> WriterType] /\ bound \in Named /\ rows[k] = "none"
      /\ UNCHANGED <<rows, bound, waiting, due, auditor, collector>>
      /\ \A v \in Writers : writer[v].key # k /\ writer[v].old # k
      /\ \A e \in due : e[1] # k
  BY StorageAssumption DEF Upload, Inv, TypeOK, Busy, Noted
<1>2. new \in WriterType /\ new.pc = "written" /\ new.key = k /\ new.old = bound
  BY <1>1 DEF WriterType, Named
<1> HIDE DEF new
<1>3. writer' \in [Writers -> WriterType] /\ writer'[w] = new /\ \A v \in Writers : v # w => writer'[v] = writer[v]
  BY <1>1, <1>2
<1>4. TypeOK'
  BY <1>1, <1>3 DEF Inv, TypeOK
<1>5. Uploads'
  <2>1. SUFFICES ASSUME NEW u \in Writers, writer'[u].pc = "written"
                 PROVE  /\ writer'[u].key \in files' /\ rows'[writer'[u].key] = "none"
                        /\ \A v \in Writers : writer'[v].pc = "written" /\ writer'[v].key = writer'[u].key => v = u
                        /\ \A e \in due' : e[1] # writer'[u].key
    BY DEF Uploads
  <2>2. CASE u = w
    BY <1>1, <1>2, <1>3, <2>2
  <2>3. CASE u # w
    BY <1>1, <1>2, <1>3, <2>1, <2>3 DEF Inv, Uploads
  <2>4. QED
    BY <2>2, <2>3
<1>6. Retirements'
  <2>1. \A v \in Writers : v # w => writer'[v] = writer[v] /\ writer[v].old # k
    BY <1>1, <1>3
  <2>2. bound # NoKey => rows[bound] = "active"
    BY DEF Inv, RowsMatchFiles, ReferencedIsThere
  <2>3. QED
    BY <1>1, <1>2, <1>3, <2>1, <2>2 DEF Inv, Retirements
<1>7. Collections'
  <2>1. collector.pc # "rest" => collector.item \in due /\ collector.item[1] # k
    BY <1>1 DEF Inv, Collections
  <2>2. QED
    BY <1>1, <2>1 DEF Inv, Collections
<1>8. Audits' /\ RowsMatchFiles'
  BY <1>1 DEF Inv, Audits, RowsMatchFiles, ReferencedIsThere, DeletedIsGone
<1>9. QED
  BY <1>4, <1>5, <1>6, <1>7, <1>8 DEF Inv

\* The file gets its row, and the business row names it.
LEMMA BindStep ==
  ASSUME Inv, NEW w \in Writers, Bind(w)
  PROVE  Inv'
<1> DEFINE k == writer[w].key
<1>1. /\ writer[w].pc = "written" /\ rows' = [rows EXCEPT ![k] = "active"] /\ bound' = k
      /\ UNCHANGED <<files, waiting, due, auditor, collector>>
      /\ writer \in [Writers -> WriterType] /\ rows \in [Keys -> RowStates] /\ files \subseteq Keys
  BY DEF Bind, Doing, Inv, TypeOK
<1>2. /\ k \in files /\ k \in Keys /\ rows[k] = "none" /\ \A e \in due : e[1] # k
      /\ \A v \in Writers : writer[v].pc = "written" /\ v # w => writer[v].key # k
  BY <1>1 DEF Inv, Uploads
<1>3. PICK pc \in {"rest", "retire"} :
        Then(w, pc) /\ (pc = "retire" => writer[w].old # NoKey)
  BY DEF Bind
<1>4. /\ writer' \in [Writers -> WriterType] /\ \A v \in Writers : v # w => writer'[v] = writer[v]
      /\ writer'[w].pc = pc
      /\ pc # "rest" => writer'[w].key = writer[w].key /\ writer'[w].old = writer[w].old
      /\ pc = "rest" => writer'[w].old = NoKey
  BY <1>3, ThenRow DEF Inv
<1>5. \A u \in Writers : writer[u].old # NoKey => rows[writer[u].old] # "none" /\ writer[u].old # k
  BY <1>2 DEF Inv, Retirements
<1> HIDE DEF k
<1>6. TypeOK'
  BY <1>1, <1>2, <1>4 DEF Inv, TypeOK, Named, RowStates
<1>7. Uploads'
  <2>1. \A u \in Writers : writer'[u].pc = "written" => u # w /\ writer'[u] = writer[u] /\ writer[u].key # k
    BY <1>2, <1>3, <1>4
  <2>2. \A u \in Writers : writer'[u].pc = "written" => writer[u].key \in Keys /\ rows'[writer[u].key] = "none"
    BY <1>1, <2>1 DEF Inv, Uploads
  <2>3. QED
    BY <1>1, <2>1, <2>2 DEF Inv, Uploads
<1>8. Retirements'
  <2>1. \A u \in Writers : writer'[u].old # NoKey => writer[u].old # NoKey /\ writer'[u].old = writer[u].old
    BY <1>3, <1>4
  <2>2. \A u \in Writers : writer'[u].old # NoKey => writer'[u].old \in Keys
    BY <1>4 DEF WriterType, Named
  <2>3. \A u \in Writers : writer'[u].old # NoKey => rows'[writer'[u].old] # "none" /\ writer'[u].old # bound'
    BY <1>1, <1>5, <2>1, <2>2
  <2>4. QED
    BY <1>1, <1>3, <1>4, <2>1, <2>3 DEF Inv, Retirements
<1>9. Collections'
  BY <1>1, <1>2 DEF Inv, Collections
<1>10. Audits' /\ RowsMatchFiles'
  BY <1>1, <1>2 DEF Inv, Audits, RowsMatchFiles, ReferencedIsThere, DeletedIsGone
<1>11. QED
  BY <1>6, <1>7, <1>8, <1>9, <1>10 DEF Inv

LEMMA UnbindStep ==
  ASSUME Inv, NEW w \in Writers, Unbind(w)
  PROVE  Inv'
<1>1. /\ writer[w].pc = "unbind" /\ bound' = NoKey /\ Then(w, "retire") /\ writer[w].old # NoKey
      /\ UNCHANGED <<files, rows, waiting, due, auditor, collector>>
  BY DEF Unbind, Doing, Inv, Retirements
<1>2. /\ writer' \in [Writers -> WriterType] /\ \A v \in Writers : v # w => writer'[v] = writer[v]
      /\ writer'[w].pc = "retire" /\ writer'[w].old = writer[w].old
  BY <1>1, ThenRow DEF Inv
<1>3. TypeOK'
  BY <1>1, <1>2 DEF Inv, TypeOK, Named
<1>4. Uploads' /\ Retirements'
  <2>1. \A u \in Writers : writer'[u].pc = "written" => writer'[u] = writer[u]
    BY <1>2
  <2>2. Uploads'
    BY <1>1, <2>1 DEF Inv, Uploads
  <2>3. QED
    BY <1>1, <1>2, <2>2 DEF Inv, Retirements
<1>5. Collections'
  BY <1>1, StorageAssumption DEF Inv, Collections, TypeOK, Entries
<1>6. Audits' /\ RowsMatchFiles'
  BY <1>1 DEF Inv, Audits, RowsMatchFiles, ReferencedIsThere, DeletedIsGone
<1>7. QED
  BY <1>3, <1>4, <1>5, <1>6 DEF Inv

\* A row that goes on towards deleted, by a handler or by the collector.
LEMMA RowStep ==
  ASSUME Inv, UNCHANGED <<files, bound, waiting, due, auditor>>,
         rows' \in [Keys -> RowStates], writer' \in [Writers -> WriterType],
         collector' \in CollectorType, Collections',
         \A k \in Keys : rows'[k] # rows[k] =>
           /\ k # bound /\ rows[k] # "none" /\ rows'[k] # "none"
           /\ rows'[k] = "deleted" => k \notin files,
         \A u \in Writers : \/ writer'[u] = writer[u]
                            \/ writer'[u].pc = "rest" /\ writer'[u].old = NoKey
                            \/ /\ writer[u].pc = "retire" /\ writer'[u].pc = "delete"
                               /\ writer'[u].old = writer[u].old
  PROVE  Inv'
<1>1. TypeOK'
  BY DEF Inv, TypeOK
<1>2. Uploads'
  <2>1. \A u \in Writers : writer'[u].pc = "written" => writer'[u] = writer[u]
    OBVIOUS
  <2>2. files \subseteq Keys
    BY DEF Inv, TypeOK
  <2>3. \A u \in Writers : writer'[u].pc = "written" => rows'[writer'[u].key] = "none"
    BY <2>1, <2>2 DEF Inv, Uploads
  <2>4. QED
    BY <2>1, <2>3 DEF Inv, Uploads
<1>3. Retirements'
  <2>1. \A u \in Writers : writer'[u].old # NoKey => writer'[u].old = writer[u].old /\ writer'[u].old \in Keys
    BY DEF WriterType, Named
  <2>2. \A u \in Writers : writer'[u].old # NoKey => rows'[writer'[u].old] # "none"
    BY <2>1 DEF Inv, Retirements
  <2>3. QED
    BY <2>2 DEF Inv, Retirements
<1>4. Audits' /\ RowsMatchFiles'
  BY DEF Inv, TypeOK, Named, Audits, RowsMatchFiles, ReferencedIsThere, DeletedIsGone
<1>5. QED
  BY <1>1, <1>2, <1>3, <1>4 DEF Inv

LEMMA MarkSteps ==
  ASSUME Inv, NEW w \in Writers, MarkDeleting(w) \/ MarkDeleted(w)
  PROVE  Inv'
<1> DEFINE k == writer[w].old
<1>1. /\ rows \in [Keys -> RowStates] /\ k \in Named /\ UNCHANGED <<files, bound, waiting, due, auditor, collector>>
      /\ collector \in CollectorType
  BY DEF Inv, TypeOK, WriterType, MarkDeleting, MarkDeleted
<1>2. k # NoKey /\ k # bound /\ k \in Keys
  BY <1>1 DEF Inv, Retirements, MarkDeleting, MarkDeleted, Doing, Named
<1>3. Collections'
  BY <1>1 DEF Inv, Collections
<1>4. CASE MarkDeleting(w)
  <2>1. writer[w].pc = "retire" /\ Then(w, "delete")
        /\ rows' = [rows EXCEPT ![k] = IF @ = "active" THEN "deleting" ELSE @]
    BY <1>4 DEF MarkDeleting, Doing
  <2> HIDE DEF k
  <2>2. /\ rows' \in [Keys -> RowStates]
        /\ \A j \in Keys : rows'[j] # rows[j] => j = k /\ rows[j] = "active" /\ rows'[j] = "deleting"
    BY <1>1, <2>1 DEF RowStates
  <2>3. QED
    BY <1>1, <1>2, <1>3, <2>1, <2>2, ThenRow, RowStep DEF Inv
<1>5. CASE MarkDeleted(w)
  <2>1. writer[w].pc = "mark" /\ Then(w, "rest") /\ k \notin files
        /\ rows' = [rows EXCEPT ![k] = IF @ = "deleting" THEN "deleted" ELSE @]
    BY <1>5 DEF MarkDeleted, Doing, Inv, Retirements
  <2> HIDE DEF k
  <2>2. /\ rows' \in [Keys -> RowStates]
        /\ \A j \in Keys : rows'[j] # rows[j] => j = k /\ rows[j] = "deleting" /\ rows'[j] = "deleted"
    BY <1>1, <2>1 DEF RowStates
  <2>3. QED
    BY <1>1, <1>2, <1>3, <2>1, <2>2, ThenRow, RowStep DEF Inv
<1>6. QED
  BY <1>4, <1>5

LEMMA HandlerStep ==
  ASSUME Inv, NEW w \in Writers, Handler(w)
  PROVE  Inv'
BY UploadStep, BindStep, UnbindStep, MarkSteps, RestSteps DEF Handler

-----------------------------------------------------------------------------
(* The scan and the ledger.                                                 *)

\* Every row that is left behind is of a kind the scan reports.
LEMMA Reported ==
  ASSUME TypeOK, NEW k \in Keys, k \in files, k # bound, ~Busy(k), rows[k] # "none"
  PROVE  \E e \in FindingsOfRow(k) : e[1] = k
<1>1. rows[k] \in {"active", "deleting", "deleted"}
  BY DEF TypeOK, RowStates
<1>2. CASE rows[k] = "active"
  <2>1. <<k, "unreferenced_active">> \in FindingsOfRow(k)
    BY <1>2 DEF FindingsOfRow
  <2>2. QED
    BY <2>1
<1>3. CASE rows[k] = "deleting"
  <2>1. <<k, "stale_deleting">> \in FindingsOfRow(k)
    BY <1>3 DEF FindingsOfRow
  <2>2. QED
    BY <2>1
<1>4. CASE rows[k] = "deleted"
  <2>1. <<k, "deleted_physical_present">> \in FindingsOfRow(k)
    BY <1>4 DEF FindingsOfRow
  <2>2. QED
    BY <2>1
<1>5. QED
  BY <1>1, <1>2, <1>3, <1>4

LEMMA AuditStep ==
  ASSUME Inv, Audit
  PROVE  Inv'
<1>1. TypeOK
  BY DEF Inv
<1>2. CASE ScanRows
  <2> DEFINE found == UNION {FindingsOfRow(k) : k \in Keys}
             known == {k \in Keys : rows[k] # "none"}
             leaks == {k \in files \ {bound} : ~Busy(k)}
  <2>1. /\ auditor' = [on |-> TRUE, found |-> found, known |-> known, ref |-> bound, leaks |-> leaks]
        /\ UNCHANGED <<files, rows, bound, writer, waiting, due, collector>>
    BY <1>2 DEF ScanRows
  <2>2. found \subseteq Entries /\ known \subseteq Keys /\ leaks \subseteq Keys /\ bound \in Named
    BY <1>1 DEF FindingsOfRow, Entries, Kinds, TypeOK
  <2>3. \A k \in leaks : k # bound /\ (k \in known => \E e \in found : e[1] = k)
    <3>1. SUFFICES ASSUME NEW k \in leaks, k \in known PROVE \E e \in found : e[1] = k
      OBVIOUS
    <3>2. PICK e \in FindingsOfRow(k) : e[1] = k
      BY <1>1, <3>1, Reported
    <3>3. QED
      BY <3>1, <3>2
  <2> HIDE DEF found, known, leaks
  <2>4. TypeOK'
    BY <1>1, <2>1, <2>2 DEF TypeOK, ScanType
  <2>5. Audits'
    BY <2>1, <2>3 DEF Audits
  <2>6. QED
    BY <2>1, <2>4, <2>5 DEF Inv, Uploads, Retirements, Collections, RowsMatchFiles, ReferencedIsThere, DeletedIsGone
<1>3. CASE ScanFiles
  <2>1. /\ waiting' \subseteq Entries
        /\ auditor' = NoScan /\ UNCHANGED <<files, rows, bound, writer, due, collector>>
    BY <1>1, <1>3 DEF ScanFiles, TypeOK, ScanType, Entries, Kinds
  <2>2. NoScan \in ScanType /\ ~NoScan.on
    BY DEF NoScan, ScanType, Named
  <2>3. QED
    BY <1>1, <2>1, <2>2 DEF Inv, TypeOK, Uploads, Retirements, Collections, Audits, RowsMatchFiles, ReferencedIsThere, DeletedIsGone
<1>4. CASE \E e \in waiting : Mature(e)
  <2>1. PICK e \in waiting : Mature(e)
    BY <1>4
  <2>2. /\ waiting' = waiting \ {e} /\ due' = due \cup {e} /\ \A w \in Writers : writer[w].key # e[1]
        /\ UNCHANGED <<files, rows, bound, writer, auditor, collector>>
    BY <2>1 DEF Mature, Busy
  <2>3. QED
    BY <1>1, <2>2 DEF Inv, TypeOK, Uploads, Retirements, Collections, Audits, RowsMatchFiles, ReferencedIsThere, DeletedIsGone
<1>5. QED
  BY <1>2, <1>3, <1>4 DEF Audit

-----------------------------------------------------------------------------
(* The collector.                                                           *)

LEMMA CollectorRow ==
  ASSUME TypeOK, NEW pc \in {"rest", "next", "delete", "mark", "resolve"}, CollectorAt(pc)
  PROVE  collector' \in CollectorType /\ collector'.pc = pc /\ collector'.ref = collector.ref
         /\ collector'.item = collector.item
BY DEF TypeOK, CollectorAt, CollectorType

LEMMA CollectStep ==
  ASSUME Inv, Collect
  PROVE  Inv'
<1>1. TypeOK /\ rows \in [Keys -> RowStates] /\ writer \in [Writers -> WriterType]
  BY DEF Inv, TypeOK
<1>2. NoCollection \in CollectorType /\ NoCollection.pc = "rest"
  BY DEF NoCollection, CollectorType, Named
<1>3. ASSUME collector.pc # "rest"
      PROVE  collector.item \in due /\ collector.item[1] \in Keys /\ collector.item[1] # NoKey
  BY <1>1, <1>3, StorageAssumption DEF Inv, Collections, TypeOK, Entries
<1>4. CASE \E e \in due : CollectStart(e)
  <2>1. PICK e \in due : CollectStart(e)
    BY <1>4
  <2>2. /\ collector' = [pc |-> "next", ref |-> bound, item |-> e] /\ e \in Entries /\ bound \in Named
        /\ UNCHANGED <<files, rows, bound, writer, waiting, due, auditor>>
    BY <1>1, <2>1 DEF CollectStart, TypeOK
  <2>3. collector' \in CollectorType
    BY <2>2 DEF CollectorType
  <2>4. QED
    BY <1>1, <2>2, <2>3 DEF Inv, TypeOK, Uploads, Retirements, Collections, Audits, RowsMatchFiles, ReferencedIsThere, DeletedIsGone
<1>5. CASE SkipReferenced \/ CollectFails \/ CollectorDies \/ Resolve
  <2>1. /\ collector' = NoCollection /\ due' \subseteq due
        /\ UNCHANGED <<files, rows, bound, writer, waiting, auditor>>
    BY <1>5 DEF SkipReferenced, CollectFails, CollectorDies, Resolve
  <2>2. QED
    BY <1>1, <1>2, <2>1 DEF Inv, TypeOK, Uploads, Retirements, Collections, Audits, RowsMatchFiles, ReferencedIsThere, DeletedIsGone
<1>6. CASE Prepare \/ CollectMark
  <2> DEFINE k == collector.item[1]
  <2>1. collector.pc \in {"next", "mark"} /\ UNCHANGED <<files, bound, writer, waiting, due, auditor>>
    BY <1>6 DEF Prepare, CollectMark
  <2>2. k \in Keys /\ k # bound /\ collector.item \in due
    BY <1>3, <1>6, <2>1 DEF Inv, Collections, Prepare, CollectMark
  <2>3. PICK pc \in {"delete", "resolve"} :
          CollectorAt(pc) /\ (pc = "resolve" => collector.pc = "mark")
    BY <1>6 DEF Prepare, CollectMark
  <2>4. collector' \in CollectorType /\ Collections'
    BY <1>1, <2>1, <2>2, <2>3, CollectorRow DEF Inv, Collections
  <2>5. /\ rows' \in [Keys -> RowStates]
        /\ \A j \in Keys : rows'[j] # rows[j] =>
             /\ j = k /\ rows[j] # "none" /\ rows'[j] # "none"
             /\ rows'[j] = "deleted" => j \notin files
    <3>1. CASE Prepare
      <4>1. rows' = [rows EXCEPT ![k] =
              IF @ = "active" /\ collector.item[2] \in {"unreferenced_active", "untracked_physical"}
              THEN "deleting" ELSE @]
        BY <3>1 DEF Prepare
      <4> HIDE DEF k
      <4>2. QED
        BY <1>1, <2>2, <4>1 DEF RowStates
    <3>2. CASE CollectMark
      <4>1. rows' = [rows EXCEPT ![k] = IF @ = "deleting" THEN "deleted" ELSE @] /\ k \notin files
        BY <3>2 DEF CollectMark, Inv, Collections
      <4> HIDE DEF k
      <4>2. QED
        BY <1>1, <2>2, <4>1 DEF RowStates
    <3>3. QED
      BY <1>6, <3>1, <3>2
  <2> HIDE DEF k
  <2>6. QED
    BY <1>1, <2>1, <2>2, <2>4, <2>5, RowStep
<1>7. CASE CollectFile
  <2>1. /\ collector.pc = "delete" /\ files' = files \ {collector.item[1]} /\ CollectorAt("mark")
        /\ UNCHANGED <<rows, bound, writer, waiting, due, auditor>>
    BY <1>7 DEF CollectFile
  <2>2. collector.item \in due /\ collector.item[1] # bound
    BY <2>1 DEF Inv, Collections
  <2>3. /\ collector' \in CollectorType /\ collector'.pc = "mark" /\ collector'.item = collector.item
        /\ files' \subseteq files
    BY <1>1, <2>1, CollectorRow
  <2>4. TypeOK'
    BY <1>1, <2>1, <2>3 DEF TypeOK
  <2>5. Collections'
    BY <2>1, <2>2, <2>3 DEF Collections
  <2>6. Uploads' /\ Retirements' /\ Audits' /\ RowsMatchFiles'
    BY <2>1, <2>2, <2>3 DEF Inv, Uploads, Retirements, Audits, RowsMatchFiles, ReferencedIsThere, DeletedIsGone
  <2>7. QED
    BY <2>4, <2>5, <2>6 DEF Inv
<1>8. QED
  BY <1>4, <1>5, <1>6, <1>7 DEF Collect

-----------------------------------------------------------------------------
(* Files, rows, handlers, the ledger and the collector agree in every      *)
(* state, whatever fails between two commits: a file being written is      *)
(* nobody else's, a handler retires a key that the business row names no   *)
(* more, and the collector works on a key that cannot be used again.       *)
THEOREM StorageInvariant == StorageSpec => []Inv
<1>1. StorageInit => Inv
  <2>1. SUFFICES ASSUME StorageInit PROVE Inv
    OBVIOUS
  <2>2. NoScan \in ScanType /\ ~NoScan.on
    BY DEF NoScan, ScanType, Named
  <2>3. NoCollection \in CollectorType /\ NoCollection.pc = "rest"
    BY DEF NoCollection, CollectorType, Named
  <2>4. TypeOK
    BY <2>1, <2>2, <2>3, RestRow DEF StorageInit, TypeOK, RowStates, Named
  <2>5. Uploads /\ Retirements
    BY <2>1, RestRow DEF StorageInit, Uploads, Retirements
  <2>6. Collections /\ Audits /\ RowsMatchFiles
    BY <2>1, <2>2, <2>3 DEF StorageInit, Collections, Audits, RowsMatchFiles, ReferencedIsThere, DeletedIsGone
  <2>7. QED
    BY <2>4, <2>5, <2>6 DEF Inv
<1>2. Inv /\ [StorageNext]_storageVars => Inv'
  <2>1. SUFFICES ASSUME Inv, [StorageNext]_storageVars PROVE Inv'
    OBVIOUS
  <2>2. CASE StorageNext
    BY <2>1, <2>2, HandlerStep, AuditStep, CollectStep DEF StorageNext
  <2>3. CASE UNCHANGED storageVars
    BY <2>1, <2>3 DEF storageVars, Inv, TypeOK, Uploads, Retirements, Collections, Audits, RowsMatchFiles,
                      ReferencedIsThere, DeletedIsGone
  <2>4. QED
    BY <2>1, <2>2, <2>3
<1>3. QED
  BY <1>1, <1>2, PTL DEF StorageSpec

(* What the business row names exists and is active, and a row that says   *)
(* deleted names a file that is gone, although the database, the file      *)
(* store, the handlers that overtake each other and the collector that     *)
(* works from an old list share no transaction.                            *)
THEOREM FilesAreSafe == StorageSpec => []RowsMatchFiles
<1>1. Inv => RowsMatchFiles
  BY DEF Inv
<1>2. QED
  BY <1>1, StorageInvariant, PTL

(* A scan ends with a ledger entry for every file that nobody referred to  *)
(* and nobody worked on when it began: rows are read before files, and no  *)
(* file falls between the two lists.                                       *)
THEOREM NoLeakIsMissed == StorageSpec => LeaksAreFound
<1>1. ASSUME Inv, ScanFiles, NEW k \in auditor.leaks \cap files
      PROVE  \E e \in waiting' \cup due : e[1] = k
  <2> DEFINE loose == (files \ auditor.known) \ {auditor.ref}
             all == auditor.found \cup {<<j, "untracked_physical">> : j \in loose}
  <2>1. auditor.on /\ waiting' = waiting \cup (all \ due)
    BY <1>1 DEF ScanFiles
  <2>2. k # auditor.ref /\ (k \in auditor.known => \E e \in auditor.found : e[1] = k)
    BY <1>1, <2>1 DEF Inv, Audits
  <2>3. \E e \in all : e[1] = k
    <3>1. CASE k \in auditor.known
      BY <2>2, <3>1
    <3>2. CASE k \notin auditor.known
      <4>1. k \in loose
        BY <2>2, <3>2
      <4>2. <<k, "untracked_physical">> \in all
        BY <4>1
      <4>3. <<k, "untracked_physical">>[1] = k
        OBVIOUS
      <4>4. QED
        BY <4>2, <4>3
    <3>3. QED
      BY <3>1, <3>2
  <2>4. QED
    BY <2>1, <2>3
<1>2. Inv /\ [StorageNext]_storageVars
        => [ScanFiles => \A k \in auditor.leaks \cap files : \E e \in waiting' \cup due : e[1] = k]_storageVars
  BY <1>1
<1>3. QED
  BY <1>2, StorageInvariant, PTL DEF StorageSpec, LeaksAreFound

-----------------------------------------------------------------------------
(* ImageBuilder                                                             *)

ImageSpec == ImageInit /\ [][ImageNext]_imageVars

Image == Attempts \cup {0}
Lock == Resolved \cup {"none"}
Steps == {"none", "preflight", "resolve", "resolving", "build", "validate", "validating", "tag", "push",
          "digest", "pull", "smoke", "inspect", "finish", "official", "fail", "clean", "gone"}
V2Steps == {"resolve", "resolving", "validate", "validating", "tag", "push", "digest", "pull"}
TryRow == [pc : Steps, job : Nat, lock : Lock, ref : Image, lost : BOOLEAN]
BuildRow == [n : Nat, status : {"queued", "building", "succeeded", "failed"}, holder : Image]
ReleaseRow == [status : {"draft", "building", "available", "failed"}, image : Image, lock : Lock]

ImageType ==
  /\ route \in {"v2", "legacy"} /\ build \in BuildRow /\ release \in ReleaseRow
  /\ try \in [Attempts -> TryRow] /\ named \in [Names -> Image] /\ temp \in [Attempts -> Image]
  /\ label \in [{"repository", "official"} -> Image]
  /\ images \in SUBSET Image /\ pushed \in SUBSET Image /\ tested \in SUBSET Image
  /\ madeFrom \in [Attempts -> Lock] /\ upsets \in Nat /\ mixed \in BOOLEAN /\ littered \in BOOLEAN

Available == release.status = "available"
AtWork(a) == try[a].pc \notin Ended

\* The job, the version and who is at work on it.
Jobs ==
  /\ build.n >= 1 /\ (build.n = 1 \/ build.n \in Attempts)
  /\ build.status = "building" => build.holder \in Attempts /\ ~At(build.holder, "none")
  /\ build.status = "succeeded" <=> Available
  /\ \A a \in Attempts : AtWork(a) => try[a].job \in Attempts
  /\ \A a \in Attempts : try[a].pc \in {"smoke", "inspect", "official"} => route = "legacy"
  /\ \A a \in Attempts : try[a].pc \in V2Steps => route = "v2"
  /\ \A a \in Attempts : At(a, "official") => Available

\* While an attempt holds the lease nobody else stores a lock, an attempt of v2 builds from the
\* lock of the version, lease or no lease, and so did those before it.
Locks ==
  /\ \A a \in Attempts : Holds(a) /\ try[a].pc \in {"resolve", "resolving"} => release.lock = "none"
  /\ route = "v2" => \A a \in Attempts : At(a, "build") => release.lock # "none" /\ try[a].lock = release.lock
  /\ \A i \in Attempts : madeFrom[i] # "none" => madeFrom[i] = release.lock

\* What the v2 route makes available is in the registry.
InRegistry == route = "v2" =>
  /\ \A a \in Attempts : try[a].pc \in {"pull", "finish"} => try[a].ref \in pushed
  /\ Available => release.image \in pushed

\* One attempt at a time: its image goes through the steps under the names that it was given.
Progress(a, row) ==
  /\ row.pc \in {"validate", "validating", "tag", "push", "digest", "pull", "smoke", "inspect", "finish"} =>
       temp[row.job] = a /\ a \in images
  /\ row.pc \in {"validating", "pull", "finish"} => row.ref = a
  /\ row.pc \in {"tag", "push", "digest", "pull", "inspect", "finish"} => a \in tested
  /\ route = "v2" /\ row.pc \in {"push", "digest", "pull", "finish"} => label["repository"] = a
Alone == ~mixed =>
  /\ \A a, b \in Attempts : AtWork(a) /\ AtWork(b) => a = b
  /\ \A a \in Attempts : Progress(a, try[a])
  /\ Available =>
       /\ release.image \in images \cap tested
       /\ route = "v2" => label["repository"] = release.image
       /\ \A a \in Attempts : AtWork(a) => try[a].pc = (IF route = "v2" THEN "clean" ELSE "official")

\* Whose image has a temporary tag will remove it, or has made the version available.
Tidied == ~littered => \A j \in Attempts : temp[j] # 0 =>
  \/ route = "legacy" /\ Available
  \/ \E a \in Attempts : AtWork(a) /\ try[a].job = j

ImageInv == ImageType /\ Jobs /\ Locks /\ InRegistry /\ Alone /\ Tidied

LEMMA AttemptsAre == Cardinality(Attempts) \in Nat /\ Attempts = 1..Cardinality(Attempts)
BY ImageAssumption, FS_CardinalityType

LEMMA AttemptIs ==
  ASSUME ImageInv, NEW a \in Attempts
  PROVE  /\ try[a] \in TryRow /\ a # 0 /\ a \in Image /\ a \in Nat
         /\ AtWork(a) => try[a].job \in Attempts /\ Temp(a) = temp[try[a].job]
         /\ try[a].ref \in Image /\ try[a].lock \in Lock
BY AttemptsAre DEF ImageInv, ImageType, Jobs, TryRow, Image, Temp

\* A step of an attempt between its claim and its end, which leaves the job, the version and
\* the names as they are.
LEMMA Onward ==
  ASSUME ImageInv, NEW a \in Attempts, AtWork(a),
         NEW row \in TryRow, try' = [try EXCEPT ![a] = row], row.job = try[a].job,
         row.pc \notin Ended, row.pc # "official" \/ At(a, "official"),
         row.pc = try[a].pc \/ try[a].pc \notin {"clean", "official"},
         UNCHANGED <<route, build, release, temp, label, madeFrom, mixed, littered>>,
         pushed \subseteq pushed', pushed' \in SUBSET Image,
         images \subseteq images', images' \in SUBSET Image,
         tested \subseteq tested', tested' \in SUBSET Image,
         named' \in [Names -> Image], upsets' \in Nat,
         Holds(a) /\ row.pc \in {"resolve", "resolving"} => release.lock = "none",
         route = "v2" /\ row.pc = "build" => release.lock # "none" /\ row.lock = release.lock,
         row.pc \in {"smoke", "inspect"} => route = "legacy", row.pc \in V2Steps => route = "v2",
         route = "v2" /\ row.pc \in {"pull", "finish"} => row.ref \in pushed',
         ~mixed => Progress(a, row)'
  PROVE  ImageInv'
<1>1. /\ try' \in [Attempts -> TryRow] /\ try'[a] = row
      /\ \A b \in Attempts : b # a => try'[b] = try[b]
  BY DEF ImageInv, ImageType
<1>2. ImageType'
  BY <1>1 DEF ImageInv, ImageType
<1>3. Jobs'
  <2>1. build.status = "building" => build.holder \in Attempts /\ ~At(build.holder, "none")'
    BY <1>1 DEF ImageInv, Jobs, At, Ended
  <2>2. \A b \in Attempts : AtWork(b)' => try'[b].job \in Attempts
    BY <1>1 DEF ImageInv, Jobs, AtWork
  <2>3. \A b \in Attempts : try'[b].pc \in {"smoke", "inspect", "official"} => route = "legacy"
    BY <1>1 DEF ImageInv, Jobs, At
  <2>4. \A b \in Attempts : At(b, "official")' => Available
    BY <1>1 DEF ImageInv, Jobs, At
  <2>5. \A b \in Attempts : try'[b].pc \in V2Steps => route = "v2"
    BY <1>1 DEF ImageInv, Jobs
  <2>6. QED
    BY <2>1, <2>2, <2>3, <2>4, <2>5 DEF ImageInv, Jobs, Available
<1>4. Locks'
  BY <1>1 DEF ImageInv, Locks, Holds, At
<1>5. InRegistry'
  BY <1>1 DEF ImageInv, InRegistry, Available
<1>6. ASSUME ~mixed PROVE Alone'
  <2>1. \A b, c \in Attempts : AtWork(b)' /\ AtWork(c)' => b = c
    BY <1>1, <1>6 DEF ImageInv, Alone, AtWork
  <2>2. \A b \in Attempts : Progress(b, try[b])'
    <3>1. SUFFICES ASSUME NEW b \in Attempts PROVE Progress(b, try[b])'
      OBVIOUS
    <3>2. CASE b = a
      BY <1>1, <1>6, <3>2
    <3>3. CASE b # a
      <4>1. try'[b] = try[b] /\ Progress(b, try[b])
        BY <1>1, <1>6, <3>3 DEF ImageInv, Alone
      <4>2. QED
        BY <4>1 DEF Progress
    <3>4. QED
      BY <3>2, <3>3
  <2>3. ASSUME Available PROVE \A b \in Attempts :
          AtWork(b)' => try'[b].pc = (IF route = "v2" THEN "clean" ELSE "official")
    <3>1. \A b \in Attempts : AtWork(b) => try[b].pc = (IF route = "v2" THEN "clean" ELSE "official")
      BY <1>6, <2>3 DEF ImageInv, Alone
    <3>2. try'[a].pc = try[a].pc
      BY <1>1, <3>1
    <3>3. \A b \in Attempts : try'[b].pc = try[b].pc
      BY <1>1, <3>2
    <3>4. QED
      BY <3>1, <3>3 DEF AtWork
  <2>4. Available => release.image \in images' \cap tested' /\ (route = "v2" => label["repository"] = release.image)
    BY <1>6 DEF ImageInv, Alone
  <2>5. QED
    BY <2>1, <2>2, <2>3, <2>4 DEF Alone, Available
<1>7. Tidied'
  BY <1>1 DEF ImageInv, Tidied, AtWork, Available
<1>8. QED
  BY <1>2, <1>3, <1>4, <1>5, <1>6, <1>7 DEF ImageInv, Alone

\* An attempt goes on to another step and changes nothing else that counts.
LEMMA GoesTo ==
  ASSUME ImageInv, NEW a \in Attempts, AtWork(a), NEW pc \in {"clean", "fail"},
         Go(a, pc), try[a].pc \notin {"clean", "official"},
         UNCHANGED <<route, build, release, temp, label, images, pushed, tested, madeFrom, mixed, littered>>,
         named' \in [Names -> Image], upsets' \in Nat
  PROVE  ImageInv'
<1>1. PICK row : row = [try[a] EXCEPT !.pc = pc]
  OBVIOUS
<1>2. row \in TryRow /\ row.pc = pc /\ row.job = try[a].job
  BY <1>1, AttemptIs DEF TryRow, Steps
<1>3. try' = [try EXCEPT ![a] = row]
  BY <1>1 DEF Go
<1>4. Progress(a, row)'
  BY <1>2 DEF Progress
<1>5. images' \in SUBSET Image /\ tested' \in SUBSET Image /\ pushed' \in SUBSET Image
  BY DEF ImageInv, ImageType
<1>6. row.pc \notin Ended /\ row.pc \notin V2Steps
  BY <1>2 DEF Ended, V2Steps
<1>7. QED
  BY <1>2, <1>3, <1>4, <1>5, <1>6, Onward

LEMMA Moved ==
  ASSUME ImageInv, NEW a \in Attempts, NEW pc \in Steps, Go(a, pc)
  PROVE  \E row \in TryRow :
           /\ try' = [try EXCEPT ![a] = row] /\ row.pc = pc /\ row.job = try[a].job
           /\ row.ref = try[a].ref /\ row.lock = try[a].lock
<1>1. PICK row : row = [try[a] EXCEPT !.pc = pc]
  OBVIOUS
<1>2. /\ row \in TryRow /\ row.pc = pc /\ row.job = try[a].job
      /\ row.ref = try[a].ref /\ row.lock = try[a].lock
  BY <1>1, AttemptIs DEF TryRow
<1>3. try' = [try EXCEPT ![a] = row]
  BY <1>1 DEF Go
<1>4. QED
  BY <1>2, <1>3

\* What no step of an attempt changes: the types of the rest.
LEMMA Rests ==
  ASSUME ImageInv
  PROVE  /\ images \in SUBSET Image /\ tested \in SUBSET Image /\ pushed \in SUBSET Image
         /\ named \in [Names -> Image] /\ upsets \in Nat /\ route \in {"v2", "legacy"}
         /\ temp \in [Attempts -> Image] /\ label["repository"] \in Image
         /\ release.lock \in Lock /\ release.image \in Image
         /\ Upset => upsets' \in Nat
         /\ \A n \in Names, i \in Image : [named EXCEPT ![n] = i] \in [Names -> Image]
BY DEF ImageInv, ImageType, Upset, ReleaseRow

LEMMA Vacates ==
  ASSUME ImageInv, NEW a \in Attempts, NEW name \in Names, Vacated(a, name)
  PROVE  named' \in [Names -> Image]
BY DEF ImageInv, ImageType, Vacated, Image

\* An attempt leaves off or fails, whatever becomes of its container.
LEMMA OnlyStops ==
  ASSUME ImageInv, NEW a \in Attempts, NEW pc \in {"clean", "fail"}, Only(a, pc),
         AtWork(a), try[a].pc \notin {"clean", "official"}
  PROVE  ImageInv'
<1>1. /\ UNCHANGED <<route, build, release, temp, label, images, pushed, tested, madeFrom, mixed, littered>>
      /\ named' = named /\ upsets' = upsets /\ Go(a, pc)
  BY DEF Only, records, daemon, notes
<1>2. QED
  BY <1>1, Rests, GoesTo

LEMMA Stops ==
  ASSUME ImageInv, NEW a \in Attempts,
         \/ \E pc \in {"preflight", "resolve", "build", "validate"} : Leave(a, pc)
         \/ \E pc \in {"resolving", "validating", "tag", "push", "digest", "pull", "smoke"} : Aborted(a, pc)
  PROVE  ImageInv'
<1>1. Only(a, "clean") /\ AtWork(a) /\ try[a].pc \notin {"clean", "official"}
  BY DEF Leave, Aborted, At, AtWork, Ended
<1>2. QED
  BY <1>1, OnlyStops

LEMMA Fails ==
  ASSUME ImageInv, NEW a \in Attempts,
         \/ PreflightFails(a) \/ Unconfigured(a) \/ LegacyFails(a) \/ RegistryFails(a)
         \/ RunTimesOut(a, "resolve", "resolving") \/ RunTimesOut(a, "validate", "validating")
         \/ NoLock(a) \/ NotValid(a)
  PROVE  ImageInv'
<1>1. ASSUME NEW pc \in {"preflight", "resolve", "build", "smoke", "tag", "push", "digest", "pull"},
             BuildFailure(a, pc)
      PROVE  ImageInv'
  <2>1. /\ UNCHANGED <<route, build, release, temp, label, images, pushed, tested, madeFrom, mixed, littered>>
        /\ named' = named /\ upsets' \in Nat /\ Go(a, "fail") /\ AtWork(a)
        /\ try[a].pc \notin {"clean", "official"}
    BY <1>1, Rests DEF BuildFailure, records, daemon, notes, At, AtWork, Ended
  <2>2. QED
    BY <2>1, Rests, GoesTo
<1>2. ASSUME NEW name \in Names, NEW pc \in {"resolving", "validating"},
             RunTimesOut(a, name, pc) \/ Unusable(a, name, pc)
      PROVE  ImageInv'
  <2>1. /\ UNCHANGED <<route, build, release, temp, label, images, pushed, tested, madeFrom, mixed, littered>>
        /\ upsets' \in Nat /\ Go(a, "fail") /\ AtWork(a) /\ try[a].pc \notin {"clean", "official"}
    BY <1>2, Rests DEF RunTimesOut, Unusable, records, notes, At, AtWork, Ended
  <2>2. named' \in [Names -> Image]
    BY <1>2, Rests, Vacates DEF RunTimesOut, Unusable, Image
  <2>3. QED
    BY <2>1, <2>2, GoesTo
<1>3. CASE PreflightFails(a)
  BY <1>1, <1>3 DEF PreflightFails
<1>4. CASE Unconfigured(a)
  BY <1>1, <1>4 DEF Unconfigured
<1>5. CASE LegacyFails(a)
  BY <1>1, <1>5 DEF LegacyFails
<1>6. CASE RegistryFails(a)
  BY <1>1, <1>6 DEF RegistryFails
<1>7. CASE RunTimesOut(a, "resolve", "resolving") \/ RunTimesOut(a, "validate", "validating")
  BY <1>2, <1>7 DEF Names
<1>8. CASE NoLock(a) \/ NotValid(a)
  BY <1>2, <1>8 DEF Names, NoLock, NotValid
<1>9. QED
  BY <1>3, <1>4, <1>5, <1>6, <1>7, <1>8

LEMMA RowLost ==
  ASSUME NEW t \in TryRow, NEW row, row = [t EXCEPT !.lost = TRUE]
  PROVE  row \in TryRow /\ row.pc = t.pc /\ row.job = t.job /\ row.ref = t.ref /\ row.lock = t.lock
BY DEF TryRow

LEMMA PreflightKeeps ==
  ASSUME ImageInv, NEW a \in Attempts, Preflight(a)
  PROVE  ImageInv'
<1>1. PICK row : row = [try[a] EXCEPT !.lock = release.lock,
        !.pc = IF route = "v2" /\ release.lock = "none" THEN "resolve" ELSE "build"]
  OBVIOUS
<1>2. /\ row \in TryRow /\ row.job = try[a].job /\ row.lock = release.lock
      /\ row.pc = (IF route = "v2" /\ release.lock = "none" THEN "resolve" ELSE "build")
  <2>1. /\ (IF route = "v2" /\ release.lock = "none" THEN "resolve" ELSE "build") \in Steps
        /\ try[a] \in TryRow /\ release.lock \in Lock
    BY AttemptIs, Rests DEF Steps
  <2>2. QED
    BY <1>1, <2>1 DEF TryRow
<1>3. /\ try' = [try EXCEPT ![a] = row] /\ At(a, "preflight")
      /\ UNCHANGED <<route, build, release, temp, label, pushed, madeFrom, mixed, littered, images, tested>>
      /\ named' = named /\ upsets' = upsets
  BY <1>1 DEF Preflight, records, daemon, notes
<1>4. AtWork(a) /\ row.pc \notin Ended /\ try[a].pc \notin {"clean", "official"}
  BY <1>2, <1>3 DEF At, AtWork, Ended
<1>5. Progress(a, row)'
  BY <1>2 DEF Progress
<1>6. QED
  BY <1>2, <1>3, <1>4, <1>5, Rests, Onward DEF V2Steps

LEMMA StartResolveKeeps ==
  ASSUME ImageInv, NEW a \in Attempts, StartResolve(a)
  PROVE  ImageInv'
<1>1. At(a, "resolve") /\ AtWork(a) /\ try[a].pc \notin {"clean", "official"}
  BY DEF StartResolve, At, AtWork, Ended
<1>2. CASE named["resolve"] # 0
  BY <1>1, <1>2, OnlyStops DEF StartResolve, RunNamed
<1>3. CASE named["resolve"] = 0
  <2>1. /\ UNCHANGED <<route, build, release, temp, label, pushed, madeFrom, mixed, littered, images, tested>>
        /\ upsets' = upsets /\ named' = [named EXCEPT !["resolve"] = a] /\ Go(a, "resolving")
    BY <1>3 DEF StartResolve, RunNamed, records, notes
  <2>2. PICK row \in TryRow :
          /\ try' = [try EXCEPT ![a] = row] /\ row.pc = "resolving" /\ row.job = try[a].job
          /\ row.ref = try[a].ref /\ row.lock = try[a].lock
    BY <2>1, Moved DEF Steps
  <2>3. Progress(a, row)'
    BY <2>2 DEF Progress
  <2>4. route = "v2" /\ (Holds(a) => release.lock = "none")
    BY <1>1 DEF ImageInv, Jobs, Locks, At, V2Steps
  <2>5. named' \in [Names -> Image] /\ row.pc \notin Ended
    BY <2>1, <2>2, Rests, AttemptIs DEF Names, Ended
  <2>6. QED
    BY <1>1, <2>1, <2>2, <2>3, <2>4, <2>5, Rests, Onward
<1>4. QED
  BY <1>2, <1>3

LEMMA StartValidateKeeps ==
  ASSUME ImageInv, NEW a \in Attempts, StartValidate(a)
  PROVE  ImageInv'
<1>1. At(a, "validate") /\ AtWork(a) /\ try[a].pc \notin {"clean", "official"}
  BY DEF StartValidate, At, AtWork, Ended
<1>2. CASE Temp(a) = 0 \/ named["validate"] # 0
  BY <1>1, <1>2, OnlyStops DEF StartValidate
<1>3. CASE ~(Temp(a) = 0 \/ named["validate"] # 0)
  <2>1. PICK row : row = [try[a] EXCEPT !.pc = "validating", !.ref = Temp(a)]
    OBVIOUS
  <2>2. Temp(a) \in Image /\ Temp(a) = temp[try[a].job]
    BY <1>1, AttemptIs, Rests
  <2>3. row \in TryRow /\ row.job = try[a].job /\ row.pc = "validating" /\ row.ref = Temp(a)
    <3>1. try[a] \in TryRow /\ "validating" \in Steps /\ "finish" \in Steps
      BY AttemptIs DEF Steps
    <3>2. QED
      BY <2>1, <2>2, <3>1 DEF TryRow
  <2>4. /\ UNCHANGED <<route, build, release, temp, label, pushed, madeFrom, mixed, littered, images, tested>>
        /\ upsets' = upsets /\ named' = [named EXCEPT !["validate"] = a] /\ try' = [try EXCEPT ![a] = row]
    BY <1>3, <2>1 DEF StartValidate, records, notes
  <2>5. ASSUME ~mixed PROVE Progress(a, row)'
    <3>1. temp[try[a].job] = a /\ a \in images
      BY <1>1, <2>5 DEF ImageInv, Alone, Progress, At
    <3>2. QED
      BY <2>2, <2>3, <2>4, <3>1 DEF Progress
  <2>6. route = "v2" /\ named' \in [Names -> Image] /\ row.pc \notin Ended
    BY <1>1, <2>3, <2>4, Rests, AttemptIs DEF Names, Ended, ImageInv, Jobs, At, V2Steps
  <2>7. QED
    BY <1>1, <2>3, <2>4, <2>5, <2>6, Rests, Onward
<1>4. QED
  BY <1>2, <1>3

LEMMA ValidatedKeeps ==
  ASSUME ImageInv, NEW a \in Attempts, Validated(a)
  PROVE  ImageInv'
<1>1. At(a, "validating") /\ AtWork(a) /\ try[a].pc \notin {"clean", "official"}
  BY DEF Validated, At, AtWork, Ended
<1>2. /\ UNCHANGED <<route, build, release, temp, label, pushed, madeFrom, mixed, littered, images>>
      /\ upsets' = upsets /\ Vacated(a, "validate") /\ tested' = tested \cup {try[a].ref} /\ Go(a, "tag")
  BY DEF Validated, records
<1>3. PICK row \in TryRow :
        /\ try' = [try EXCEPT ![a] = row] /\ row.pc = "tag" /\ row.job = try[a].job
        /\ row.ref = try[a].ref /\ row.lock = try[a].lock
  BY <1>2, Moved DEF Steps
<1>4. ASSUME ~mixed PROVE Progress(a, row)'
  <2>1. temp[try[a].job] = a /\ a \in images /\ try[a].ref = a
    BY <1>1, <1>4 DEF ImageInv, Alone, Progress, At
  <2>2. QED
    BY <1>2, <1>3, <2>1 DEF Progress
<1>5. /\ route = "v2" /\ named' \in [Names -> Image] /\ row.pc \notin Ended
      /\ tested \subseteq tested' /\ tested' \in SUBSET Image
  BY <1>1, <1>2, <1>3, Rests, AttemptIs, Vacates DEF Names, Ended, ImageInv, Jobs, At, V2Steps
<1>6. QED
  BY <1>1, <1>2, <1>3, <1>4, <1>5, Rests, Onward

LEMMA ReadDigestKeeps ==
  ASSUME ImageInv, NEW a \in Attempts, ReadDigest(a)
  PROVE  ImageInv'
<1>1. At(a, "digest") /\ AtWork(a) /\ try[a].pc \notin {"clean", "official"}
  BY DEF ReadDigest, At, AtWork, Ended
<1>2. CASE label["repository"] \notin pushed
  BY <1>1, <1>2, OnlyStops DEF ReadDigest
<1>3. CASE label["repository"] \in pushed
  <2>1. PICK row : row = [try[a] EXCEPT !.pc = "pull", !.ref = label["repository"]]
    OBVIOUS
  <2>2. row \in TryRow /\ row.job = try[a].job /\ row.pc = "pull" /\ row.ref = label["repository"]
    <3>1. try[a] \in TryRow /\ "pull" \in Steps /\ label["repository"] \in Image
      BY AttemptIs, Rests DEF Steps
    <3>2. QED
      BY <2>1, <3>1 DEF TryRow
  <2>3. /\ UNCHANGED <<route, build, release, temp, label, pushed, madeFrom, mixed, littered, images, tested>>
        /\ upsets' = upsets /\ named' = named /\ try' = [try EXCEPT ![a] = row]
    BY <1>3, <2>1 DEF ReadDigest, records, daemon, notes
  <2>4. route = "v2" /\ row.pc \notin Ended
    BY <1>1, <2>2 DEF Ended, ImageInv, Jobs, At, V2Steps
  <2>5. ASSUME ~mixed PROVE Progress(a, row)'
    <3>1. temp[try[a].job] = a /\ a \in images /\ a \in tested /\ label["repository"] = a
      BY <1>1, <2>4, <2>5 DEF ImageInv, Alone, Progress, At
    <3>2. QED
      BY <2>2, <2>3, <3>1 DEF Progress
  <2>6. QED
    BY <1>1, <1>3, <2>2, <2>3, <2>4, <2>5, Rests, Onward
<1>4. QED
  BY <1>2, <1>3

LEMMA SmokeKeeps ==
  ASSUME ImageInv, NEW a \in Attempts, Smoke(a)
  PROVE  ImageInv'
<1>1. At(a, "smoke") /\ AtWork(a) /\ try[a].pc \notin {"clean", "official"}
  BY DEF Smoke, At, AtWork, Ended
<1>2. CASE Temp(a) = 0
  BY <1>1, <1>2, OnlyStops DEF Smoke
<1>3. CASE Temp(a) # 0
  <2>1. /\ UNCHANGED <<route, build, release, temp, label, pushed, madeFrom, mixed, littered, images, named>>
        /\ upsets' = upsets /\ tested' = tested \cup {Temp(a)} /\ Go(a, "inspect")
    BY <1>3 DEF Smoke, records, daemon
  <2>2. PICK row \in TryRow :
          /\ try' = [try EXCEPT ![a] = row] /\ row.pc = "inspect" /\ row.job = try[a].job
          /\ row.ref = try[a].ref /\ row.lock = try[a].lock
    BY <2>1, Moved DEF Steps
  <2>3. Temp(a) \in Image /\ Temp(a) = temp[try[a].job]
    BY <1>1, AttemptIs, Rests
  <2>4. route = "legacy" /\ row.pc \notin Ended
    BY <1>1, <2>2 DEF Ended, ImageInv, Jobs, At
  <2>5. ASSUME ~mixed PROVE Progress(a, row)'
    <3>1. temp[try[a].job] = a /\ a \in images
      BY <1>1, <2>5 DEF ImageInv, Alone, Progress, At
    <3>2. QED
      BY <2>1, <2>2, <2>3, <2>4, <3>1 DEF Progress
  <2>6. tested \subseteq tested' /\ tested' \in SUBSET Image
    BY <2>1, <2>3, Rests
  <2>7. QED
    BY <1>1, <2>1, <2>2, <2>4, <2>5, <2>6, Rests, Onward DEF V2Steps
<1>4. QED
  BY <1>2, <1>3

LEMMA InspectIdKeeps ==
  ASSUME ImageInv, NEW a \in Attempts, InspectId(a)
  PROVE  ImageInv'
<1>1. At(a, "inspect") /\ AtWork(a) /\ try[a].pc \notin {"clean", "official"}
  BY DEF InspectId, At, AtWork, Ended
<1>2. CASE Temp(a) = 0
  BY <1>1, <1>2, OnlyStops DEF InspectId
<1>3. CASE Temp(a) # 0
  <2>1. PICK row : row = [try[a] EXCEPT !.pc = "finish", !.ref = Temp(a)]
    OBVIOUS
  <2>2. Temp(a) \in Image /\ Temp(a) = temp[try[a].job]
    BY <1>1, AttemptIs, Rests
  <2>3. row \in TryRow /\ row.job = try[a].job /\ row.pc = "finish" /\ row.ref = Temp(a)
    <3>1. try[a] \in TryRow /\ "validating" \in Steps /\ "finish" \in Steps
      BY AttemptIs DEF Steps
    <3>2. QED
      BY <2>1, <2>2, <3>1 DEF TryRow
  <2>4. /\ UNCHANGED <<route, build, release, temp, label, pushed, madeFrom, mixed, littered, images, tested>>
        /\ upsets' = upsets /\ named' = named /\ try' = [try EXCEPT ![a] = row]
    BY <1>3, <2>1 DEF InspectId, records, daemon, notes
  <2>5. route = "legacy" /\ row.pc \notin Ended
    BY <1>1, <2>3 DEF Ended, ImageInv, Jobs, At
  <2>6. ASSUME ~mixed PROVE Progress(a, row)'
    <3>1. temp[try[a].job] = a /\ a \in images /\ a \in tested
      BY <1>1, <2>6 DEF ImageInv, Alone, Progress, At
    <3>2. QED
      BY <2>2, <2>3, <2>4, <2>5, <3>1 DEF Progress
  <2>7. QED
    BY <1>1, <2>3, <2>4, <2>5, <2>6, Rests, Onward DEF V2Steps
<1>4. QED
  BY <1>2, <1>3

LEMMA LeaseGoneKeeps ==
  ASSUME ImageInv, NEW a \in Attempts, LeaseGone(a)
  PROVE  ImageInv'
<1>1. PICK row : row = [try[a] EXCEPT !.lost = TRUE]
  OBVIOUS
<1>2. /\ row \in TryRow /\ row.job = try[a].job /\ row.pc = try[a].pc /\ row.ref = try[a].ref
      /\ row.lock = try[a].lock
  <2>1. try[a] \in TryRow
    BY AttemptIs
  <2>2. QED
    BY <1>1, <2>1, RowLost
<1>3. /\ UNCHANGED <<route, build, release, temp, label, pushed, madeFrom, mixed, littered, images, tested>>
      /\ upsets' = upsets /\ named' = named /\ try' = [try EXCEPT ![a] = row] /\ AtWork(a) /\ ~Holds(a)
  BY <1>1 DEF LeaseGone, records, daemon, notes, AtWork
<1>4. ASSUME ~mixed PROVE Progress(a, row)'
  <2>1. Progress(a, try[a])
    BY <1>4 DEF ImageInv, Alone
  <2>2. QED
    BY <1>2, <1>3, <2>1 DEF Progress
<1>5. /\ row.pc \in {"smoke", "inspect"} => route = "legacy"
      /\ row.pc \in V2Steps => route = "v2"
      /\ route = "v2" /\ row.pc \in {"pull", "finish"} => row.ref \in pushed
      /\ route = "v2" /\ row.pc = "build" => release.lock # "none" /\ row.lock = release.lock
  BY <1>2 DEF ImageInv, Jobs, InRegistry, Locks, At
<1>6. row.pc \notin Ended /\ (row.pc # "official" \/ At(a, "official"))
  BY <1>2, <1>3 DEF At, AtWork
<1>7. QED
  BY <1>2, <1>3, <1>4, <1>5, <1>6, Rests, Onward

LEMMA PushAndPull ==
  ASSUME ImageInv, NEW a \in Attempts, PushImage(a) \/ PullImage(a)
  PROVE  ImageInv'
<1>1. PICK pc \in {"digest", "finish"} :
        /\ Go(a, pc) /\ UNCHANGED <<route, build, release, named, temp, label, madeFrom, mixed, littered, tested, upsets>>
        /\ pc = "digest" => At(a, "push") /\ pushed' = pushed \cup {label["repository"]} /\ images' = images
        /\ pc = "finish" => At(a, "pull") /\ pushed' = pushed /\ images' = images \cup {try[a].ref}
  BY DEF PushImage, PullImage, records, notes
<1>2. PICK row \in TryRow :
        /\ try' = [try EXCEPT ![a] = row] /\ row.pc = pc /\ row.job = try[a].job
        /\ row.ref = try[a].ref /\ row.lock = try[a].lock
  BY <1>1, Moved DEF Steps
<1>3. AtWork(a) /\ try[a].pc \in {"push", "pull"} /\ row.pc \notin Ended
  BY <1>1, <1>2 DEF At, AtWork, Ended
<1>4. route = "v2" /\ (pc = "finish" => row.ref \in pushed)
  BY <1>1, <1>2, <1>3 DEF ImageInv, Jobs, InRegistry, V2Steps, At
<1>5. /\ pushed \subseteq pushed' /\ pushed' \in SUBSET Image
      /\ images \subseteq images' /\ images' \in SUBSET Image
  BY <1>1, Rests, AttemptIs
<1>6. ASSUME ~mixed PROVE Progress(a, row)'
  <2>1. temp[try[a].job] = a /\ a \in images /\ a \in tested /\ label["repository"] = a
    BY <1>3, <1>4, <1>6 DEF ImageInv, Alone, Progress
  <2>2. pc = "finish" => try[a].ref = a
    BY <1>1, <1>6 DEF ImageInv, Alone, Progress, At
  <2>3. QED
    BY <1>1, <1>2, <1>5, <2>1, <2>2 DEF Progress
<1>7. row.pc \notin V2Steps \/ route = "v2"
  BY <1>4
<1>8. QED
  BY <1>1, <1>2, <1>3, <1>4, <1>5, <1>6, <1>7, Rests, Onward

LEMMA OneMoves ==
  ASSUME ImageInv, NEW a \in Attempts, NEW row \in TryRow, try' = [try EXCEPT ![a] = row]
  PROVE  /\ try' \in [Attempts -> TryRow] /\ try'[a] = row
         /\ \A b \in Attempts : b # a => try'[b] = try[b]
BY DEF ImageInv, ImageType

\* The rows and images are as they were, and so is whoever is at work.
LEMMA ContainerKeeps ==
  ASSUME ImageInv, NEW name \in Names, ContainerEnds(name)
  PROVE  ImageInv'
<1>1. /\ UNCHANGED <<route, build, release, try, temp, label, images, pushed, tested, madeFrom, upsets, mixed, littered>>
      /\ named' \in [Names -> Image]
  BY Rests DEF ContainerEnds, records, notes, Image
<1>2. ImageType' /\ Jobs' /\ Locks'
  BY <1>1 DEF ImageInv, ImageType, Jobs, Locks, At, AtWork, Available, Holds
<1>3. InRegistry' /\ Tidied'
  BY <1>1 DEF ImageInv, InRegistry, Tidied, AtWork, Available
<1>4. Alone'
  BY <1>1 DEF ImageInv, Alone, Progress, AtWork, Available
<1>5. QED
  BY <1>2, <1>3, <1>4 DEF ImageInv

\* The job is queued again, or another one for the version.
LEMMA QueuedKeeps ==
  ASSUME ImageInv, Recovered \/ RetryBuild
  PROVE  ImageInv'
<1>1. /\ UNCHANGED <<route, try, named, temp, label, images, pushed, tested, madeFrom, mixed, littered>>
      /\ upsets' \in Nat /\ build' \in BuildRow /\ build'.status = "queued" /\ ~Available
      /\ build'.n >= 1 /\ (build'.n = 1 \/ build'.n \in Attempts)
      /\ release' \in ReleaseRow /\ release'.lock = release.lock /\ release'.status # "available"
  <2>1. CASE Recovered
    <3>1. /\ UNCHANGED <<route, release, try, named, temp, label, images, pushed, tested, madeFrom, mixed, littered>>
          /\ upsets' \in Nat /\ build.status = "building"
          /\ build' = [build EXCEPT !.status = "queued", !.holder = 0]
      BY <2>1, Rests DEF Recovered, daemon, notes
    <3>2. build' \in BuildRow /\ build'.status = "queued" /\ build'.n = build.n
      BY <3>1 DEF ImageInv, ImageType, BuildRow, Image
    <3>3. QED
      BY <3>1, <3>2 DEF ImageInv, ImageType, Jobs, Available
  <2>2. CASE RetryBuild
    <3>1. /\ UNCHANGED <<route, try, named, temp, label, images, pushed, tested, madeFrom, mixed, littered, upsets>>
          /\ build.status = "failed" /\ build.n < Cardinality(Attempts)
          /\ build' = [n |-> build.n + 1, status |-> "queued", holder |-> 0]
          /\ release' = [release EXCEPT !.status = "building"]
      BY <2>2 DEF RetryBuild, daemon, notes
    <3>2. build.n \in Nat /\ build.n >= 1 /\ upsets \in Nat
      BY DEF ImageInv, ImageType, Jobs, BuildRow
    <3>3. PICK n \in Nat : n = build.n + 1
      BY <3>2
    <3>4. n \in Attempts /\ n >= 1
      BY <3>1, <3>2, <3>3, AttemptsAre
    <3>5. build' \in BuildRow /\ build'.status = "queued" /\ build'.n = n
      BY <3>1, <3>3 DEF BuildRow, Image
    <3>6. release' \in ReleaseRow /\ release'.lock = release.lock /\ release'.status = "building"
      BY <3>1 DEF ImageInv, ImageType, ReleaseRow
    <3>7. QED
      BY <3>1, <3>2, <3>4, <3>5, <3>6 DEF ImageInv, Jobs, Available
  <2>3. QED
    BY <2>1, <2>2
<1>2. ImageType' /\ Jobs'
  BY <1>1 DEF ImageInv, ImageType, Jobs, At, AtWork, Available
<1>3. Locks' /\ InRegistry'
  BY <1>1 DEF ImageInv, Locks, InRegistry, Holds, At, Available
<1>4. Tidied'
  BY <1>1 DEF ImageInv, Tidied, AtWork, Available
<1>5. Alone'
  BY <1>1 DEF ImageInv, Alone, Progress, AtWork, Available
<1>6. QED
  BY <1>2, <1>3, <1>4, <1>5 DEF ImageInv

LEMMA ClaimKeeps ==
  ASSUME ImageInv, NEW a \in Attempts, ClaimBuild(a)
  PROVE  ImageInv'
<1>1. /\ UNCHANGED <<route, release, named, temp, label, images, pushed, tested, madeFrom, littered, upsets>>
      /\ build' = [build EXCEPT !.status = "building", !.holder = a] /\ build.status = "queued"
      /\ mixed' = (mixed \/ \E b \in Attempts : AtWork(b)) /\ ~AtWork(a)
  BY DEF ClaimBuild, daemon, AtWork, At, Ended
<1>2. build.n \in Nat /\ build.n \in Attempts /\ ~Available
  BY <1>1, AttemptsAre DEF ImageInv, ImageType, Jobs, BuildRow
<1>3. PICK row : row = [NotBegun EXCEPT !.pc = "preflight", !.job = build.n]
  OBVIOUS
<1>4. row \in TryRow /\ row.pc = "preflight" /\ row.job = build.n
  BY <1>2, <1>3 DEF NotBegun, TryRow, Steps, Lock, Image
<1>5. try' = [try EXCEPT ![a] = row]
  BY <1>3 DEF ClaimBuild
<1>6. /\ try' \in [Attempts -> TryRow] /\ try'[a] = row
      /\ \A b \in Attempts : b # a => try'[b] = try[b]
  BY <1>4, <1>5, OneMoves
<1>7. build' \in BuildRow /\ build'.status = "building" /\ build'.holder = a /\ build'.n = build.n
  BY <1>1, AttemptIs DEF ImageInv, ImageType, BuildRow
<1>8. ImageType'
  BY <1>1, <1>6, <1>7 DEF ImageInv, ImageType
<1>9. Jobs'
  <2>1. \A b \in Attempts : AtWork(b)' => try'[b].job \in Attempts
    BY <1>2, <1>4, <1>6 DEF ImageInv, Jobs, AtWork
  <2>2. \A b \in Attempts :
          /\ try'[b].pc \in {"smoke", "inspect", "official"} => route = "legacy"
          /\ try'[b].pc \in V2Steps => route = "v2"
          /\ At(b, "official")' => Available
    BY <1>4, <1>6 DEF ImageInv, Jobs, At, V2Steps
  <2>3. QED
    BY <1>1, <1>2, <1>4, <1>6, <1>7, <2>1, <2>2 DEF ImageInv, Jobs, Available, At
<1>10. Locks'
  BY <1>1, <1>4, <1>6, <1>7 DEF ImageInv, Locks, Holds, At
<1>11. InRegistry'
  BY <1>1, <1>2, <1>4, <1>6 DEF ImageInv, InRegistry, Available
<1>12. Tidied'
  BY <1>1, <1>4, <1>6 DEF ImageInv, Tidied, AtWork, Available
<1>13. ASSUME ~mixed' PROVE Alone'
  <2>1. ~mixed /\ \A b \in Attempts : ~AtWork(b)
    BY <1>1, <1>13
  <2>2. \A b, c \in Attempts : AtWork(b)' /\ AtWork(c)' => b = c
    BY <1>6, <2>1 DEF AtWork
  <2>3. \A b \in Attempts : b # a => try'[b].pc \in Ended
    BY <1>6, <2>1 DEF AtWork
  <2>4. \A b \in Attempts : Progress(b, try[b])'
    BY <1>4, <1>6, <2>3 DEF Progress, Ended
  <2>5. QED
    BY <1>1, <1>2, <2>2, <2>4 DEF Alone, Available
<1>14. QED
  BY <1>8, <1>9, <1>10, <1>11, <1>12, <1>13 DEF ImageInv, Alone

\* A worker dies, or leaves its image behind.
LEMMA LitterKeeps ==
  ASSUME ImageInv, NEW a \in Attempts, WorkerDies(a) \/ CleanUpFails(a)
  PROVE  ImageInv'
<1>1. /\ UNCHANGED <<route, build, release, named, temp, label, images, pushed, tested, madeFrom, mixed>>
      /\ upsets' \in Nat /\ littered' = TRUE /\ Go(a, "gone") /\ AtWork(a)
  BY Rests DEF WorkerDies, CleanUpFails, records, daemon, At, AtWork, Ended
<1>2. PICK row \in TryRow : try' = [try EXCEPT ![a] = row] /\ row.pc = "gone"
  BY <1>1, Moved DEF Steps
<1>3. /\ try' \in [Attempts -> TryRow] /\ try'[a] = row
      /\ \A b \in Attempts : b # a => try'[b] = try[b]
  BY <1>2, OneMoves
<1>4. ImageType' /\ Tidied'
  BY <1>1, <1>3 DEF ImageInv, ImageType, Tidied
<1>5. Jobs'
  <2>1. \A b \in Attempts :
          /\ AtWork(b)' => try'[b].job \in Attempts
          /\ try'[b].pc \in {"smoke", "inspect", "official"} => route = "legacy"
          /\ try'[b].pc \in V2Steps => route = "v2"
          /\ At(b, "official")' => Available
    BY <1>2, <1>3 DEF ImageInv, Jobs, At, AtWork, V2Steps, Ended
  <2>2. QED
    BY <1>1, <1>2, <1>3, <2>1 DEF ImageInv, Jobs, Available, At
<1>6. Locks' /\ InRegistry'
  BY <1>1, <1>2, <1>3 DEF ImageInv, Locks, InRegistry, Holds, At, Available
<1>7. ASSUME ~mixed PROVE Alone'
  <2>1. \A b \in Attempts : ~AtWork(b)'
    BY <1>1, <1>2, <1>3, <1>7 DEF ImageInv, Alone, AtWork, Ended
  <2>2. \A b \in Attempts : Progress(b, try[b])'
    BY <2>1 DEF Progress, AtWork, Ended
  <2>3. QED
    BY <1>1, <1>7, <2>1, <2>2 DEF ImageInv, Alone, Available
<1>8. QED
  BY <1>1, <1>4, <1>5, <1>6, <1>7 DEF ImageInv, Alone

\* While nobody else is at work an attempt short of the end finds no image made available.
LEMMA NotYet ==
  ASSUME ImageInv, NEW a \in Attempts, AtWork(a), try[a].pc \notin {"clean", "official"}, ~mixed
  PROVE  /\ ~Available /\ Progress(a, try[a])
         /\ \A b \in Attempts : b # a => ~AtWork(b)
BY DEF ImageInv, Alone

\* The lock of a version is stored once, by the attempt that holds the lease.
LEMMA PersistKeeps ==
  ASSUME ImageInv, NEW a \in Attempts, Persist(a)
  PROVE  ImageInv'
<1>1. /\ At(a, "resolving") /\ AtWork(a) /\ try[a].pc \notin {"clean", "official"}
      /\ UNCHANGED <<route, build, temp, label, images, pushed, tested, madeFrom, mixed, littered, upsets>>
      /\ named' \in [Names -> Image]
  BY Vacates DEF Persist, notes, At, AtWork, Ended, Names
<1>2. CASE ~Holds(a)
  BY <1>1, <1>2, Rests, GoesTo DEF Persist
<1>3. CASE Holds(a)
  <2>1. PICK lock \in Resolved : KeepLock(a, lock)
    BY <1>3 DEF Persist
  <2>2. PICK row : row = [try[a] EXCEPT !.lock = lock, !.pc = "build"]
    OBVIOUS
  <2>3. row \in TryRow /\ row.job = try[a].job /\ row.pc = "build" /\ row.lock = lock
    <3>1. try[a] \in TryRow /\ lock \in Lock /\ "build" \in Steps
      BY AttemptIs DEF Lock, Steps
    <3>2. QED
      BY <2>2, <3>1 DEF TryRow
  <2>4. try' = [try EXCEPT ![a] = row]
    BY <2>1, <2>2 DEF KeepLock
  <2>5. /\ try' \in [Attempts -> TryRow] /\ try'[a] = row
        /\ \A b \in Attempts : b # a => try'[b] = try[b]
    BY <2>3, <2>4, OneMoves
  <2>6. /\ release' \in ReleaseRow /\ release'.lock = lock
        /\ release'.status = release.status /\ release'.image = release.image
    BY <2>1 DEF KeepLock, ImageInv, ImageType, ReleaseRow, Lock
  <2>7. ImageType'
    BY <1>1, <2>5, <2>6 DEF ImageInv, ImageType
  <2>8. Jobs'
    <3>1. \A b \in Attempts :
            /\ AtWork(b)' => try'[b].job \in Attempts
            /\ try'[b].pc \in {"smoke", "inspect", "official"} => route = "legacy"
            /\ try'[b].pc \in V2Steps => route = "v2"
            /\ At(b, "official")' => Available
      BY <1>1, <2>3, <2>5 DEF ImageInv, Jobs, At, AtWork, V2Steps
    <3>2. QED
      BY <1>1, <2>3, <2>5, <2>6, <3>1 DEF ImageInv, Jobs, Available, At
  <2>9. Locks'
    <3>1. \A i \in Attempts : madeFrom[i] = "none"
      BY <1>1, <1>3 DEF ImageInv, Locks, At
    <3>2. \A b \in Attempts : Holds(b)' => b = a
      BY <1>1, <1>3 DEF Holds
    <3>3. route = "v2" => \A b \in Attempts : ~At(b, "build")
      BY <1>1, <1>3 DEF ImageInv, Locks, At
    <3>4. lock # "none"
      BY ImageAssumption
    <3>5. QED
      BY <1>1, <2>3, <2>5, <2>6, <3>1, <3>2, <3>3, <3>4 DEF Locks, At
  <2>10. InRegistry'
    BY <1>1, <2>3, <2>5, <2>6 DEF ImageInv, InRegistry, Available
  <2>11. Tidied'
    BY <1>1, <2>3, <2>5, <2>6 DEF ImageInv, Tidied, AtWork, Available, Ended
  <2>12. ASSUME ~mixed PROVE Alone'
    <3>1. ~Available /\ \A b \in Attempts : b # a => ~AtWork(b)
      BY <1>1, <2>12, NotYet
    <3>2. \A b \in Attempts : b # a => ~AtWork(b)'
      BY <2>5, <3>1 DEF AtWork
    <3>3. \A b \in Attempts : Progress(b, try[b])'
      BY <2>3, <2>5, <3>2 DEF Progress, AtWork, Ended
    <3>4. QED
      BY <2>6, <3>1, <3>2, <3>3 DEF Alone, Available
  <2>13. QED
    BY <1>1, <2>7, <2>8, <2>9, <2>10, <2>11, <2>12 DEF ImageInv, Alone
<1>4. QED
  BY <1>2, <1>3

\* A new image takes the tag of its job.
LEMMA BuildKeeps ==
  ASSUME ImageInv, NEW a \in Attempts, DockerBuild(a) \/ LegacyBuild(a)
  PROVE  ImageInv'
<1>1. PICK lock \in Lock, pc \in {"validate", "smoke"} :
        /\ Makes(a, lock, pc) /\ (lock = "none" \/ (lock = try[a].lock /\ route = "v2"))
        /\ pc = "validate" => route = "v2"
        /\ pc = "smoke" => route = "legacy"
  <2>1. try[a].lock \in Lock /\ "none" \in Lock
    BY AttemptIs DEF Lock
  <2>2. QED
    BY <2>1 DEF DockerBuild, LegacyBuild, Rendered
<1>2. /\ At(a, "build") /\ AtWork(a) /\ try[a].pc \notin {"clean", "official"}
      /\ images' = images \cup {a} /\ temp' = [temp EXCEPT ![try[a].job] = a]
      /\ madeFrom' = [madeFrom EXCEPT ![a] = lock] /\ Go(a, pc)
      /\ UNCHANGED <<route, build, release, named, label, pushed, tested, mixed, littered, upsets>>
  BY <1>1 DEF Makes, records, At, AtWork, Ended
<1>3. PICK row \in TryRow :
        /\ try' = [try EXCEPT ![a] = row] /\ row.pc = pc /\ row.job = try[a].job
        /\ row.ref = try[a].ref /\ row.lock = try[a].lock
  BY <1>2, Moved DEF Steps
<1>4. /\ try' \in [Attempts -> TryRow] /\ try'[a] = row
      /\ \A b \in Attempts : b # a => try'[b] = try[b]
  BY <1>3, OneMoves
<1>5. row.job \in Attempts /\ a \in Image
  BY <1>2, <1>3, AttemptIs
<1>6. /\ temp' \in [Attempts -> Image] /\ temp'[row.job] = a
      /\ \A j \in Attempts : j # row.job => temp'[j] = temp[j]
  BY <1>2, <1>3, <1>5, Rests
<1>7. /\ madeFrom' \in [Attempts -> Lock] /\ madeFrom'[a] = lock
      /\ \A i \in Attempts : i # a => madeFrom'[i] = madeFrom[i]
  BY <1>2 DEF ImageInv, ImageType
<1>8. ImageType'
  BY <1>2, <1>4, <1>5, <1>6, <1>7 DEF ImageInv, ImageType
<1>9. Jobs'
  <2>1. \A b \in Attempts :
          /\ AtWork(b)' => try'[b].job \in Attempts
          /\ try'[b].pc \in {"smoke", "inspect", "official"} => route = "legacy"
          /\ try'[b].pc \in V2Steps => route = "v2"
          /\ At(b, "official")' => Available
    BY <1>1, <1>2, <1>3, <1>4 DEF ImageInv, Jobs, At, AtWork, V2Steps
  <2>2. QED
    BY <1>2, <1>3, <1>4, <2>1 DEF ImageInv, Jobs, Available, At
<1>10. Locks'
  <2>1. lock = "none" \/ lock = release.lock
    BY <1>1, <1>2 DEF ImageInv, Locks
  <2>2. pc \notin {"resolve", "resolving", "build"}
    BY <1>1
  <2>3. QED
    BY <1>2, <1>3, <1>4, <1>7, <2>1, <2>2 DEF ImageInv, Locks, At, Holds
<1>11. InRegistry'
  BY <1>2, <1>3, <1>4 DEF ImageInv, InRegistry, Available
<1>12. Tidied'
  <2>1. SUFFICES ASSUME ~littered, NEW j \in Attempts, temp'[j] # 0, ~(route = "legacy" /\ Available)
                 PROVE  \E b \in Attempts : AtWork(b)' /\ try'[b].job = j
    BY <1>2 DEF Tidied, Available
  <2>2. AtWork(a)' /\ try'[a].job = row.job
    BY <1>3, <1>4 DEF AtWork, Ended
  <2>3. CASE j # row.job
    <3>1. PICK b \in Attempts : AtWork(b) /\ try[b].job = j
      BY <1>6, <2>1, <2>3 DEF ImageInv, Tidied
    <3>2. b # a
      BY <1>3, <2>3, <3>1
    <3>3. QED
      BY <1>4, <3>1, <3>2 DEF AtWork
  <2>4. QED
    BY <2>2, <2>3
<1>13. ASSUME ~mixed PROVE Alone'
  <2>1. ~Available /\ \A b \in Attempts : b # a => ~AtWork(b)
    BY <1>2, <1>13, NotYet
  <2>2. \A b \in Attempts : b # a => ~AtWork(b)'
    BY <1>4, <2>1 DEF AtWork
  <2>3. Progress(a, try[a])'
    BY <1>2, <1>3, <1>4, <1>6 DEF Progress
  <2>4. \A b \in Attempts : Progress(b, try[b])'
    BY <2>2, <2>3 DEF Progress, AtWork, Ended
  <2>5. QED
    BY <1>2, <2>1, <2>2, <2>4 DEF Alone, Available
<1>14. QED
  BY <1>2, <1>8, <1>9, <1>10, <1>11, <1>12, <1>13 DEF ImageInv, Alone

\* The tag of a job is removed, and the image with its last tag.
LEMMA Removed ==
  ASSUME ImageInv, NEW a \in Attempts, AtWork(a),
         temp' = [temp EXCEPT ![try[a].job] = 0], images' = Untagged(Temp(a), temp'), label' = label
  PROVE  /\ try[a].job \in Attempts /\ temp' \in [Attempts -> Image] /\ temp'[try[a].job] = 0
         /\ \A j \in Attempts : j # try[a].job => temp'[j] = temp[j]
         /\ images' \in SUBSET Image /\ (label["repository"] \in images => label["repository"] \in images')
<1>1. try[a].job \in Attempts /\ 0 \in Image
  BY AttemptIs DEF Image
<1>2. label["repository"] \in Range(label)
  BY DEF ImageInv, ImageType, Range
<1>3. images' \subseteq images /\ (label["repository"] \in images => label["repository"] \in images')
  BY <1>2 DEF Untagged
<1>4. QED
  BY <1>1, <1>3, Rests

LEMMA BuildTimesOutKeeps ==
  ASSUME ImageInv, NEW a \in Attempts, BuildTimesOut(a)
  PROVE  ImageInv'
<1>1. /\ At(a, "build") /\ AtWork(a) /\ try[a].pc \notin {"clean", "official"} /\ Go(a, "fail")
      /\ temp' = [temp EXCEPT ![try[a].job] = 0] /\ images' = Untagged(Temp(a), temp')
      /\ UNCHANGED <<route, build, release, named, label, pushed, tested, madeFrom, mixed, littered>>
      /\ upsets' \in Nat
  BY Rests DEF BuildTimesOut, records, notes, At, AtWork, Ended
<1>2. PICK row \in TryRow :
        /\ try' = [try EXCEPT ![a] = row] /\ row.pc = "fail" /\ row.job = try[a].job
        /\ row.ref = try[a].ref /\ row.lock = try[a].lock
  BY <1>1, Moved DEF Steps
<1>3. /\ try' \in [Attempts -> TryRow] /\ try'[a] = row
      /\ \A b \in Attempts : b # a => try'[b] = try[b]
  BY <1>2, OneMoves
<1>4. /\ row.job \in Attempts /\ temp' \in [Attempts -> Image] /\ temp'[row.job] = 0
      /\ \A j \in Attempts : j # row.job => temp'[j] = temp[j]
      /\ images' \in SUBSET Image
  BY <1>1, <1>2, Removed
<1>5. ImageType'
  BY <1>1, <1>3, <1>4 DEF ImageInv, ImageType
<1>6. Jobs'
  <2>1. \A b \in Attempts :
          /\ AtWork(b)' => try'[b].job \in Attempts
          /\ try'[b].pc \in {"smoke", "inspect", "official"} => route = "legacy"
          /\ try'[b].pc \in V2Steps => route = "v2"
          /\ At(b, "official")' => Available
    BY <1>1, <1>2, <1>3, <1>4 DEF ImageInv, Jobs, At, AtWork, V2Steps
  <2>2. QED
    BY <1>1, <1>2, <1>3, <2>1 DEF ImageInv, Jobs, Available, At
<1>7. Locks' /\ InRegistry'
  BY <1>1, <1>2, <1>3 DEF ImageInv, Locks, InRegistry, Holds, At, Available
<1>8. Tidied'
  <2>1. \A b \in Attempts : AtWork(b) => AtWork(b)' /\ try'[b].job = try[b].job
    BY <1>2, <1>3 DEF AtWork, Ended
  <2>2. QED
    BY <1>1, <1>4, <2>1 DEF ImageInv, Tidied, Available
<1>9. ASSUME ~mixed PROVE Alone'
  <2>1. ~Available /\ \A b \in Attempts : b # a => ~AtWork(b)
    BY <1>1, <1>9, NotYet
  <2>2. \A b \in Attempts : b # a => ~AtWork(b)'
    BY <1>3, <2>1 DEF AtWork
  <2>3. \A b \in Attempts : Progress(b, try[b])'
    BY <1>2, <1>3, <2>2 DEF Progress, AtWork, Ended
  <2>4. QED
    BY <1>1, <2>1, <2>2, <2>3 DEF Alone, Available
<1>10. QED
  BY <1>1, <1>5, <1>6, <1>7, <1>8, <1>9 DEF ImageInv, Alone

LEMMA TagForRegistryKeeps ==
  ASSUME ImageInv, NEW a \in Attempts, TagForRegistry(a)
  PROVE  ImageInv'
<1>1. At(a, "tag") /\ AtWork(a) /\ try[a].pc \notin {"clean", "official"}
  BY DEF TagForRegistry, At, AtWork, Ended
<1>2. CASE Temp(a) = 0
  BY <1>1, <1>2, OnlyStops DEF TagForRegistry
<1>3. CASE Temp(a) # 0
  <2>1. /\ label' = [label EXCEPT !["repository"] = Temp(a)] /\ Go(a, "push")
        /\ UNCHANGED <<route, build, release, named, temp, images, pushed, tested, madeFrom, mixed, littered, upsets>>
    BY <1>3 DEF TagForRegistry, records, notes
  <2>2. PICK row \in TryRow :
          /\ try' = [try EXCEPT ![a] = row] /\ row.pc = "push" /\ row.job = try[a].job
          /\ row.ref = try[a].ref /\ row.lock = try[a].lock
    BY <2>1, Moved DEF Steps
  <2>3. /\ try' \in [Attempts -> TryRow] /\ try'[a] = row
        /\ \A b \in Attempts : b # a => try'[b] = try[b]
    BY <2>2, OneMoves
  <2>4. /\ Temp(a) \in Image /\ Temp(a) = temp[try[a].job] /\ row.job \in Attempts /\ route = "v2"
    BY <1>1, <2>2, AttemptIs, Rests DEF ImageInv, Jobs, At, V2Steps
  <2>5. label' \in [{"repository", "official"} -> Image] /\ label'["repository"] = Temp(a)
    BY <2>1, <2>4 DEF ImageInv, ImageType
  <2>6. ImageType'
    BY <2>1, <2>3, <2>5 DEF ImageInv, ImageType
  <2>7. Jobs'
    <3>1. \A b \in Attempts :
            /\ AtWork(b)' => try'[b].job \in Attempts
            /\ try'[b].pc \in {"smoke", "inspect", "official"} => route = "legacy"
            /\ try'[b].pc \in V2Steps => route = "v2"
            /\ At(b, "official")' => Available
      BY <2>1, <2>2, <2>3, <2>4 DEF ImageInv, Jobs, At, AtWork, V2Steps
    <3>2. QED
      BY <2>1, <2>2, <2>3, <3>1 DEF ImageInv, Jobs, Available, At
  <2>8. Locks' /\ InRegistry'
    BY <2>1, <2>2, <2>3 DEF ImageInv, Locks, InRegistry, Holds, At, Available
  <2>9. Tidied'
    <3>1. \A b \in Attempts : AtWork(b) => AtWork(b)' /\ try'[b].job = try[b].job
      BY <2>2, <2>3 DEF AtWork, Ended
    <3>2. QED
      BY <2>1, <3>1 DEF ImageInv, Tidied, Available
  <2>10. ASSUME ~mixed PROVE Alone'
    <3>1. ~Available /\ Progress(a, try[a]) /\ \A b \in Attempts : b # a => ~AtWork(b)
      BY <1>1, <2>10, NotYet
    <3>2. \A b \in Attempts : b # a => ~AtWork(b)'
      BY <2>3, <3>1 DEF AtWork
    <3>3. temp[try[a].job] = a /\ a \in images /\ a \in tested
      BY <1>1, <3>1 DEF Progress, At
    <3>4. Progress(a, try[a])'
      BY <2>1, <2>2, <2>3, <2>4, <2>5, <3>3 DEF Progress
    <3>5. \A b \in Attempts : Progress(b, try[b])'
      BY <3>2, <3>4 DEF Progress, AtWork, Ended
    <3>6. QED
      BY <2>1, <3>1, <3>2, <3>5 DEF Alone, Available
  <2>11. QED
    BY <2>1, <2>6, <2>7, <2>8, <2>9, <2>10 DEF ImageInv, Alone
<1>4. QED
  BY <1>2, <1>3

LEMMA TagOfficialKeeps ==
  ASSUME ImageInv, NEW a \in Attempts, TagOfficial(a)
  PROVE  ImageInv'
<1>1. /\ At(a, "official") /\ AtWork(a) /\ Go(a, "gone") /\ Temp(a) = temp[try[a].job]
      /\ label' = [label EXCEPT !["official"] = IF Temp(a) = 0 THEN @ ELSE Temp(a)]
      /\ UNCHANGED <<route, build, release, named, temp, images, pushed, tested, madeFrom, mixed, littered, upsets>>
  BY DEF TagOfficial, records, notes, At, AtWork, Ended, Temp
<1>2. PICK row \in TryRow :
        /\ try' = [try EXCEPT ![a] = row] /\ row.pc = "gone" /\ row.job = try[a].job
        /\ row.ref = try[a].ref /\ row.lock = try[a].lock
  BY <1>1, Moved DEF Steps
<1>3. /\ try' \in [Attempts -> TryRow] /\ try'[a] = row
      /\ \A b \in Attempts : b # a => try'[b] = try[b]
  BY <1>2, OneMoves
<1>4. route = "legacy" /\ Available /\ Temp(a) \in Image
  BY <1>1, AttemptIs, Rests DEF ImageInv, Jobs, At
<1>5. label' \in [{"repository", "official"} -> Image] /\ label'["repository"] = label["repository"]
  BY <1>1, <1>4 DEF ImageInv, ImageType
<1>6. ImageType'
  BY <1>1, <1>3, <1>5 DEF ImageInv, ImageType
<1>7. Jobs'
  <2>1. \A b \in Attempts :
          /\ AtWork(b)' => try'[b].job \in Attempts
          /\ try'[b].pc \in {"smoke", "inspect", "official"} => route = "legacy"
          /\ try'[b].pc \in V2Steps => route = "v2"
          /\ At(b, "official")' => Available
    BY <1>2, <1>3 DEF ImageInv, Jobs, At, AtWork, V2Steps, Ended
  <2>2. QED
    BY <1>1, <1>2, <1>3, <2>1 DEF ImageInv, Jobs, Available, At
<1>8. Locks' /\ InRegistry'
  BY <1>1, <1>2, <1>3 DEF ImageInv, Locks, InRegistry, Holds, At, Available
<1>9. Tidied'
  BY <1>1, <1>4 DEF Tidied, Available
<1>10. ASSUME ~mixed PROVE Alone'
  <2>1. \A b \in Attempts : ~AtWork(b)'
    BY <1>1, <1>2, <1>3, <1>10 DEF ImageInv, Alone, AtWork, Ended
  <2>2. \A b \in Attempts : Progress(b, try[b])'
    BY <2>1 DEF Progress, AtWork, Ended
  <2>3. QED
    BY <1>1, <1>4, <1>10, <2>1, <2>2 DEF ImageInv, Alone, Available
<1>11. QED
  BY <1>1, <1>6, <1>7, <1>8, <1>9, <1>10 DEF ImageInv, Alone

\* A version becomes available with the image of the attempt that holds the lease.
LEMMA SucceedKeeps ==
  ASSUME ImageInv, NEW a \in Attempts, Succeed(a)
  PROVE  ImageInv'
<1>1. At(a, "finish") /\ AtWork(a) /\ try[a].pc \notin {"clean", "official"}
  BY DEF Succeed, At, AtWork, Ended
<1>2. CASE ~Holds(a)
  BY <1>1, <1>2, OnlyStops DEF Succeed
<1>3. CASE Holds(a)
  <2>1. PICK pc \in Steps : pc = IF route = "v2" THEN "clean" ELSE "official"
    BY DEF Steps
  <2>2. /\ build' = [build EXCEPT !.status = "succeeded"] /\ build.status = "building" /\ build.holder = a
        /\ release' = [release EXCEPT !.status = "available", !.image = try[a].ref] /\ Go(a, pc)
        /\ UNCHANGED <<route, named, temp, label, images, pushed, tested, madeFrom, mixed, littered, upsets>>
    BY <1>3, <2>1 DEF Succeed, Holds, daemon, notes
  <2>3. PICK row \in TryRow :
          /\ try' = [try EXCEPT ![a] = row] /\ row.pc = pc /\ row.job = try[a].job
          /\ row.ref = try[a].ref /\ row.lock = try[a].lock
    BY <2>2, Moved
  <2>4. /\ try' \in [Attempts -> TryRow] /\ try'[a] = row
        /\ \A b \in Attempts : b # a => try'[b] = try[b]
    BY <2>3, OneMoves
  <2>5. /\ build' \in BuildRow /\ build'.status = "succeeded" /\ build'.n = build.n
    BY <2>2 DEF ImageInv, ImageType, BuildRow
  <2>6. PICK ref \in Image : ref = try[a].ref
    BY AttemptIs
  <2>7. /\ release' \in ReleaseRow /\ release'.status = "available" /\ release'.image = ref
        /\ release'.lock = release.lock
    BY <2>2, <2>6 DEF ImageInv, ImageType, ReleaseRow
  <2>8. ~Available /\ row.job \in Attempts /\ route \in {"v2", "legacy"}
    BY <1>1, <2>2, <2>3, AttemptIs, Rests DEF ImageInv, Jobs
  <2>9. ImageType'
    BY <2>2, <2>4, <2>5, <2>7 DEF ImageInv, ImageType
  <2>10. Jobs'
    <3>1. \A b \in Attempts :
            /\ AtWork(b)' => try'[b].job \in Attempts
            /\ try'[b].pc \in {"smoke", "inspect", "official"} => route = "legacy"
            /\ try'[b].pc \in V2Steps => route = "v2"
      BY <2>1, <2>3, <2>4, <2>8 DEF ImageInv, Jobs, AtWork, V2Steps
    <3>2. QED
      BY <2>2, <2>5, <2>7, <3>1 DEF ImageInv, Jobs, Available, At
  <2>11. Locks'
    <3>1. row.pc \notin {"resolve", "resolving", "build"}
      BY <2>1, <2>3
    <3>2. QED
      BY <2>2, <2>4, <2>5, <2>7, <3>1 DEF ImageInv, Locks, Holds, At
  <2>12. InRegistry'
    <3>1. route = "v2" => ref \in pushed
      BY <1>1, <2>6 DEF ImageInv, InRegistry, At
    <3>2. QED
      BY <2>1, <2>2, <2>3, <2>4, <2>7, <3>1 DEF ImageInv, InRegistry, Available
  <2>13. Tidied'
    <3>1. CASE route = "v2"
      <4>1. \A b \in Attempts : AtWork(b) => AtWork(b)' /\ try'[b].job = try[b].job
        BY <2>1, <2>3, <2>4, <3>1 DEF AtWork, Ended
      <4>2. QED
        BY <2>2, <2>8, <4>1 DEF ImageInv, Tidied
    <3>2. CASE route = "legacy"
      BY <2>2, <2>7, <3>2 DEF Tidied, Available
    <3>3. QED
      BY <2>8, <3>1, <3>2
  <2>14. ASSUME ~mixed PROVE Alone'
    <3>1. Progress(a, try[a]) /\ \A b \in Attempts : b # a => ~AtWork(b)
      BY <1>1, <2>14, NotYet
    <3>2. \A b \in Attempts : b # a => ~AtWork(b)'
      BY <2>4, <3>1 DEF AtWork
    <3>3. ref = a /\ a \in images /\ a \in tested /\ (route = "v2" => label["repository"] = a)
      BY <1>1, <2>6, <3>1 DEF Progress, At
    <3>4. \A b \in Attempts : Progress(b, try[b])'
      BY <2>1, <2>3, <2>4, <3>2 DEF Progress, AtWork, Ended
    <3>5. \A b \in Attempts : AtWork(b)' => try'[b].pc = (IF route = "v2" THEN "clean" ELSE "official")
      BY <2>1, <2>3, <2>4, <3>2
    <3>6. QED
      BY <2>2, <2>7, <3>2, <3>3, <3>4, <3>5 DEF Alone
  <2>15. QED
    BY <2>2, <2>9, <2>10, <2>11, <2>12, <2>13, <2>14 DEF ImageInv, Alone
<1>4. QED
  BY <1>2, <1>3

LEMMA MarkFailedKeeps ==
  ASSUME ImageInv, NEW a \in Attempts, MarkFailed(a)
  PROVE  ImageInv'
<1>1. /\ At(a, "fail") /\ AtWork(a) /\ try[a].pc \notin {"clean", "official"} /\ Go(a, "clean")
      /\ UNCHANGED <<route, named, temp, label, images, pushed, tested, madeFrom, mixed, littered, upsets>>
  BY DEF MarkFailed, daemon, notes, At, AtWork, Ended
<1>2. CASE ~Holds(a)
  BY <1>1, <1>2, Rests, GoesTo DEF MarkFailed
<1>3. CASE Holds(a)
  <2>1. /\ build' = [build EXCEPT !.status = "failed"] /\ build.status = "building"
        /\ release' = [release EXCEPT !.status = "failed"]
    BY <1>3 DEF MarkFailed, Holds
  <2>2. PICK row \in TryRow :
          /\ try' = [try EXCEPT ![a] = row] /\ row.pc = "clean" /\ row.job = try[a].job
          /\ row.ref = try[a].ref /\ row.lock = try[a].lock
    BY <1>1, Moved DEF Steps
  <2>3. /\ try' \in [Attempts -> TryRow] /\ try'[a] = row
        /\ \A b \in Attempts : b # a => try'[b] = try[b]
    BY <2>2, OneMoves
  <2>4. /\ build' \in BuildRow /\ build'.status = "failed" /\ build'.n = build.n
    BY <2>1 DEF ImageInv, ImageType, BuildRow
  <2>5. /\ release' \in ReleaseRow /\ release'.status = "failed" /\ release'.lock = release.lock
    BY <2>1 DEF ImageInv, ImageType, ReleaseRow
  <2>6. ~Available /\ row.job \in Attempts
    BY <1>1, <2>1, <2>2, AttemptIs DEF ImageInv, Jobs
  <2>7. ImageType'
    BY <1>1, <2>3, <2>4, <2>5 DEF ImageInv, ImageType
  <2>8. Jobs'
    <3>1. \A b \in Attempts :
            /\ AtWork(b)' => try'[b].job \in Attempts
            /\ try'[b].pc \in {"smoke", "inspect"} => route = "legacy"
            /\ try'[b].pc \in V2Steps => route = "v2"
            /\ try'[b].pc # "official"
      BY <2>2, <2>3, <2>6 DEF ImageInv, Jobs, At, AtWork, V2Steps
    <3>2. QED
      BY <1>1, <2>4, <2>5, <3>1 DEF ImageInv, Jobs, Available, At
  <2>9. Locks' /\ InRegistry'
    BY <1>1, <2>2, <2>3, <2>4, <2>5 DEF ImageInv, Locks, InRegistry, Holds, Available, At
  <2>10. Tidied'
    <3>1. \A b \in Attempts : AtWork(b) => AtWork(b)' /\ try'[b].job = try[b].job
      BY <2>2, <2>3 DEF AtWork, Ended
    <3>2. QED
      BY <1>1, <2>6, <3>1 DEF ImageInv, Tidied
  <2>11. ASSUME ~mixed PROVE Alone'
    <3>1. \A b \in Attempts : b # a => ~AtWork(b)
      BY <1>1, <2>11, NotYet
    <3>2. \A b \in Attempts : b # a => ~AtWork(b)'
      BY <2>3, <3>1 DEF AtWork
    <3>3. \A b \in Attempts : Progress(b, try[b])'
      BY <2>2, <2>3, <3>2 DEF Progress, AtWork, Ended
    <3>4. QED
      BY <2>5, <3>2, <3>3 DEF Alone, Available
  <2>12. QED
    BY <1>1, <2>7, <2>8, <2>9, <2>10, <2>11 DEF ImageInv, Alone
<1>4. QED
  BY <1>2, <1>3

LEMMA CleanUpKeeps ==
  ASSUME ImageInv, NEW a \in Attempts, CleanUpTemp(a)
  PROVE  ImageInv'
<1>1. /\ At(a, "clean") /\ AtWork(a) /\ Go(a, "gone")
      /\ temp' = [temp EXCEPT ![try[a].job] = 0] /\ images' = Untagged(Temp(a), temp')
      /\ UNCHANGED <<route, build, release, named, label, pushed, tested, madeFrom, mixed, littered, upsets>>
  BY DEF CleanUpTemp, records, notes, At, AtWork, Ended
<1>2. PICK row \in TryRow :
        /\ try' = [try EXCEPT ![a] = row] /\ row.pc = "gone" /\ row.job = try[a].job
        /\ row.ref = try[a].ref /\ row.lock = try[a].lock
  BY <1>1, Moved DEF Steps
<1>3. /\ try' \in [Attempts -> TryRow] /\ try'[a] = row
      /\ \A b \in Attempts : b # a => try'[b] = try[b]
  BY <1>2, OneMoves
<1>4. /\ row.job \in Attempts /\ temp' \in [Attempts -> Image] /\ temp'[row.job] = 0
      /\ \A j \in Attempts : j # row.job => temp'[j] = temp[j]
      /\ images' \in SUBSET Image /\ (label["repository"] \in images => label["repository"] \in images')
  BY <1>1, <1>2, Removed
<1>5. ImageType'
  BY <1>1, <1>3, <1>4 DEF ImageInv, ImageType
<1>6. Jobs'
  <2>1. \A b \in Attempts :
          /\ AtWork(b)' => try'[b].job \in Attempts
          /\ try'[b].pc \in {"smoke", "inspect", "official"} => route = "legacy"
          /\ try'[b].pc \in V2Steps => route = "v2"
          /\ At(b, "official")' => Available
    BY <1>2, <1>3 DEF ImageInv, Jobs, At, AtWork, V2Steps, Ended
  <2>2. QED
    BY <1>1, <1>2, <1>3, <2>1 DEF ImageInv, Jobs, Available, At
<1>7. Locks' /\ InRegistry'
  BY <1>1, <1>2, <1>3 DEF ImageInv, Locks, InRegistry, Holds, At, Available
<1>8. Tidied'
  <2>1. SUFFICES ASSUME ~littered, NEW j \in Attempts, temp'[j] # 0, ~(route = "legacy" /\ Available)
                 PROVE  \E b \in Attempts : AtWork(b)' /\ try'[b].job = j
    BY <1>1 DEF Tidied, Available
  <2>2. j # row.job /\ temp[j] # 0
    BY <1>4, <2>1
  <2>3. PICK b \in Attempts : AtWork(b) /\ try[b].job = j
    BY <2>1, <2>2 DEF ImageInv, Tidied
  <2>4. b # a
    BY <1>2, <2>2, <2>3
  <2>5. QED
    BY <1>3, <2>3, <2>4 DEF AtWork
<1>9. ASSUME ~mixed PROVE Alone'
  <2>1. \A b \in Attempts : ~AtWork(b)'
    BY <1>1, <1>2, <1>3, <1>9 DEF ImageInv, Alone, AtWork, Ended
  <2>2. \A b \in Attempts : Progress(b, try[b])'
    BY <2>1 DEF Progress, AtWork, Ended
  <2>3. Available => release.image \in images' \cap tested /\ route = "v2" /\ label["repository"] = release.image
    BY <1>1, <1>4, <1>9 DEF ImageInv, Alone, At
  <2>4. QED
    BY <1>1, <2>1, <2>2, <2>3 DEF Alone, Available
<1>10. QED
  BY <1>1, <1>5, <1>6, <1>7, <1>8, <1>9 DEF ImageInv, Alone

LEMMA ImageBegins == ASSUME ImageInit PROVE ImageInv
<1>1. /\ build = [n |-> 1, status |-> "queued", holder |-> 0] /\ release = [status |-> "draft", image |-> 0, lock |-> "none"]
      /\ try \in [Attempts -> TryRow] /\ \A a \in Attempts : try[a] = NotBegun
      /\ \A a \in Attempts : temp[a] = 0 /\ madeFrom[a] = "none"
  BY DEF ImageInit, NotBegun, TryRow, Steps, Lock, Image
<1>2. \A a \in Attempts : try[a].pc = "none" /\ ~AtWork(a)
  BY <1>1 DEF NotBegun, AtWork, Ended
<1>3. build \in BuildRow /\ build.status = "queued" /\ build.n = 1
  BY <1>1 DEF BuildRow, Image
<1>4. release \in ReleaseRow /\ release.status = "draft"
  BY <1>1 DEF ReleaseRow, Image, Lock
<1>5. ImageType
  BY <1>1, <1>3, <1>4 DEF ImageInit, ImageType, Image, Lock
<1>6. Jobs
  BY <1>2, <1>3, <1>4 DEF Jobs, At, Available, V2Steps
<1>7. Locks /\ InRegistry /\ Tidied
  BY <1>1, <1>2, <1>3, <1>4 DEF Locks, InRegistry, Tidied, Holds, At, Available
<1>8. Alone
  BY <1>2, <1>4 DEF Alone, Progress, Available
<1>9. QED
  BY <1>5, <1>6, <1>7, <1>8 DEF ImageInv

LEMMA ImageStep == ASSUME ImageInv, [ImageNext]_imageVars PROVE ImageInv'
<1>1. CASE UNCHANGED imageVars
  <2>1. ImageType' /\ Jobs' /\ Locks'
    BY <1>1 DEF imageVars, ImageInv, ImageType, Jobs, Locks, At, AtWork, Available, Holds
  <2>2. InRegistry' /\ Tidied'
    BY <1>1 DEF imageVars, ImageInv, InRegistry, Tidied, AtWork, Available
  <2>3. Alone'
    BY <1>1 DEF imageVars, ImageInv, Alone, Progress, AtWork, Available
  <2>4. QED
    BY <2>1, <2>2, <2>3 DEF ImageInv
<1>2. ASSUME NEW a \in Attempts, Phase(a) PROVE ImageInv'
  <2>1. CASE Preflight(a) \/ StartResolve(a) \/ Persist(a) \/ DockerBuild(a) \/ LegacyBuild(a)
    BY <2>1, PreflightKeeps, StartResolveKeeps, PersistKeeps, BuildKeeps
  <2>2. CASE StartValidate(a) \/ Validated(a) \/ TagForRegistry(a) \/ PushImage(a) \/ ReadDigest(a) \/ PullImage(a)
    BY <2>2, StartValidateKeeps, ValidatedKeeps, TagForRegistryKeeps, PushAndPull, ReadDigestKeeps
  <2>3. CASE Smoke(a) \/ InspectId(a) \/ TagOfficial(a) \/ Succeed(a) \/ MarkFailed(a) \/ CleanUpTemp(a)
    BY <2>3, SmokeKeeps, InspectIdKeeps, TagOfficialKeeps, SucceedKeeps, MarkFailedKeeps, CleanUpKeeps
  <2>4. CASE \/ \E pc \in {"preflight", "resolve", "build", "validate"} : Leave(a, pc)
             \/ \E pc \in {"resolving", "validating", "tag", "push", "digest", "pull", "smoke"} : Aborted(a, pc)
    BY <2>4, Stops
  <2>5. QED
    BY <1>2, <2>1, <2>2, <2>3, <2>4 DEF Phase
<1>3. ASSUME NEW a \in Attempts, Trouble(a) PROVE ImageInv'
  BY <1>3, LitterKeeps, LeaseGoneKeeps, BuildTimesOutKeeps, Fails DEF Trouble
<1>4. QED
  BY <1>1, <1>2, <1>3, ClaimKeeps, QueuedKeeps, ContainerKeeps DEF ImageNext

\* The inductive invariant of an image: who holds the lease is the only one to store a lock,
\* what was built was built from it, what the registry is said to have was pushed; and, as
\* long as no two attempts were at work at once, an attempt finds under its names what it
\* put there.
THEOREM ImageInvariant == ImageSpec => []ImageInv
<1>1. ImageInit => ImageInv
  BY ImageBegins
<1>2. ImageInv /\ [ImageNext]_imageVars => ImageInv'
  BY ImageStep
<1>3. QED
  BY <1>1, <1>2, PTL DEF ImageSpec

(* However workers stall, die and take over: an image of the v2 editor is  *)
(* built from the lock that its version keeps, an available version is in  *)
(* the registry, it is the validated image and still there unless two      *)
(* attempts were at work at once, and no temporary image is left behind    *)
(* unless a worker died or a clean-up failed; for any number of attempts   *)
(* and locks (environment_builder_v2.py, environment_builder.py).          *)
THEOREM ImagesAreSound == ImageSpec => []ImageSound
<1>1. ImageInv => ImageSound
  <2>1. SUFFICES ASSUME ImageInv PROVE ImageSound
    OBVIOUS
  <2>2. BuiltFromLock
    BY <2>1 DEF ImageInv, Locks, BuiltFromLock
  <2>3. Runnable
    BY <2>1 DEF ImageInv, InRegistry, Alone, Runnable, Available
  <2>4. NothingLeft
    BY <2>1 DEF ImageInv, Tidied, NothingLeft, AtWork, Available
  <2>5. QED
    BY <2>2, <2>3, <2>4 DEF ImageSound
<1>2. QED
  BY <1>1, ImageInvariant, PTL

-----------------------------------------------------------------------------
(* NotebookRecord                                                           *)

NotebookSpec == NotebookInit /\ [][NotebookNext]_notebookVars

Texts == [Cells -> Nat]
Statuses == {"none", "started", "submitted", "graded"}
RecordRow == [src : Texts, rev : Nat \ {0}, status : Statuses]
SubRow == [id : Nat, number : Nat, snapshot : Texts]
PageRow == [src : Texts, rev : Nat, dirty : SUBSET Cells, saved : BOOLEAN, conflict : BOOLEAN,
            wants : BOOLEAN, id : Nat, unheard : BOOLEAN]
WireRow == [tab : Tabs, kind : {"save", "submit"}, stage : {"sent", "read", "clash", "replied"},
            orphan : BOOLEAN, id : Nat, cells : SUBSET Cells, shown : Texts, rev : Nat,
            src : Texts, status : Statuses, last : Nat, result : Nat]
SpentRow == [edits : Nat, submits : Nat, troubles : Nat, ids : Nat]

NotebookType ==
  /\ record \in RecordRow /\ subs \in Seq(SubRow) /\ page \in [Tabs -> PageRow]
  /\ wire \subseteq WireRow /\ spent \in SpentRow /\ overlap \in BOOLEAN

\* The n-th edit is the text n: no text is newer than the last edit.
NotLater(src) == \A c \in Cells : src[c] <= spent.edits
RecordNotLater == NotLater(record.src)
PageNotLater(t) == NotLater(page[t].src)
RequestNotLater(r) == NotLater(r.src)

\* What a page holds and waits for.
PageIs(t) ==
  /\ page[t].saved => page[t].dirty = {}
  /\ page[t].conflict => page[t].unheard
  /\ page[t].id <= spent.ids
  /\ page[t].wants => Mine(t, "submit") = {}
  /\ \A r, q \in wire : r.tab = t /\ q.tab = t /\ r.kind = q.kind /\ ~r.orphan /\ ~q.orphan => r = q

\* What is in flight, whether handlers overlapped or not.
Flying(r) ==
  /\ r.kind = "submit" => r.id \in 1..spent.ids
  /\ r.kind = "submit" /\ ~r.orphan => page[r.tab].id = r.id
  /\ r.kind = "submit" /\ r.stage = "read" => r.last <= Len(subs)
  /\ r.kind = "submit" /\ r.stage = "replied" => r.result <= Len(subs)
  /\ r.kind = "save" => r.stage # "clash"
  /\ r.stage = "replied" => ~r.orphan
  /\ r.orphan => r.shown = Blank
  /\ r.kind = "save" /\ ~r.orphan =>
       /\ r.stage # "replied" => r.rev = page[r.tab].rev
       /\ \A c \in r.cells : r.src[c] <= page[r.tab].src[c]

\* An id is drawn by one page, for good.
IdsApart ==
  /\ \A t, u \in Tabs : page[t].id = page[u].id /\ page[t].id # 0 => t = u
  /\ \A r \in wire, t \in Tabs : r.kind = "submit" /\ r.id = page[t].id => r.tab = t
  /\ \A n \in 1..Len(subs) : subs[n].id <= spent.ids

\* A page that was told of every change of the row has its revision.
Told(t) ==
  ~page[t].unheard =>
    /\ \A r \in wire : r.tab = t /\ r.kind = "save" /\ ~r.orphan /\ r.stage = "replied" =>
         r.result = record.rev
    /\ (\A r \in wire : r.tab = t /\ r.kind = "save" /\ ~r.orphan => r.stage # "replied") =>
         page[t].rev = record.rev

\* Nobody overtakes: what a handler has read is what it will write over.
Served(r) ==
  /\ r.stage # "clash"
  /\ r.kind = "submit" => Covers(record.src, r.shown)
  /\ r.kind = "submit" /\ r.stage = "read" =>
       r.src = record.src /\ r.rev = record.rev /\ r.last = Len(subs) /\ RowsWithId(r.id) = {}
  /\ r.kind = "submit" /\ r.stage = "replied" /\ r.result # 0 => Covers(subs[r.result].snapshot, r.shown)
  /\ r.kind = "save" /\ r.stage = "sent" =>
       r.rev <= record.rev /\ (r.rev = record.rev => \A c \in r.cells : r.src[c] >= record.src[c])
  /\ r.kind = "save" /\ r.stage = "read" =>
       r.rev = record.rev /\ Covers(r.src, record.src) /\ \A c \in Cells \ r.cells : r.src[c] = record.src[c]
  /\ r.kind = "save" /\ r.stage = "replied" /\ r.result # 0 =>
       /\ r.result <= record.rev /\ \A c \in r.cells : r.src[c] <= record.src[c]
       /\ r.result = record.rev => \A c \in page[r.tab].dirty : page[r.tab].src[c] >= record.src[c]

\* What a page takes for saved is stored; its edits are newer than what it saw.
Kept(t) ==
  /\ page[t].rev <= record.rev
  /\ \A c \in Cells \ page[t].dirty : page[t].src[c] <= record.src[c]
  /\ page[t].rev = record.rev => \A c \in page[t].dirty : page[t].src[c] >= record.src[c]

\* A page whose request was carried out without its hearing of it is behind:
\* it saves nothing any more, and the submission has all it may show again.
Twin(t, n) ==
  page[t].id = subs[n].id /\ page[t].id # 0 =>
    /\ page[t].rev < record.rev
    /\ \A c \in Cells \ page[t].dirty : page[t].src[c] <= subs[n].snapshot[c]
    /\ \A r \in wire : r.tab = t /\ ~r.orphan =>
         /\ r.kind = "submit" => Covers(subs[n].snapshot, r.shown)
         /\ r.kind = "save" /\ r.stage = "replied" /\ r.result # 0 =>
              r.result < record.rev /\ \A c \in r.cells : r.src[c] <= subs[n].snapshot[c]

OneHandler == \A r, q \in wire : Handling(r) /\ Handling(q) => r = q

Undivided ==
  /\ OneHandler
  /\ \A r \in wire : Served(r)
  /\ \A t \in Tabs : Kept(t)
  /\ \A t \in Tabs, n \in 1..Len(subs) : Twin(t, n)

Always ==
  /\ RecordNotLater
  /\ \A t \in Tabs : PageNotLater(t) /\ PageIs(t) /\ Told(t)
  /\ \A r \in wire : RequestNotLater(r) /\ Flying(r)
  /\ IdsApart /\ AttemptsDense

NotebookInv == NotebookType /\ Always /\ (~overlap => Undivided)

LEMMA Flight ==
  ASSUME NotebookInv, NEW r \in wire
  PROVE  r \in WireRow /\ Flying(r) /\ RequestNotLater(r) /\ (~overlap => Served(r))
BY DEF NotebookInv, NotebookType, Always, Undivided

LEMMA PageOf ==
  ASSUME NotebookInv, NEW t \in Tabs
  PROVE  /\ page[t] \in PageRow /\ PageIs(t) /\ Told(t) /\ PageNotLater(t)
         /\ ~overlap => Kept(t) /\ \A n \in 1..Len(subs) : Twin(t, n)
BY DEF NotebookInv, NotebookType, Always, Undivided

LEMMA Rows ==
  ASSUME NotebookInv
  PROVE  /\ record \in RecordRow /\ subs \in Seq(SubRow) /\ page \in [Tabs -> PageRow]
         /\ wire \subseteq WireRow /\ spent \in SpentRow /\ overlap \in BOOLEAN
         /\ RecordNotLater /\ IdsApart /\ AttemptsDense /\ (~overlap => OneHandler)
BY DEF NotebookInv, NotebookType, Always, Undivided

\* The row's sources and revision stay, and so does what pages display.
LEMMA Glides ==
  ASSUME NotebookInv, NotebookType', NEW from \in [wire' -> wire],
         record'.src = record.src, record'.rev = record.rev, subs' = subs,
         spent'.edits = spent.edits, spent'.ids = spent.ids, overlap => overlap',
         \A q \in wire' :
           /\ q.tab = from[q].tab /\ q.kind = from[q].kind /\ q.id = from[q].id
           /\ from[q].orphan => q.orphan
           /\ q.kind = "submit" => q.shown = from[q].shown \/ q.orphan
           /\ q.kind = "submit" /\ ~q.orphan => page'[q.tab].id = q.id,
         \A q, p \in wire' : from[q] = from[p] => q = p,
         \A q \in wire' : q \in wire \/
           /\ RequestNotLater(q) /\ Flying(q)' /\ (~overlap' => Served(q)')
           /\ q.kind = "save" /\ q.stage = "replied" => q.result = 0,
         ~overlap' => OneHandler',
         \A t \in Tabs :
           /\ page'[t].src = page[t].src /\ page'[t].rev = page[t].rev /\ page'[t].dirty = page[t].dirty
           /\ page'[t].id \in {page[t].id, 0}
           /\ page'[t].saved => page[t].dirty = {}
           /\ page'[t].conflict => page'[t].unheard
           /\ page'[t].wants => Mine(t, "submit")' = {}
           /\ Told(t)'
  PROVE  NotebookInv'
<1>1. \A q \in wire' : RequestNotLater(q)' /\ Flying(q)' /\ (~overlap' => Served(q)')
  <2>1. SUFFICES ASSUME NEW q \in wire', q \in wire PROVE RequestNotLater(q)' /\ Flying(q)' /\ (~overlap' => Served(q)')
    BY DEF RequestNotLater, NotLater
  <2>2. q \in WireRow /\ Flying(q) /\ RequestNotLater(q) /\ (~overlap => Served(q)) /\ q.tab \in Tabs
    BY <2>1, Flight DEF WireRow
  <2>3. RequestNotLater(q)'
    BY <2>2 DEF RequestNotLater, NotLater
  <2>4. Flying(q)'
    BY <2>1, <2>2 DEF Flying, Blank
  <2>5. ~overlap' => Served(q)'
    BY <2>2 DEF Served, Covers, RowsWithId
  <2> QED
    BY <2>3, <2>4, <2>5
<1>2. \A t \in Tabs : PageNotLater(t)' /\ PageIs(t)'
  <2>1. SUFFICES ASSUME NEW t \in Tabs PROVE PageNotLater(t)' /\ PageIs(t)'
    OBVIOUS
  <2>2. PageNotLater(t)'
    BY PageOf DEF PageNotLater, NotLater
  <2>3. page'[t].id <= spent'.ids
    <3>1. page[t].id <= spent.ids /\ spent.ids \in Nat
      BY PageOf, Rows DEF PageIs, SpentRow
    <3> QED
      BY <3>1
  <2>4. \A r, q \in wire' : r.tab = t /\ q.tab = t /\ r.kind = q.kind /\ ~r.orphan /\ ~q.orphan => r = q
    <3>1. SUFFICES ASSUME NEW r \in wire', NEW q \in wire',
                          r.tab = t, q.tab = t, r.kind = q.kind, ~r.orphan, ~q.orphan
                   PROVE  from[r] = from[q]
      OBVIOUS
    <3>2. from[r] \in wire /\ from[q] \in wire
      OBVIOUS
    <3> QED
      BY <3>1, <3>2, PageOf DEF PageIs
  <2> QED
    BY <2>2, <2>3, <2>4 DEF PageIs
<1>3. IdsApart'
  <2>1. \A r \in wire' : r.kind = "submit" => r.id # 0
    BY <1>1 DEF Flying
  <2>2. IdsApart
    BY Rows
  <2>3. ASSUME NEW r \in wire', NEW t \in Tabs, r.kind = "submit", r.id = page'[t].id PROVE r.tab = t
    <3>1. from[r] \in wire /\ page[t].id = r.id
      BY <2>1, <2>3
    <3> QED
      BY <2>2, <2>3, <3>1 DEF IdsApart
  <2> QED
    BY <2>2, <2>3 DEF IdsApart
<1>4. Always'
  <2>1. RecordNotLater' /\ AttemptsDense'
    BY Rows DEF RecordNotLater, NotLater, AttemptsDense
  <2> QED
    BY <1>1, <1>2, <1>3, <2>1 DEF Always
<1>5. ASSUME ~overlap' PROVE Undivided'
  <2>1. \A t \in Tabs : Kept(t)'
    BY <1>5, PageOf DEF Kept
  <2>2. ASSUME NEW t \in Tabs, NEW n \in 1..Len(subs), page'[t].id = subs[n].id, page'[t].id # 0
        PROVE  Twin(t, n)'
    <3>1. Twin(t, n) /\ page[t].id = subs[n].id /\ page[t].id # 0
      BY <1>5, <2>2, PageOf
    <3>2. page[t].rev < record.rev /\ \A c \in Cells \ page[t].dirty : page[t].src[c] <= subs[n].snapshot[c]
      BY <3>1 DEF Twin
    <3>3. ASSUME NEW r \in wire', r.tab = t, ~r.orphan, r.kind = "submit"
          PROVE  Covers(subs[n].snapshot, r.shown)
      <4>1. from[r] \in wire /\ from[r].tab = t /\ ~from[r].orphan /\ from[r].kind = "submit" /\ r.shown = from[r].shown
        BY <3>3
      <4> QED
        BY <3>1, <4>1 DEF Twin
    <3>4. ASSUME NEW r \in wire', r.tab = t, ~r.orphan, r.kind = "save", r.stage = "replied", r.result # 0
          PROVE  r.result < record.rev /\ \A c \in r.cells : r.src[c] <= subs[n].snapshot[c]
      <4>1. r \in wire
        BY <3>4
      <4> QED
        BY <3>1, <3>4, <4>1 DEF Twin
    <3> QED
      BY <3>2, <3>3, <3>4 DEF Twin, Covers
  <2> QED
    BY <1>1, <1>5, <2>1, <2>2 DEF Undivided, Twin
<1> QED
  BY <1>4, <1>5 DEF NotebookInv

LEMMA GoesOn ==
  ASSUME NotebookInv, NotebookType', NEW r \in wire, NEW new, wire' \subseteq (wire \ {r}) \cup {new},
         record'.src = record.src, record'.rev = record.rev, subs' = subs,
         spent'.edits = spent.edits, spent'.ids = spent.ids, overlap => overlap',
         /\ new.tab = r.tab /\ new.kind = r.kind /\ new.id = r.id
         /\ r.orphan => new.orphan
         /\ new.kind = "submit" => new.shown = r.shown \/ new.orphan,
         \A q \in wire' : q.kind = "submit" /\ ~q.orphan => page'[q.tab].id = q.id,
         new \in wire' => /\ RequestNotLater(new) /\ Flying(new)' /\ (~overlap' => Served(new)')
                          /\ new.kind = "save" /\ new.stage = "replied" => new.result = 0,
         ~overlap' => OneHandler',
         \A t \in Tabs :
           /\ page'[t].src = page[t].src /\ page'[t].rev = page[t].rev /\ page'[t].dirty = page[t].dirty
           /\ page'[t].id \in {page[t].id, 0}
           /\ page'[t].saved => page[t].dirty = {}
           /\ page'[t].conflict => page'[t].unheard
           /\ page'[t].wants => Mine(t, "submit")' = {}
           /\ Told(t)'
  PROVE  NotebookInv'
<1> DEFINE from == [q \in wire' |-> IF q = new THEN r ELSE q]
<1>1. \A q \in wire' : q = new \/ (q \in wire /\ q # r)
  OBVIOUS
<1>2. from \in [wire' -> wire]
  BY <1>1
<1>3. \A q \in wire' : from[q] = IF q = new THEN r ELSE q
  OBVIOUS
<1>4. \A q, p \in wire' : from[q] = from[p] => q = p
  BY <1>1, <1>3
<1> HIDE DEF from
<1>5. \A q \in wire' :
        /\ q.tab = from[q].tab /\ q.kind = from[q].kind /\ q.id = from[q].id
        /\ from[q].orphan => q.orphan
        /\ q.kind = "submit" => q.shown = from[q].shown \/ q.orphan
        /\ q.kind = "submit" /\ ~q.orphan => page'[q.tab].id = q.id
  BY <1>1, <1>3
<1>6. \A q \in wire' : q \in wire \/
        /\ RequestNotLater(q) /\ Flying(q)' /\ (~overlap' => Served(q)')
        /\ q.kind = "save" /\ q.stage = "replied" => q.result = 0
  BY <1>1
<1> QED
  BY <1>2, <1>4, <1>5, <1>6, Glides

\* A handler goes on, or answers, and has written nothing.
LEMMA Serves ==
  ASSUME NotebookInv, NEW r \in wire, NEW new \in WireRow, NEW news \in SUBSET {new},
         wire' = (wire \ {r}) \cup news, UNCHANGED <<record, subs, page, spent>>,
         overlap' \in BOOLEAN, overlap => overlap', r.stage # "replied",
         new.tab = r.tab /\ new.kind = r.kind /\ new.id = r.id /\ new.orphan = r.orphan /\ new.shown = r.shown,
         RequestNotLater(new), Flying(new), ~overlap' => Served(new),
         new.kind = "save" /\ new.stage = "replied" => new.result = 0 /\ page[new.tab].unheard,
         ~overlap' /\ Handling(new) => Handling(r) \/ \A q \in wire \ {r} : ~Handling(q)
  PROVE  NotebookInv'
<1>1. NotebookType'
  BY Rows DEF NotebookType
<1>2. \A q \in wire' : q = new \/ (q \in wire /\ q # r)
  OBVIOUS
<1>3. \A q \in wire' : q.kind = "submit" /\ ~q.orphan => page'[q.tab].id = q.id
  BY <1>2, Flight DEF Flying
<1>4. Flying(new)' /\ (~overlap' => Served(new)')
  BY DEF Flying, Served, RowsWithId
<1>5. ~overlap' => OneHandler'
  <2>1. SUFFICES ASSUME ~overlap', NEW q \in wire', NEW p \in wire', Handling(q), Handling(p) PROVE q = p
    BY DEF OneHandler, Handling
  <2>2. OneHandler
    BY <2>1, Rows
  <2>3. \A x \in wire \ {r} : Handling(x) /\ Handling(new) => FALSE
    BY <2>1, <2>2 DEF OneHandler
  <2> QED
    BY <1>2, <2>1, <2>2, <2>3 DEF OneHandler
<1>6. \A t \in Tabs :
        /\ page'[t].src = page[t].src /\ page'[t].rev = page[t].rev /\ page'[t].dirty = page[t].dirty
        /\ page'[t].id \in {page[t].id, 0}
        /\ page'[t].saved => page[t].dirty = {}
        /\ page'[t].conflict => page'[t].unheard
        /\ page'[t].wants => Mine(t, "submit")' = {}
  <2>1. SUFFICES ASSUME NEW t \in Tabs, page[t].wants PROVE Mine(t, "submit")' = {}
    BY PageOf DEF PageIs
  <2>2. Mine(t, "submit") = {}
    BY <2>1, PageOf DEF PageIs
  <2> QED
    BY <1>2, <2>2 DEF Mine
<1>7. \A t \in Tabs : Told(t)'
  <2>1. SUFFICES ASSUME NEW t \in Tabs, ~page[t].unheard PROVE Told(t)'
    BY DEF Told
  <2>2. Told(t)
    BY PageOf
  <2>3. \A q \in wire' : q.tab = t /\ q.kind = "save" /\ ~q.orphan /\ q.stage = "replied" => q.result = record.rev
    BY <1>2, <2>1, <2>2 DEF Told
  <2>4. (\A q \in wire' : q.tab = t /\ q.kind = "save" /\ ~q.orphan => q.stage # "replied") => page[t].rev = record.rev
    BY <2>1, <2>2 DEF Told
  <2> QED
    BY <2>3, <2>4 DEF Told
<1> QED
  BY <1>1, <1>2, <1>3, <1>4, <1>5, <1>6, <1>7, GoesOn

LEMMA Answer ==
  ASSUME NotebookInv, NEW r \in wire, NEW result \in Nat
  PROVE  \E new \in WireRow :
           /\ new.tab = r.tab /\ new.kind = r.kind /\ new.id = r.id /\ new.orphan = r.orphan
           /\ new.shown = r.shown /\ new.cells = r.cells /\ new.stage = "replied" /\ new.result = result
           /\ new.src = IF r.kind = "save" THEN r.src ELSE Blank
           /\ Reply(r, result) => wire' = (wire \ {r}) \cup IF r.orphan THEN {} ELSE {new}
<1>1. PICK new : new = [r EXCEPT !.stage = "replied", !.result = result, !.rev = 0, !.last = 0,
                          !.status = "none", !.src = IF r.kind = "save" THEN @ ELSE Blank]
  OBVIOUS
<1>2. r \in WireRow /\ r.src \in Texts
  BY Flight DEF WireRow
<1>3. PICK src \in Texts : src = IF r.kind = "save" THEN r.src ELSE Blank
  BY <1>2 DEF Blank, Texts
<1>4. new = [r EXCEPT !.stage = "replied", !.result = result, !.rev = 0, !.last = 0,
                      !.status = "none", !.src = src]
  BY <1>1, <1>2, <1>3 DEF WireRow
<1>5. /\ new \in WireRow
      /\ new.tab = r.tab /\ new.kind = r.kind /\ new.id = r.id /\ new.orphan = r.orphan
      /\ new.shown = r.shown /\ new.cells = r.cells /\ new.stage = "replied" /\ new.result = result
      /\ new.src = src
  BY <1>2, <1>4 DEF WireRow, Statuses
<1>6. Reply(r, result) => wire' = (wire \ {r}) \cup IF r.orphan THEN {} ELSE {new}
  BY <1>1 DEF Reply
<1> QED
  BY <1>3, <1>5, <1>6

\* A handler answers and has written nothing.
LEMMA Refuses ==
  ASSUME NotebookInv, NEW r \in wire, NEW result \in Nat, Reply(r, result), r.stage # "replied",
         UNCHANGED <<record, subs, page, spent, overlap>>,
         r.kind = "save" => result = 0 /\ (~r.orphan => page[r.tab].unheard),
         r.kind = "submit" => result <= Len(subs),
         r.kind = "submit" /\ ~overlap /\ ~r.orphan /\ result # 0 => Covers(subs[result].snapshot, r.shown)
  PROVE  NotebookInv'
<1>1. PICK new \in WireRow :
           /\ new.tab = r.tab /\ new.kind = r.kind /\ new.id = r.id /\ new.orphan = r.orphan
           /\ new.shown = r.shown /\ new.cells = r.cells /\ new.stage = "replied" /\ new.result = result
           /\ new.src = IF r.kind = "save" THEN r.src ELSE Blank
           /\ wire' = (wire \ {r}) \cup IF r.orphan THEN {} ELSE {new}
  BY Answer
<1>2. overlap' \in BOOLEAN /\ (overlap => overlap') /\ (~overlap' => ~overlap) /\ UNCHANGED <<record, subs, page, spent>>
  BY Rows
<1>3. r \in WireRow /\ Flying(r) /\ RequestNotLater(r) /\ (~overlap => Served(r)) /\ r.kind \in {"save", "submit"}
  BY Flight DEF WireRow
<1>4. CASE r.orphan
  <2>1. wire' = (wire \ {r}) \cup {} /\ {} \in SUBSET {r}
    BY <1>1, <1>4
  <2>2. r.kind = "save" /\ r.stage = "replied" => r.result = 0 /\ page[r.tab].unheard
    OBVIOUS
  <2>3. ~overlap' /\ Handling(r) => Handling(r) \/ \A q \in wire \ {r} : ~Handling(q)
    OBVIOUS
  <2>4. ~overlap' => Served(r)
    BY <1>2, <1>3
  <2> QED
    BY <1>2, <1>3, <2>1, <2>2, <2>3, <2>4, Serves
<1>5. CASE ~r.orphan
  <2>1. wire' = (wire \ {r}) \cup {new} /\ {new} \in SUBSET {new}
    BY <1>1, <1>5
  <2>2. RequestNotLater(new)
    <3>1. spent.edits \in Nat
      BY Rows DEF SpentRow
    <3> QED
      BY <1>1, <1>3, <3>1 DEF RequestNotLater, NotLater, Blank
  <2>3. Flying(new)
    BY <1>1, <1>3, <1>5 DEF Flying
  <2>4. ~overlap' => Served(new)
    BY <1>1, <1>2, <1>3, <1>5 DEF Served
  <2>5. new.kind = "save" /\ new.stage = "replied" => new.result = 0 /\ page[new.tab].unheard
    BY <1>1, <1>5
  <2>6. ~Handling(new)
    BY <1>1 DEF Handling
  <2> QED
    BY <1>1, <1>2, <2>1, <2>2, <2>3, <2>4, <2>5, <2>6, Serves
<1> QED
  BY <1>4, <1>5

LEMMA SaveReadKeeps == ASSUME NotebookInv, NEW r \in wire, SaveRead(r) PROVE NotebookInv'
<1>1. /\ r \in WireRow /\ Flying(r) /\ RequestNotLater(r) /\ (~overlap => Served(r)) /\ r.tab \in Tabs
      /\ r.cells \in SUBSET Cells /\ r.src \in Texts /\ r.rev \in Nat /\ r.kind = "save" /\ r.stage = "sent"
      /\ UNCHANGED <<record, subs, page, spent>>
  BY Flight DEF WireRow, SaveRead
<1>2. CASE r.rev # record.rev
  <2>1. Reply(r, 0) /\ overlap' = overlap
    BY <1>2 DEF SaveRead
  <2>2. ~r.orphan => page[r.tab].unheard
    <3>1. SUFFICES ASSUME ~r.orphan, ~page[r.tab].unheard PROVE FALSE
      OBVIOUS
    <3>2. Told(r.tab) /\ PageIs(r.tab)
      BY <1>1, PageOf
    <3>3. \A q \in wire : q.tab = r.tab /\ q.kind = "save" /\ ~q.orphan => q = r
      BY <1>1, <3>1, <3>2 DEF PageIs
    <3>4. page[r.tab].rev = record.rev
      BY <1>1, <3>1, <3>2, <3>3 DEF Told
    <3> QED
      BY <1>1, <1>2, <3>1, <3>4 DEF Flying
  <2> QED
    BY <1>1, <2>1, <2>2, Refuses
<1>3. CASE r.rev = record.rev
  <2>1. PICK src : src = [c \in Cells |-> IF c \in r.cells THEN r.src[c] ELSE record.src[c]]
    OBVIOUS
  <2>2. src \in Texts /\ \A c \in Cells : src[c] = IF c \in r.cells THEN r.src[c] ELSE record.src[c]
    BY <1>1, <2>1, Rows DEF RecordRow, Texts
  <2>3. PICK new : new = [r EXCEPT !.stage = "read", !.src = src]
    OBVIOUS
  <2>4. /\ new \in WireRow
        /\ new.tab = r.tab /\ new.kind = "save" /\ new.id = r.id /\ new.orphan = r.orphan /\ new.shown = r.shown
        /\ new.cells = r.cells /\ new.stage = "read" /\ new.src = src /\ new.rev = r.rev
    BY <1>1, <2>2, <2>3 DEF WireRow
  <2>5. [r EXCEPT !.stage = "read", !.src = [c \in Cells |-> IF c \in r.cells THEN @[c] ELSE record.src[c]]] = new
    BY <1>1, <2>1, <2>3 DEF WireRow
  <2>6. wire' = (wire \ {r}) \cup {new} /\ overlap' = (overlap \/ \E q \in wire \ {r} : Handling(q))
    BY <1>3, <2>5 DEF SaveRead, Becomes, Reading
  <2>7. RequestNotLater(new)
    BY <1>1, <2>2, <2>4, Rows DEF RequestNotLater, NotLater, RecordNotLater
  <2>8. Flying(new)
    BY <1>1, <2>2, <2>4 DEF Flying
  <2>9. ~overlap' => Served(new)
    <3>1. SUFFICES ASSUME ~overlap' PROVE Served(new)
      OBVIOUS
    <3>2. Served(r)
      BY <1>1, <2>6, <3>1
    <3>3. \A c \in r.cells : r.src[c] >= record.src[c]
      BY <1>1, <1>3, <3>2 DEF Served
    <3>4. \A c \in Cells : record.src[c] \in Nat
      BY Rows DEF RecordRow, Texts
    <3>5. Covers(src, record.src) /\ \A c \in Cells \ r.cells : src[c] = record.src[c]
      BY <1>1, <2>2, <3>3, <3>4 DEF Covers
    <3> QED
      BY <1>3, <2>4, <3>5 DEF Served
  <2>10. overlap' \in BOOLEAN /\ (overlap => overlap') /\ (~overlap' => \A q \in wire \ {r} : ~Handling(q))
    BY <2>6, Rows
  <2> QED
    BY <1>1, <2>4, <2>6, <2>7, <2>8, <2>9, <2>10, Serves
<1> QED
  BY <1>2, <1>3

LEMMA LastIs == ASSUME NotebookInv PROVE LastAttempt = Len(subs) /\ Len(subs) \in Nat
<1>1. subs \in Seq(SubRow) /\ AttemptsDense
  BY Rows
<1>2. CASE subs = <<>>
  BY <1>2 DEF LastAttempt
<1>3. CASE subs # <<>>
  <2>1. Len(subs) \in 1..Len(subs)
    BY <1>1, <1>3
  <2> QED
    BY <1>1, <1>3, <2>1 DEF AttemptsDense, LastAttempt
<1> QED
  BY <1>2, <1>3

\* The answer for a request whose submission is there.
LEMMA TwinAnswers ==
  ASSUME NotebookInv, NEW r \in wire, r.kind = "submit", r.stage \in {"sent", "clash"}, RowsWithId(r.id) # {},
         Reply(r, Attempt(r)), UNCHANGED <<record, subs, page, spent, overlap>>
  PROVE  NotebookInv'
<1>1. Attempt(r) \in RowsWithId(r.id)
  BY DEF Attempt
<1>2. PICK n \in 1..Len(subs) : n = Attempt(r) /\ subs[n].id = r.id
  BY <1>1 DEF RowsWithId
<1>3. Len(subs) \in Nat /\ n \in Nat /\ n <= Len(subs)
  BY LastIs
<1>4. r \in WireRow /\ Flying(r) /\ r.tab \in Tabs
  BY Flight DEF WireRow
<1>5. ~overlap /\ ~r.orphan => Covers(subs[n].snapshot, r.shown)
  <2>1. SUFFICES ASSUME ~overlap, ~r.orphan PROVE Covers(subs[n].snapshot, r.shown)
    OBVIOUS
  <2>2. page[r.tab].id = r.id /\ r.id # 0
    BY <1>4, <2>1 DEF Flying
  <2>3. Twin(r.tab, n)
    BY <1>4, <2>1, PageOf
  <2> QED
    BY <1>2, <2>1, <2>2, <2>3 DEF Twin
<1> QED
  BY <1>2, <1>3, <1>5, Refuses

LEMMA SubmitReadKeeps == ASSUME NotebookInv, NEW r \in wire, SubmitRead(r) PROVE NotebookInv'
<1>1. /\ r \in WireRow /\ Flying(r) /\ RequestNotLater(r) /\ (~overlap => Served(r)) /\ r.tab \in Tabs
      /\ r.kind = "submit" /\ r.stage = "sent" /\ UNCHANGED <<record, subs, page, spent>>
  BY Flight DEF WireRow, SubmitRead
<1>2. CASE RowsWithId(r.id) # {}
  <2>1. Reply(r, Attempt(r)) /\ UNCHANGED <<record, subs, page, spent, overlap>>
    BY <1>2 DEF SubmitRead
  <2> QED
    BY <1>1, <1>2, <2>1, TwinAnswers
<1>3. CASE RowsWithId(r.id) = {} /\ record.status = "graded"
  <2>1. Reply(r, 0) /\ UNCHANGED <<record, subs, page, spent, overlap>>
    BY <1>3 DEF SubmitRead
  <2>2. 0 <= Len(subs)
    BY LastIs
  <2> QED
    BY <1>1, <2>1, <2>2, Refuses
<1>4. CASE RowsWithId(r.id) = {} /\ record.status # "graded"
  <2>1. record.src \in Texts /\ record.rev \in Nat /\ record.status \in Statuses /\ LastAttempt \in Nat
    BY Rows, LastIs DEF RecordRow
  <2>2. PICK new : new = [r EXCEPT !.stage = "read", !.src = record.src, !.rev = record.rev,
                                   !.status = record.status, !.last = LastAttempt]
    OBVIOUS
  <2>3. /\ new \in WireRow
        /\ new.tab = r.tab /\ new.kind = "submit" /\ new.id = r.id /\ new.orphan = r.orphan /\ new.shown = r.shown
        /\ new.stage = "read" /\ new.src = record.src /\ new.rev = record.rev /\ new.last = LastAttempt
    BY <1>1, <2>1, <2>2 DEF WireRow
  <2>4. wire' = (wire \ {r}) \cup {new} /\ overlap' = (overlap \/ \E q \in wire \ {r} : Handling(q))
    BY <1>4, <2>2 DEF SubmitRead, Becomes, Reading
  <2>5. RequestNotLater(new)
    BY <2>3, Rows DEF RequestNotLater, NotLater, RecordNotLater
  <2>6. Flying(new)
    BY <1>1, <2>3, LastIs DEF Flying
  <2>7. ~overlap' => Served(new)
    <3>1. ~overlap' => Covers(record.src, r.shown)
      BY <1>1, <2>4 DEF Served
    <3> QED
      BY <1>4, <2>3, <3>1, LastIs DEF Served
  <2>8. overlap' \in BOOLEAN /\ (overlap => overlap') /\ (~overlap' => \A q \in wire \ {r} : ~Handling(q))
    BY <2>4, Rows
  <2> QED
    BY <1>1, <2>3, <2>4, <2>5, <2>6, <2>7, <2>8, Serves
<1> QED
  BY <1>2, <1>3, <1>4

\* Whom nobody overtook meets no constraint.
LEMMA AloneIsUnique ==
  ASSUME NotebookInv, ~overlap, NEW r \in wire, r.kind = "submit", r.stage = "read"
  PROVE  Unique(r)
<1>1. r.last = Len(subs) /\ RowsWithId(r.id) = {}
  BY Flight DEF Served
<1>2. Len(subs) \in Nat /\ AttemptsDense
  BY Rows, LastIs
<1>3. SUFFICES ASSUME NEW n \in 1..Len(subs) PROVE subs[n].number # r.last + 1 /\ subs[n].id # r.id
  BY DEF Unique
<1>4. subs[n].number = n
  BY <1>2 DEF AttemptsDense
<1> QED
  BY <1>1, <1>2, <1>4 DEF RowsWithId

LEMMA SubmitClashKeeps == ASSUME NotebookInv, NEW r \in wire, SubmitClash(r) PROVE NotebookInv'
<1>1. /\ r \in WireRow /\ Flying(r) /\ RequestNotLater(r)
      /\ r.kind = "submit" /\ r.stage = "read" /\ UNCHANGED <<record, subs, page, spent>>
      /\ overlap \in BOOLEAN /\ overlap' = overlap /\ overlap
  BY Flight, AloneIsUnique, Rows DEF WireRow, SubmitClash
<1>2. PICK new : new = [r EXCEPT !.stage = "clash"]
  OBVIOUS
<1>3. /\ new \in WireRow
      /\ new.tab = r.tab /\ new.kind = "submit" /\ new.id = r.id /\ new.orphan = r.orphan /\ new.shown = r.shown
      /\ new.stage = "clash" /\ new.src = r.src
  BY <1>1, <1>2 DEF WireRow
<1>4. wire' = (wire \ {r}) \cup {new}
  BY <1>2 DEF SubmitClash, Becomes
<1>5. RequestNotLater(new) /\ Flying(new)
  BY <1>1, <1>3 DEF RequestNotLater, Flying
<1> QED
  BY <1>1, <1>3, <1>4, <1>5, Serves

LEMMA Spends ==
  ASSUME NotebookInv, NEW max
  PROVE  /\ Spend("edits", max) => spent' \in SpentRow /\ spent'.edits = spent.edits + 1 /\ spent'.ids = spent.ids
         /\ Spend("submits", max) => spent' \in SpentRow /\ spent'.edits = spent.edits /\ spent'.ids = spent.ids
         /\ Spend("troubles", max) => spent' \in SpentRow /\ spent'.edits = spent.edits /\ spent'.ids = spent.ids
<1>1. spent \in SpentRow
  BY Rows
<1>2. /\ [spent EXCEPT !["edits"] = @ + 1] \in SpentRow
      /\ [spent EXCEPT !["edits"] = @ + 1].edits = spent.edits + 1 /\ [spent EXCEPT !["edits"] = @ + 1].ids = spent.ids
  BY <1>1 DEF SpentRow
<1>3. /\ [spent EXCEPT !["submits"] = @ + 1] \in SpentRow
      /\ [spent EXCEPT !["submits"] = @ + 1].edits = spent.edits /\ [spent EXCEPT !["submits"] = @ + 1].ids = spent.ids
  BY <1>1 DEF SpentRow
<1>4. /\ [spent EXCEPT !["troubles"] = @ + 1] \in SpentRow
      /\ [spent EXCEPT !["troubles"] = @ + 1].edits = spent.edits /\ [spent EXCEPT !["troubles"] = @ + 1].ids = spent.ids
  BY <1>1 DEF SpentRow
<1> QED
  BY <1>2, <1>3, <1>4 DEF Spend

\* Nothing happens on the wire.
LEMMA WireRests ==
  ASSUME NotebookInv, NotebookType', UNCHANGED <<subs, wire, overlap>>,
         record'.src = record.src, record'.rev = record.rev, spent'.edits = spent.edits, spent'.ids = spent.ids,
         \A t \in Tabs :
           /\ page'[t].src = page[t].src /\ page'[t].rev = page[t].rev /\ page'[t].dirty = page[t].dirty
           /\ page'[t].id = page[t].id /\ page'[t].saved = page[t].saved
           /\ page'[t].conflict = page[t].conflict /\ page'[t].unheard = page[t].unheard
           /\ page'[t].wants => Mine(t, "submit") = {}
  PROVE  NotebookInv'
<1> DEFINE from == [q \in wire' |-> q]
<1>1. from \in [wire' -> wire] /\ \A q \in wire' : from[q] = q
  OBVIOUS
<1> HIDE DEF from
<1>2. \A q \in wire' :
        /\ q.tab = from[q].tab /\ q.kind = from[q].kind /\ q.id = from[q].id
        /\ from[q].orphan => q.orphan
        /\ q.kind = "submit" => q.shown = from[q].shown \/ q.orphan
        /\ q.kind = "submit" /\ ~q.orphan => page'[q.tab].id = q.id
  BY <1>1, Flight DEF Flying, WireRow
<1>3. \A t \in Tabs :
        /\ page'[t].id \in {page[t].id, 0}
        /\ page'[t].saved => page[t].dirty = {}
        /\ page'[t].conflict => page'[t].unheard
        /\ page'[t].wants => Mine(t, "submit")' = {}
  BY PageOf DEF PageIs, Mine
<1>4. \A t \in Tabs : Told(t)'
  BY PageOf DEF Told
<1>5. ~overlap' => OneHandler'
  BY Rows DEF OneHandler, Handling
<1> QED
  BY <1>1, <1>2, <1>3, <1>4, <1>5, Glides

LEMMA ReviewKeeps == ASSUME NotebookInv, Review PROVE NotebookInv'
<1>1. UNCHANGED <<subs, page, wire, spent, overlap>> /\ record' = [record EXCEPT !.status = "graded"]
  BY DEF Review
<1>2. record' \in RecordRow /\ record'.src = record.src /\ record'.rev = record.rev
  BY <1>1, Rows DEF RecordRow, Statuses
<1>3. NotebookType'
  BY <1>1, <1>2, Rows DEF NotebookType
<1>4. \A t \in Tabs : page[t].wants => Mine(t, "submit") = {}
  BY PageOf DEF PageIs
<1> QED
  BY <1>1, <1>2, <1>3, <1>4, WireRests

LEMMA ClickSubmitKeeps == ASSUME NotebookInv, NEW t \in Tabs, ClickSubmit(t) PROVE NotebookInv'
<1>1. /\ UNCHANGED <<record, subs, wire, overlap>> /\ page' = [page EXCEPT ![t].wants = TRUE]
      /\ Mine(t, "submit") = {} /\ Spend("submits", MaxSubmits)
  BY DEF ClickSubmit
<1>2. page \in [Tabs -> PageRow] /\ spent' \in SpentRow /\ spent'.edits = spent.edits /\ spent'.ids = spent.ids
  BY <1>1, Rows, Spends
<1>3. page' \in [Tabs -> PageRow]
  BY <1>1, <1>2 DEF PageRow
<1>4. NotebookType'
  BY <1>1, <1>2, <1>3, Rows DEF NotebookType
<1>5. \A u \in Tabs :
        /\ page'[u].src = page[u].src /\ page'[u].rev = page[u].rev /\ page'[u].dirty = page[u].dirty
        /\ page'[u].id = page[u].id /\ page'[u].saved = page[u].saved
        /\ page'[u].conflict = page[u].conflict /\ page'[u].unheard = page[u].unheard
        /\ u # t => page'[u].wants = page[u].wants
  BY <1>1, <1>2 DEF PageRow
<1>6. \A u \in Tabs : page'[u].wants => Mine(u, "submit") = {}
  BY <1>1, <1>5, PageOf DEF PageIs
<1> QED
  BY <1>1, <1>2, <1>4, <1>5, <1>6, WireRests

LEMMA OneEach ==
  ASSUME NotebookInv, NEW r \in wire, NEW q \in wire, r.tab = q.tab, r.kind = q.kind, ~r.orphan, ~q.orphan
  PROVE  r = q
BY Flight, PageOf DEF PageIs, WireRow

\* A request is over, and its page's flags say so.
LEMMA IsOver ==
  ASSUME NotebookInv, NotebookType', NEW r \in wire, wire' = wire \ {r}, UNCHANGED <<record, subs, overlap>>,
         spent'.edits = spent.edits, spent'.ids = spent.ids,
         \A t \in Tabs :
           /\ page'[t].src = page[t].src /\ page'[t].rev = page[t].rev /\ page'[t].dirty = page[t].dirty
           /\ page'[t].saved = page[t].saved /\ (page[t].unheard => page'[t].unheard)
           /\ page'[t].id = page[t].id \/ (page'[t].id = 0 /\ r.kind = "submit" /\ ~r.orphan /\ t = r.tab)
           /\ page'[t].conflict => page[t].conflict \/ page'[t].unheard
           /\ page'[t].wants => page[t].wants,
         r.kind = "save" /\ ~r.orphan /\ r.stage = "replied" => page'[r.tab].unheard
  PROVE  NotebookInv'
<1>1. \A q \in wire' : q.kind = "submit" /\ ~q.orphan => page'[q.tab].id = q.id
  <2>1. SUFFICES ASSUME NEW q \in wire, q # r, q.kind = "submit", ~q.orphan PROVE page'[q.tab].id = q.id
    OBVIOUS
  <2>2. q.tab \in Tabs /\ page[q.tab].id = q.id
    BY <2>1, Flight DEF Flying, WireRow
  <2>3. ~(r.kind = "submit" /\ ~r.orphan /\ q.tab = r.tab)
    BY <2>1, OneEach
  <2> QED
    BY <2>2, <2>3
<1>2. \A t \in Tabs : Told(t)'
  <2>1. SUFFICES ASSUME NEW t \in Tabs, ~page'[t].unheard PROVE Told(t)'
    BY DEF Told
  <2>2. Told(t) /\ ~page[t].unheard
    BY <2>1, PageOf
  <2>3. \A q \in wire : q \in wire' \/ ~(q.tab = t /\ q.kind = "save" /\ ~q.orphan /\ q.stage = "replied")
    BY <2>1
  <2>4. \A q \in wire' : q \in wire
    OBVIOUS
  <2> QED
    BY <2>2, <2>3, <2>4 DEF Told
<1>3. \A t \in Tabs :
        /\ page'[t].id \in {page[t].id, 0}
        /\ page'[t].saved => page[t].dirty = {}
        /\ page'[t].conflict => page'[t].unheard
        /\ page'[t].wants => Mine(t, "submit")' = {}
  BY PageOf DEF PageIs, Mine
<1>4. ~overlap' => OneHandler'
  BY Rows DEF OneHandler, Handling
<1>5. r \notin wire' /\ wire' \subseteq (wire \ {r}) \cup {r} /\ (overlap => overlap')
  OBVIOUS
<1> QED
  BY <1>1, <1>2, <1>3, <1>4, <1>5, GoesOn

LEMMA SubmitDoneKeeps == ASSUME NotebookInv, NEW r \in wire, SubmitDone(r) PROVE NotebookInv'
<1>1. /\ r.kind = "submit" /\ ~r.orphan /\ wire' = wire \ {r} /\ UNCHANGED <<record, subs, spent, overlap>>
      /\ page' = [page EXCEPT ![r.tab].id = IF r.result = 0 THEN @ ELSE 0]
  BY DEF SubmitDone
<1>2. r.tab \in Tabs /\ page \in [Tabs -> PageRow] /\ page[r.tab] \in PageRow
  BY Flight, Rows DEF WireRow
<1>3. PICK id \in Nat : id = IF r.result = 0 THEN page[r.tab].id ELSE 0
  BY <1>2 DEF PageRow
<1>4. page' = [page EXCEPT ![r.tab].id = id]
  BY <1>1, <1>2, <1>3 DEF PageRow
<1>5. page' \in [Tabs -> PageRow]
  BY <1>2, <1>4 DEF PageRow
<1>6. NotebookType'
  BY <1>1, <1>5, Rows DEF NotebookType
<1>7. \A t \in Tabs :
           /\ page'[t].src = page[t].src /\ page'[t].rev = page[t].rev /\ page'[t].dirty = page[t].dirty
           /\ page'[t].saved = page[t].saved /\ page'[t].unheard = page[t].unheard
           /\ page'[t].conflict = page[t].conflict /\ page'[t].wants = page[t].wants
           /\ page'[t].id = page[t].id \/ (page'[t].id = 0 /\ t = r.tab)
  BY <1>2, <1>3, <1>4 DEF PageRow
<1> QED
  BY <1>1, <1>6, <1>7, IsOver

LEMMA SaveRefusedKeeps == ASSUME NotebookInv, NEW r \in wire, SaveRefused(r) PROVE NotebookInv'
<1>1. /\ r.kind = "save" /\ r.stage = "replied" /\ ~r.orphan /\ r.result = 0 /\ wire' = wire \ {r}
      /\ page' = [page EXCEPT ![r.tab].conflict = TRUE, ![r.tab].wants = FALSE]
      /\ UNCHANGED <<record, subs, spent, overlap>>
  BY DEF SaveRefused
<1>2. r.tab \in Tabs /\ page \in [Tabs -> PageRow] /\ record.rev # 0
  BY Flight, Rows DEF WireRow, RecordRow
<1>3. page[r.tab].unheard
  BY <1>1, <1>2, PageOf DEF Told
<1>4. page' \in [Tabs -> PageRow]
  BY <1>1, <1>2 DEF PageRow
<1>5. NotebookType'
  BY <1>1, <1>4, Rows DEF NotebookType
<1>6. \A t \in Tabs :
           /\ page'[t].src = page[t].src /\ page'[t].rev = page[t].rev /\ page'[t].dirty = page[t].dirty
           /\ page'[t].saved = page[t].saved /\ page'[t].unheard = page[t].unheard /\ page'[t].id = page[t].id
           /\ page'[t].conflict => page[t].conflict \/ page'[t].unheard
           /\ page'[t].wants => page[t].wants
  BY <1>1, <1>2, <1>3 DEF PageRow
<1>7. page'[r.tab].unheard
  BY <1>2, <1>3, <1>6
<1>8. wire' = wire \ {r} /\ UNCHANGED <<record, subs, overlap>> /\ spent'.edits = spent.edits /\ spent'.ids = spent.ids
  BY <1>1
<1> QED
  BY <1>5, <1>6, <1>7, <1>8, IsOver

\* A request of which its page will hear no more.
LEMMA Forgets ==
  ASSUME NotebookInv, NEW r \in wire
  PROVE  \E new \in WireRow :
           /\ new = [r EXCEPT !.orphan = TRUE, !.shown = Blank]
           /\ new.tab = r.tab /\ new.kind = r.kind /\ new.stage = r.stage /\ new.orphan /\ new.id = r.id
           /\ new.cells = r.cells /\ new.shown = Blank /\ new.rev = r.rev /\ new.src = r.src
           /\ new.status = r.status /\ new.last = r.last /\ new.result = r.result
           /\ RequestNotLater(new) /\ (Handling(new) <=> Handling(r))
           /\ r.stage # "replied" => Flying(new) /\ (~overlap => Served(new))
<1>1. r \in WireRow /\ Flying(r) /\ RequestNotLater(r) /\ (~overlap => Served(r)) /\ Blank \in Texts
  BY Flight DEF Blank, Texts
<1>2. PICK new : new = [r EXCEPT !.orphan = TRUE, !.shown = Blank]
  OBVIOUS
<1>3. new \in WireRow
  BY <1>1, <1>2 DEF WireRow
<1>4. /\ new.tab = r.tab /\ new.kind = r.kind /\ new.stage = r.stage /\ new.orphan /\ new.id = r.id
      /\ new.cells = r.cells /\ new.shown = Blank /\ new.rev = r.rev /\ new.src = r.src
      /\ new.status = r.status /\ new.last = r.last /\ new.result = r.result
  BY <1>1, <1>2 DEF WireRow
<1>5. RequestNotLater(new) /\ (Handling(new) <=> Handling(r))
  BY <1>1, <1>4 DEF RequestNotLater, Handling
<1>6. ASSUME r.stage # "replied" PROVE Flying(new) /\ (~overlap => Served(new))
  <2>1. Flying(new)
    BY <1>1, <1>4, <1>6 DEF Flying
  <2>2. Covers(record.src, Blank)
    BY Rows DEF Covers, Blank, RecordRow, Texts
  <2>3. ~overlap => Served(new)
    BY <1>1, <1>4, <1>6, <2>2 DEF Served
  <2> QED
    BY <2>1, <2>3
<1> QED
  BY <1>2, <1>3, <1>4, <1>5, <1>6

LEMMA LoseKeeps == ASSUME NotebookInv, NEW r \in wire, Lose(r) PROVE NotebookInv'
<1>1. /\ ~r.orphan /\ Spend("troubles", MaxTroubles) /\ UNCHANGED <<record, subs, overlap>>
      /\ page' = [page EXCEPT ![r.tab].wants = FALSE,
                              ![r.tab].unheard = @ \/ (r.stage = "replied" /\ r.result # 0)]
  BY DEF Lose
<1>2. /\ r.tab \in Tabs /\ page \in [Tabs -> PageRow] /\ record.rev # 0 /\ page[r.tab] \in PageRow
      /\ spent' \in SpentRow /\ spent'.edits = spent.edits /\ spent'.ids = spent.ids
  BY <1>1, Flight, Rows, Spends DEF WireRow, RecordRow
<1>3. PICK unheard \in BOOLEAN : unheard <=> page[r.tab].unheard \/ (r.stage = "replied" /\ r.result # 0)
  OBVIOUS
<1>4. page' = [page EXCEPT ![r.tab] = [page[r.tab] EXCEPT !.wants = FALSE, !.unheard = unheard]]
  BY <1>1, <1>2, <1>3 DEF PageRow
<1>5. PICK new \in PageRow : /\ page' = [page EXCEPT ![r.tab] = new]
                             /\ new = [page[r.tab] EXCEPT !.wants = FALSE, !.unheard = unheard]
  BY <1>2, <1>4 DEF PageRow
<1>6. /\ new.src = page[r.tab].src /\ new.rev = page[r.tab].rev /\ new.dirty = page[r.tab].dirty
      /\ new.saved = page[r.tab].saved /\ new.id = page[r.tab].id /\ new.conflict = page[r.tab].conflict
      /\ new.wants = FALSE /\ new.unheard = unheard
  BY <1>2, <1>5 DEF PageRow
<1>7. /\ page' \in [Tabs -> PageRow]
      /\ \A t \in Tabs :
           /\ page'[t].src = page[t].src /\ page'[t].rev = page[t].rev /\ page'[t].dirty = page[t].dirty
           /\ page'[t].saved = page[t].saved /\ (page[t].unheard => page'[t].unheard) /\ page'[t].id = page[t].id
           /\ page'[t].conflict = page[t].conflict
           /\ page'[t].wants => page[t].wants
  BY <1>2, <1>3, <1>5, <1>6
<1>8. page'[r.tab].unheard <=> page[r.tab].unheard \/ (r.stage = "replied" /\ r.result # 0)
  BY <1>2, <1>3, <1>5, <1>6
<1>9. r.kind = "save" /\ r.stage = "replied" => page'[r.tab].unheard
  <2>1. Told(r.tab)
    BY <1>2, PageOf
  <2> QED
    BY <1>1, <1>2, <1>8, <2>1 DEF Told
<1>10. CASE wire' = wire \ {r}
  <2>1. NotebookType'
    BY <1>1, <1>2, <1>7, <1>10, Rows DEF NotebookType
  <2>2. \A t \in Tabs :
           /\ page'[t].src = page[t].src /\ page'[t].rev = page[t].rev /\ page'[t].dirty = page[t].dirty
           /\ page'[t].saved = page[t].saved /\ (page[t].unheard => page'[t].unheard) /\ page'[t].id = page[t].id
           /\ page'[t].conflict => page[t].conflict \/ page'[t].unheard
           /\ page'[t].wants => page[t].wants
    BY <1>7
  <2> QED
    BY <1>1, <1>2, <1>9, <1>10, <2>1, <2>2, IsOver
<1>11. CASE r.stage # "replied" /\ Becomes(r, [r EXCEPT !.orphan = TRUE, !.shown = Blank])
  <2>1. PICK orphan \in WireRow :
           /\ orphan = [r EXCEPT !.orphan = TRUE, !.shown = Blank]
           /\ orphan.tab = r.tab /\ orphan.kind = r.kind /\ orphan.stage = r.stage /\ orphan.orphan /\ orphan.id = r.id
           /\ orphan.result = r.result
           /\ RequestNotLater(orphan) /\ (Handling(orphan) <=> Handling(r))
           /\ Flying(orphan) /\ (~overlap => Served(orphan))
    BY <1>11, Forgets
  <2>2. wire' = (wire \ {r}) \cup {orphan}
    BY <1>11, <2>1 DEF Becomes
  <2>3. NotebookType'
    BY <1>1, <1>2, <1>7, <2>2, Rows DEF NotebookType
  <2>4. Flying(orphan)' /\ (~overlap' => Served(orphan)')
    <3>1. orphan.tab \in Tabs
      BY <1>2, <2>1
    <3> QED
      BY <1>1, <1>2, <1>7, <2>1, <3>1 DEF Flying, Served, RowsWithId, Covers
  <2>5. \A q \in wire' : q.kind = "submit" /\ ~q.orphan => page'[q.tab].id = q.id
    <3>1. SUFFICES ASSUME NEW q \in wire, q.kind = "submit", ~q.orphan PROVE page'[q.tab].id = q.id
      BY <2>1, <2>2
    <3>2. q.tab \in Tabs /\ page[q.tab].id = q.id
      BY <3>1, Flight DEF Flying, WireRow
    <3> QED
      BY <1>7, <3>2
  <2>6. ~overlap' => OneHandler'
    BY <1>1, <2>1, <2>2, Rows DEF OneHandler, Handling
  <2>7. \A t \in Tabs : Told(t)'
    <3>1. SUFFICES ASSUME NEW t \in Tabs, ~page'[t].unheard PROVE Told(t)'
      BY DEF Told
    <3>2. Told(t) /\ ~page[t].unheard
      BY <1>7, <3>1, PageOf
    <3>3. \A q \in wire : q \in wire' \/ q.stage # "replied"
      BY <1>11, <2>2
    <3>4. \A q \in wire' : q \in wire \/ q.orphan
      BY <2>1, <2>2
    <3> QED
      BY <1>1, <1>7, <3>2, <3>3, <3>4 DEF Told
  <2>8. \A t \in Tabs :
        /\ page'[t].src = page[t].src /\ page'[t].rev = page[t].rev /\ page'[t].dirty = page[t].dirty
        /\ page'[t].id \in {page[t].id, 0}
        /\ page'[t].saved => page[t].dirty = {}
        /\ page'[t].conflict => page'[t].unheard
        /\ page'[t].wants => Mine(t, "submit")' = {}
    BY <1>7, <2>1, <2>2, PageOf DEF PageIs, Mine
  <2>9. wire' \subseteq (wire \ {r}) \cup {orphan} /\ orphan.stage # "replied" /\ (overlap => overlap')
    BY <1>1, <1>11, <2>1, <2>2
  <2> QED
    BY <1>1, <1>2, <2>1, <2>3, <2>4, <2>5, <2>6, <2>7, <2>8, <2>9, GoesOn
<1> QED
  BY <1>10, <1>11 DEF Lose

LEMMA SubAt ==
  ASSUME NotebookInv, NEW n \in 1..Len(subs)
  PROVE  /\ subs[n] \in SubRow /\ subs[n].id \in Nat /\ subs[n].snapshot \in Texts
         /\ subs[n].id <= spent.ids /\ subs[n].number = n
<1>1. subs \in Seq(SubRow) /\ AttemptsDense /\ IdsApart
  BY Rows
<1>2. subs[n] \in SubRow
  BY <1>1
<1> QED
  BY <1>1, <1>2 DEF SubRow, AttemptsDense, IdsApart

\* A page sends a request.
LEMMA Asks ==
  ASSUME NotebookInv, NotebookType', NEW t \in Tabs, NEW new \in WireRow, wire' = wire \cup {new},
         new.tab = t, new.stage = "sent", ~new.orphan, Mine(t, new.kind) = {},
         UNCHANGED <<record, subs, overlap>>, spent'.edits = spent.edits, spent'.ids >= spent.ids,
         \A u \in Tabs :
           /\ page'[u].src = page[u].src /\ page'[u].rev = page[u].rev /\ page'[u].dirty = page[u].dirty
           /\ page'[u].conflict = page[u].conflict /\ page'[u].unheard = page[u].unheard
           /\ page'[u].saved => page[u].saved
           /\ page'[u].wants => page[u].wants /\ ~(u = t /\ new.kind = "submit")
           /\ page'[u].id = page[u].id \/
                (u = t /\ new.kind = "submit" /\ page'[u].id = spent.ids + 1 /\ spent'.ids = spent.ids + 1),
         RequestNotLater(new), Flying(new)', ~overlap => Served(new),
         new.kind = "submit" => page[t].dirty = {} /\ new.shown = page[t].src
  PROVE  NotebookInv'
<1>1. \A q \in wire' : q = new \/ q \in wire
  OBVIOUS
<1>2. spent.ids \in Nat /\ spent.edits \in Nat /\ spent'.ids \in Nat
  BY Rows DEF SpentRow, NotebookType
<1>3. \A q \in wire : q.tab = t /\ q.kind = new.kind => q.orphan
  BY DEF Mine
<1>4. \A q \in wire' : RequestNotLater(q)' /\ Flying(q)' /\ (~overlap' => Served(q)')
  <2>1. RequestNotLater(new)' /\ (~overlap' => Served(new)')
    BY DEF RequestNotLater, NotLater, Served, Covers, RowsWithId
  <2>2. ASSUME NEW q \in wire PROVE RequestNotLater(q)' /\ Flying(q)' /\ (~overlap' => Served(q)')
    <3>1. q \in WireRow /\ q.tab \in Tabs /\ Flying(q) /\ RequestNotLater(q) /\ (~overlap => Served(q))
      BY Flight DEF WireRow
    <3>2. RequestNotLater(q)' /\ (~overlap' => Served(q)')
      BY <3>1 DEF RequestNotLater, NotLater, Served, Covers, RowsWithId
    <3>3. q.kind = "submit" /\ ~q.orphan => page'[q.tab].id = q.id
      BY <1>3, <3>1 DEF Flying
    <3>4. q.kind = "submit" => q.id \in 1..spent'.ids
      BY <1>2, <3>1 DEF Flying, WireRow
    <3>5. Flying(q)'
      BY <3>1, <3>3, <3>4 DEF Flying, Blank
    <3> QED
      BY <3>2, <3>5
  <2> QED
    BY <1>1, <2>1, <2>2
<1>5. \A u \in Tabs : PageNotLater(u)' /\ PageIs(u)'
  <2>1. SUFFICES ASSUME NEW u \in Tabs PROVE PageNotLater(u)' /\ PageIs(u)'
    OBVIOUS
  <2>2. PageNotLater(u) /\ PageIs(u) /\ page[u] \in PageRow
    BY PageOf
  <2>3. PageNotLater(u)'
    BY <2>2 DEF PageNotLater, NotLater
  <2>4. page'[u].id <= spent'.ids
    BY <1>2, <2>2 DEF PageIs, PageRow
  <2>5. page'[u].wants => Mine(u, "submit")' = {}
    BY <1>1, <2>2 DEF PageIs, Mine
  <2>6. \A r, q \in wire' : r.tab = u /\ q.tab = u /\ r.kind = q.kind /\ ~r.orphan /\ ~q.orphan => r = q
    BY <1>1, <1>3, <2>2 DEF PageIs
  <2> QED
    BY <2>2, <2>3, <2>4, <2>5, <2>6 DEF PageIs
<1>6. \A u \in Tabs : Told(u)'
  <2>1. SUFFICES ASSUME NEW u \in Tabs, ~page[u].unheard PROVE Told(u)'
    BY DEF Told
  <2>2. Told(u)
    BY PageOf
  <2> QED
    BY <1>1, <2>1, <2>2 DEF Told
<1>7. IdsApart'
  <2>1. IdsApart /\ \A u \in Tabs : page[u].id <= spent.ids /\ page[u].id \in Nat
    BY Rows, PageOf DEF PageIs, PageRow
  <2>2. \A q \in wire : q.kind = "submit" => q.id \in 1..spent.ids
    BY Flight DEF Flying
  <2>3. \A u, v \in Tabs : page'[u].id = page'[v].id /\ page'[u].id # 0 => u = v
    BY <1>2, <2>1 DEF IdsApart
  <2>4. \A q \in wire, u \in Tabs : q.kind = "submit" /\ q.id = page'[u].id => q.tab = u
    BY <1>2, <2>1, <2>2 DEF IdsApart
  <2>5. \A u \in Tabs : new.kind = "submit" /\ new.id = page'[u].id => new.tab = u
    BY <1>2, <2>3 DEF Flying
  <2>6. \A n \in 1..Len(subs) : subs[n].id <= spent'.ids
    <3>1. SUFFICES ASSUME NEW n \in 1..Len(subs) PROVE subs[n].id <= spent'.ids
      OBVIOUS
    <3>2. subs[n].id \in Nat /\ subs[n].id <= spent.ids
      BY SubAt
    <3> QED
      BY <1>2, <3>2
  <2> QED
    BY <1>1, <2>3, <2>4, <2>5, <2>6 DEF IdsApart
<1>8. RecordNotLater' /\ AttemptsDense'
  BY Rows DEF RecordNotLater, NotLater, AttemptsDense
<1>9. Always'
  BY <1>4, <1>5, <1>6, <1>7, <1>8 DEF Always
<1>10. ASSUME ~overlap' PROVE Undivided'
  <2>1. OneHandler'
    BY <1>1, <1>10, Rows DEF OneHandler, Handling
  <2>2. \A u \in Tabs : Kept(u)'
    BY <1>10, PageOf DEF Kept
  <2>3. ASSUME NEW u \in Tabs, NEW n \in 1..Len(subs), page'[u].id = subs[n].id, page'[u].id # 0
        PROVE  Twin(u, n)'
    <3>1. page'[u].id = page[u].id
      <4>1. subs[n].id <= spent.ids /\ subs[n].id \in Nat
        BY SubAt
      <4> QED
        BY <1>2, <2>3, <4>1
    <3>2. Twin(u, n) /\ page[u].id = subs[n].id /\ page[u].id # 0
      BY <1>10, <2>3, <3>1, PageOf
    <3>3. new.tab = u /\ new.kind = "submit" => Covers(subs[n].snapshot, new.shown)
      BY <3>2 DEF Twin, Covers
    <3> QED
      BY <1>1, <3>2, <3>3 DEF Twin, Covers
  <2> QED
    BY <1>4, <1>10, <2>1, <2>2, <2>3 DEF Undivided, Twin
<1> QED
  BY <1>9, <1>10 DEF NotebookInv

\* What a page sends is what it holds.
LEMMA Sent ==
  ASSUME NotebookInv, NEW t \in Tabs, NEW kind \in {"save", "submit"}, NEW id \in Nat
  PROVE  \E new \in WireRow :
           /\ new = Message(t, kind, id)
           /\ new.tab = t /\ new.kind = kind /\ new.stage = "sent" /\ ~new.orphan /\ new.id = id
           /\ new.cells = page[t].dirty
           /\ kind = "submit" => new.shown = page[t].src
           /\ kind = "save" => new.src = page[t].src /\ new.rev = page[t].rev
           /\ RequestNotLater(new)
<1>1. page[t] \in PageRow /\ PageNotLater(t) /\ Blank \in Texts /\ spent.edits \in Nat
  BY PageOf, Rows DEF Blank, Texts, SpentRow
<1>2. page[t].src \in Texts /\ page[t].rev \in Nat /\ page[t].dirty \in SUBSET Cells
  BY <1>1 DEF PageRow
<1>3. PICK shown \in Texts, rev \in Nat, src \in Texts :
        /\ shown = IF kind = "submit" THEN page[t].src ELSE Blank
        /\ rev = IF kind = "save" THEN page[t].rev ELSE 0
        /\ src = IF kind = "save" THEN page[t].src ELSE Blank
  BY <1>1, <1>2
<1>4. PICK new : new = [tab |-> t, kind |-> kind, stage |-> "sent", orphan |-> FALSE, id |-> id,
                        cells |-> page[t].dirty, shown |-> shown, rev |-> rev, src |-> src,
                        status |-> "none", last |-> 0, result |-> 0]
  OBVIOUS
<1>5. /\ new \in WireRow
      /\ new.tab = t /\ new.kind = kind /\ new.stage = "sent" /\ ~new.orphan /\ new.id = id
      /\ new.cells = page[t].dirty /\ new.shown = shown /\ new.src = src /\ new.rev = rev
  BY <1>2, <1>4 DEF WireRow, Statuses
<1>6. new = Message(t, kind, id)
  BY <1>3, <1>4 DEF Message
<1>7. RequestNotLater(new)
  BY <1>1, <1>3, <1>5 DEF RequestNotLater, PageNotLater, NotLater, Blank
<1> QED
  BY <1>3, <1>5, <1>6, <1>7

LEMMA SendSaveKeeps == ASSUME NotebookInv, NEW t \in Tabs, SendSave(t) PROVE NotebookInv'
<1>1. /\ Mine(t, "save") = {} /\ wire' = wire \cup {Message(t, "save", 0)}
      /\ page' = [page EXCEPT ![t].saved = FALSE] /\ UNCHANGED <<record, subs, spent, overlap>>
  BY DEF SendSave
<1>2. PICK new \in WireRow :
           /\ new = Message(t, "save", 0)
           /\ new.tab = t /\ new.kind = "save" /\ new.stage = "sent" /\ ~new.orphan
           /\ new.cells = page[t].dirty /\ new.src = page[t].src /\ new.rev = page[t].rev
           /\ RequestNotLater(new)
  BY Sent
<1>3. page \in [Tabs -> PageRow] /\ spent.ids \in Nat
  BY Rows DEF SpentRow
<1>4. page' \in [Tabs -> PageRow] /\ wire' = wire \cup {new} /\ Mine(t, new.kind) = {}
  BY <1>1, <1>2, <1>3 DEF PageRow
<1>5. NotebookType'
  BY <1>1, <1>4, Rows DEF NotebookType
<1>6. \A u \in Tabs :
           /\ page'[u].src = page[u].src /\ page'[u].rev = page[u].rev /\ page'[u].dirty = page[u].dirty
           /\ page'[u].conflict = page[u].conflict /\ page'[u].unheard = page[u].unheard
           /\ page'[u].saved => page[u].saved
           /\ page'[u].wants = page[u].wants /\ page'[u].id = page[u].id
  BY <1>1, <1>3 DEF PageRow
<1>7. Flying(new)'
  <2>1. page[t].src \in Texts /\ page[t].dirty \in SUBSET Cells
    BY <1>3 DEF PageRow
  <2> QED
    BY <1>2, <1>6, <2>1 DEF Flying, Texts
<1>8. ~overlap => Served(new)
  BY <1>2, PageOf DEF Served, Kept
<1> QED
  BY <1>1, <1>2, <1>3, <1>4, <1>5, <1>6, <1>7, <1>8, Asks

LEMMA SendSubmitKeeps == ASSUME NotebookInv, NEW t \in Tabs, SendSubmit(t) PROVE NotebookInv'
<1>1. page \in [Tabs -> PageRow] /\ spent \in SpentRow /\ spent.ids \in Nat
  BY Rows DEF SpentRow
<1>2. page[t].id \in Nat /\ page[t].id <= spent.ids /\ page[t].src \in Texts
  BY <1>1, PageOf DEF PageIs, PageRow
<1>3. PICK id \in Nat : id = IF page[t].id = 0 THEN spent.ids + 1 ELSE page[t].id
  BY <1>1, <1>2
<1>4. PICK ids \in Nat : ids = IF page[t].id = 0 THEN spent.ids + 1 ELSE spent.ids
  BY <1>1
<1>5. /\ page[t].wants /\ page[t].dirty = {} /\ UNCHANGED <<record, subs, overlap>>
      /\ wire' = wire \cup {Message(t, "submit", id)}
      /\ page' = [page EXCEPT ![t].id = id, ![t].wants = FALSE]
      /\ spent' = [spent EXCEPT !.ids = ids]
  BY <1>3, <1>4 DEF SendSubmit, SpentRow
<1>6. PICK new \in WireRow :
           /\ new = Message(t, "submit", id)
           /\ new.tab = t /\ new.kind = "submit" /\ new.stage = "sent" /\ ~new.orphan /\ new.id = id
           /\ new.shown = page[t].src /\ RequestNotLater(new)
  BY Sent
<1>7. spent' \in SpentRow /\ spent'.edits = spent.edits /\ spent'.ids = ids
  BY <1>1, <1>5 DEF SpentRow
<1>8. /\ page' \in [Tabs -> PageRow]
      /\ \A u \in Tabs :
           /\ page'[u].src = page[u].src /\ page'[u].rev = page[u].rev /\ page'[u].dirty = page[u].dirty
           /\ page'[u].conflict = page[u].conflict /\ page'[u].unheard = page[u].unheard
           /\ page'[u].saved = page[u].saved
           /\ u # t => page'[u].id = page[u].id /\ page'[u].wants = page[u].wants
           /\ u = t => page'[u].id = id /\ page'[u].wants = FALSE
  BY <1>1, <1>5 DEF PageRow
<1>9. wire' = wire \cup {new} /\ Mine(t, new.kind) = {}
  BY <1>5, <1>6, PageOf DEF PageIs
<1>10. NotebookType'
  BY <1>5, <1>7, <1>8, <1>9, Rows DEF NotebookType
<1>11. /\ spent'.ids >= spent.ids /\ id \in 1..spent'.ids
       /\ id = page[t].id \/ (id = spent.ids + 1 /\ spent'.ids = spent.ids + 1)
  BY <1>1, <1>2, <1>3, <1>4, <1>7
<1>12. \A u \in Tabs :
           /\ page'[u].saved => page[u].saved
           /\ page'[u].wants => page[u].wants /\ ~(u = t /\ new.kind = "submit")
           /\ page'[u].id = page[u].id \/
                (u = t /\ new.kind = "submit" /\ page'[u].id = spent.ids + 1 /\ spent'.ids = spent.ids + 1)
  BY <1>6, <1>8, <1>11
<1>13. Flying(new)'
  BY <1>6, <1>8, <1>11 DEF Flying
<1>14. ~overlap => Served(new)
  <2>1. SUFFICES ASSUME ~overlap PROVE Covers(record.src, page[t].src)
    BY <1>6 DEF Served
  <2>2. record.src \in Texts
    BY Rows DEF RecordRow
  <2> QED
    BY <1>2, <1>5, <2>1, <2>2, PageOf DEF Kept, Covers, Texts
<1> QED
  BY <1>5, <1>6, <1>7, <1>8, <1>9, <1>10, <1>11, <1>12, <1>13, <1>14, Asks

LEMMA EditKeeps == ASSUME NotebookInv, NEW t \in Tabs, NEW c \in Cells, Edit(t, c) PROVE NotebookInv'
<1>1. /\ UNCHANGED <<record, subs, wire, overlap>>
      /\ spent' \in SpentRow /\ spent'.edits = spent.edits + 1 /\ spent'.ids = spent.ids
      /\ spent.edits \in Nat /\ page \in [Tabs -> PageRow] /\ page[t] \in PageRow
  BY Spends, Rows DEF Edit, SpentRow
<1>2. PICK src \in Texts : src = [page[t].src EXCEPT ![c] = spent.edits + 1]
  <2>1. page[t].src \in Texts
    BY <1>1 DEF PageRow
  <2>2. [page[t].src EXCEPT ![c] = spent.edits + 1] \in Texts
    BY <1>1, <2>1 DEF Texts
  <2> QED
    BY <2>2
<1>3. PICK new : new = [page[t] EXCEPT !.src = src, !.dirty = @ \cup {c}, !.saved = FALSE]
  OBVIOUS
<1>4. /\ new \in PageRow
      /\ new.src = src /\ new.rev = page[t].rev /\ new.dirty = page[t].dirty \cup {c} /\ new.saved = FALSE
      /\ new.conflict = page[t].conflict /\ new.wants = page[t].wants /\ new.id = page[t].id
      /\ new.unheard = page[t].unheard
  BY <1>1, <1>2, <1>3 DEF PageRow
<1>5. page' = [page EXCEPT ![t] = new]
  BY <1>1, <1>2, <1>3 DEF Edit, PageRow
<1>6. page' \in [Tabs -> PageRow] /\ page'[t] = new /\ \A u \in Tabs : u # t => page'[u] = page[u]
  BY <1>1, <1>4, <1>5
<1>7. \A d \in Cells : /\ src[d] = IF d = c THEN spent.edits + 1 ELSE page[t].src[d]
                       /\ src[d] \in Nat /\ page[t].src[d] \in Nat
  BY <1>1, <1>2 DEF PageRow, Texts
<1>8. \A u \in Tabs : /\ page'[u].rev = page[u].rev /\ page'[u].conflict = page[u].conflict
                      /\ page'[u].wants = page[u].wants /\ page'[u].id = page[u].id
                      /\ page'[u].unheard = page[u].unheard
  BY <1>4, <1>6
<1>9. NotebookType'
  BY <1>1, <1>6, Rows DEF NotebookType
<1>10. \A text \in Texts : NotLater(text) => NotLater(text)'
  BY <1>1 DEF NotLater, Texts
<1>11. RecordNotLater'
  BY <1>1, <1>10, Rows DEF RecordNotLater, RecordRow
<1>12. \A u \in Tabs : PageNotLater(u)' /\ PageIs(u)' /\ Told(u)'
  <2>1. SUFFICES ASSUME NEW u \in Tabs PROVE PageNotLater(u)' /\ PageIs(u)' /\ Told(u)'
    OBVIOUS
  <2>2. PageNotLater(u) /\ PageIs(u) /\ Told(u) /\ page[u].src \in Texts
    BY <1>1, PageOf DEF PageRow
  <2>3. PageNotLater(u)'
    <3>1. CASE u = t
      BY <1>1, <1>4, <1>6, <1>7, <2>2, <3>1 DEF PageNotLater, NotLater
    <3>2. CASE u # t
      BY <1>6, <1>10, <2>2, <3>2 DEF PageNotLater
    <3> QED
      BY <3>1, <3>2
  <2>4. page'[u].saved => page'[u].dirty = {}
    BY <1>4, <1>6, <2>2 DEF PageIs
  <2>5. PageIs(u)'
    BY <1>1, <1>8, <2>2, <2>4 DEF PageIs, Mine
  <2>6. Told(u)'
    BY <1>1, <1>8, <2>2 DEF Told
  <2> QED
    BY <2>3, <2>5, <2>6
<1>13. \A r \in wire' : RequestNotLater(r)' /\ Flying(r)'
  <2>1. SUFFICES ASSUME NEW r \in wire PROVE RequestNotLater(r)' /\ Flying(r)'
    BY <1>1
  <2>2. r \in WireRow /\ r.tab \in Tabs /\ r.src \in Texts /\ r.cells \in SUBSET Cells /\ Flying(r) /\ RequestNotLater(r)
    BY Flight DEF WireRow
  <2>3. RequestNotLater(r)'
    BY <1>10, <2>2 DEF RequestNotLater
  <2>4. ASSUME r.kind = "save", ~r.orphan, NEW d \in r.cells PROVE r.src[d] <= page'[r.tab].src[d]
    <3>1. r.src[d] <= page[r.tab].src[d] /\ r.src[d] <= spent.edits /\ r.src[d] \in Nat /\ d \in Cells
      BY <2>2, <2>4 DEF Flying, RequestNotLater, NotLater, Texts
    <3> QED
      BY <1>1, <1>4, <1>6, <1>7, <2>2, <3>1
  <2>5. Flying(r)'
    BY <1>1, <1>8, <2>2, <2>4 DEF Flying, Blank
  <2> QED
    BY <2>3, <2>5
<1>14. IdsApart' /\ AttemptsDense'
  BY <1>1, <1>8, Rows DEF IdsApart, AttemptsDense
<1>15. ASSUME ~overlap' PROVE Undivided'
  <2>1. record.src \in Texts /\ record.src[c] <= spent.edits /\ record.src[c] \in Nat
    BY Rows DEF RecordRow, RecordNotLater, NotLater, Texts
  <2>2. src[c] >= record.src[c]
    BY <1>1, <1>7, <2>1
  <2>3. OneHandler'
    BY <1>1, <1>15, Rows DEF OneHandler, Handling
  <2>4. \A u \in Tabs : Kept(u)'
    <3>1. SUFFICES ASSUME NEW u \in Tabs PROVE Kept(u)'
      OBVIOUS
    <3>2. Kept(u) /\ page[u].dirty \in SUBSET Cells
      BY <1>1, <1>15, PageOf DEF PageRow
    <3>3. CASE u = t
      BY <1>1, <1>4, <1>6, <1>7, <2>2, <3>2, <3>3 DEF Kept
    <3>4. CASE u # t
      BY <1>1, <1>6, <3>2, <3>4 DEF Kept
    <3> QED
      BY <3>3, <3>4
  <2>5. \A r \in wire' : Served(r)'
    <3>1. SUFFICES ASSUME NEW r \in wire PROVE Served(r)'
      BY <1>1
    <3>2. Served(r) /\ r.tab \in Tabs /\ page[r.tab].dirty \in SUBSET Cells
      BY <1>1, <1>15, Flight DEF WireRow, PageRow
    <3>3. (\A d \in page[r.tab].dirty : page[r.tab].src[d] >= record.src[d])
          => \A d \in page'[r.tab].dirty : page'[r.tab].src[d] >= record.src[d]
      BY <1>4, <1>6, <1>7, <2>2, <3>2
    <3> QED
      BY <1>1, <3>2, <3>3 DEF Served, Covers, RowsWithId
  <2>6. \A u \in Tabs, n \in 1..Len(subs)' : Twin(u, n)'
    <3>1. SUFFICES ASSUME NEW u \in Tabs, NEW n \in 1..Len(subs) PROVE Twin(u, n)'
      BY <1>1
    <3>2. Twin(u, n)
      BY <1>1, <1>15, PageOf
    <3>3. \A d \in Cells \ page'[u].dirty : d \in Cells \ page[u].dirty /\ page'[u].src[d] = page[u].src[d]
      BY <1>4, <1>6, <1>7
    <3> QED
      BY <1>1, <1>8, <3>2, <3>3 DEF Twin, Covers
  <2> QED
    BY <2>3, <2>4, <2>5, <2>6 DEF Undivided
<1> QED
  BY <1>9, <1>11, <1>12, <1>13, <1>14, <1>15 DEF NotebookInv, Always

LEMMA SaveDoneKeeps == ASSUME NotebookInv, NEW r \in wire, SaveDone(r) PROVE NotebookInv'
<1>1. /\ r.kind = "save" /\ r.stage = "replied" /\ ~r.orphan /\ r.result # 0 /\ wire' = wire \ {r}
      /\ UNCHANGED <<record, subs, spent, overlap>>
  BY DEF SaveDone
<1>2. PICK t \in Tabs : t = r.tab
  BY Flight DEF WireRow
<1>3. /\ page \in [Tabs -> PageRow] /\ page[t] \in PageRow /\ PageIs(t) /\ Told(t) /\ Flying(r)
      /\ r.result \in Nat /\ r.cells \in SUBSET Cells /\ page[t].dirty \in SUBSET Cells
  BY Rows, PageOf, Flight DEF WireRow, PageRow
<1>4. PICK left : left = {c \in page[t].dirty : c \in r.cells => page[t].src[c] # r.src[c]}
  OBVIOUS
<1>5. /\ left \in SUBSET Cells /\ left \subseteq page[t].dirty
      /\ \A c \in page[t].dirty \ left : c \in r.cells /\ page[t].src[c] = r.src[c]
  BY <1>3, <1>4
<1>6. PICK saved \in BOOLEAN : saved <=> left = {}
  OBVIOUS
<1>7. page' = [page EXCEPT ![t].rev = r.result, ![t].dirty = left, ![t].saved = left = {}]
  BY <1>2, <1>4 DEF SaveDone
<1>8. PICK new : new = [page[t] EXCEPT !.rev = r.result, !.dirty = left, !.saved = (left = {})]
  OBVIOUS
<1>9. /\ new \in PageRow
      /\ new.src = page[t].src /\ new.rev = r.result /\ new.dirty = left /\ (new.saved => left = {})
      /\ new.conflict = page[t].conflict /\ new.wants = page[t].wants /\ new.id = page[t].id
      /\ new.unheard = page[t].unheard
  BY <1>3, <1>5, <1>8 DEF PageRow
<1>10. page' = [page EXCEPT ![t] = new]
  BY <1>3, <1>7, <1>8 DEF PageRow
<1>11. page' \in [Tabs -> PageRow] /\ page'[t] = new /\ \A u \in Tabs : u # t => page'[u] = page[u]
  BY <1>3, <1>9, <1>10
<1>12. \A u \in Tabs : /\ page'[u].src = page[u].src /\ page'[u].conflict = page[u].conflict
                       /\ page'[u].wants = page[u].wants /\ page'[u].id = page[u].id
                       /\ page'[u].unheard = page[u].unheard
  BY <1>9, <1>11
<1>13. NotebookType'
  BY <1>1, <1>11, Rows DEF NotebookType
<1>14. \A q \in wire' : q \in wire /\ q # r /\ q.tab \in Tabs /\ ~(q.tab = t /\ q.kind = "save" /\ ~q.orphan)
  <2>1. SUFFICES ASSUME NEW q \in wire, q # r PROVE q.tab \in Tabs /\ ~(q.tab = t /\ q.kind = "save" /\ ~q.orphan)
    BY <1>1
  <2> QED
    BY <1>1, <1>2, <2>1, OneEach, Flight DEF WireRow
<1>15. \A u \in Tabs : PageNotLater(u)' /\ PageIs(u)' /\ Told(u)'
  <2>1. SUFFICES ASSUME NEW u \in Tabs PROVE PageNotLater(u)' /\ PageIs(u)' /\ Told(u)'
    OBVIOUS
  <2>2. PageNotLater(u) /\ PageIs(u) /\ Told(u)
    BY PageOf
  <2>3. PageNotLater(u)'
    BY <1>1, <1>12, <2>2 DEF PageNotLater, NotLater
  <2>4. page'[u].saved => page'[u].dirty = {}
    BY <1>9, <1>11, <2>2 DEF PageIs
  <2>5. PageIs(u)'
    BY <1>1, <1>12, <2>2, <2>4 DEF PageIs, Mine
  <2>6. CASE u = t
    <3>1. ~page[t].unheard => r.result = record.rev
      BY <1>1, <1>2, <1>3 DEF Told
    <3> QED
      BY <1>1, <1>9, <1>11, <1>14, <2>6, <3>1, <2>3, <2>5 DEF Told
  <2>7. CASE u # t
    <3>1. \A q \in wire : q.tab = u => q \in wire'
      BY <1>1, <1>2, <2>7
    <3> QED
      BY <1>1, <1>11, <1>14, <2>2, <2>3, <2>5, <2>7, <3>1 DEF Told
  <2> QED
    BY <2>6, <2>7
<1>16. \A q \in wire' : RequestNotLater(q)' /\ Flying(q)'
  <2>1. SUFFICES ASSUME NEW q \in wire' PROVE RequestNotLater(q)' /\ Flying(q)'
    OBVIOUS
  <2>2. q \in wire /\ q.tab \in Tabs /\ Flying(q) /\ RequestNotLater(q)
    BY <1>14, Flight
  <2>3. q.kind = "save" /\ ~q.orphan => page'[q.tab] = page[q.tab]
    BY <1>11, <1>14
  <2> QED
    BY <1>1, <1>12, <2>2, <2>3 DEF RequestNotLater, NotLater, Flying, Blank
<1>17. IdsApart' /\ AttemptsDense' /\ RecordNotLater'
  BY <1>1, <1>12, <1>14, Rows DEF IdsApart, AttemptsDense, RecordNotLater, NotLater
<1>18. ASSUME ~overlap' PROVE Undivided'
  <2>1. /\ Served(r) /\ r.result <= record.rev /\ \A c \in r.cells : r.src[c] <= record.src[c]
        /\ r.result = record.rev => \A c \in page[t].dirty : page[t].src[c] >= record.src[c]
    BY <1>1, <1>2, <1>18, Flight DEF Served
  <2>2. OneHandler'
    BY <1>1, <1>14, <1>18, Rows DEF OneHandler, Handling
  <2>3. \A q \in wire' : Served(q)'
    <3>1. SUFFICES ASSUME NEW q \in wire' PROVE Served(q)'
      OBVIOUS
    <3>2. Served(q) /\ Flying(q)
      BY <1>1, <1>14, <1>18, Flight
    <3>3. q.kind = "save" /\ q.stage = "replied" => page'[q.tab] = page[q.tab]
      BY <1>11, <1>14, <3>2 DEF Flying
    <3> QED
      BY <1>1, <3>2, <3>3 DEF Served, Covers, RowsWithId
  <2>4. \A u \in Tabs : Kept(u)'
    <3>1. SUFFICES ASSUME NEW u \in Tabs PROVE Kept(u)'
      OBVIOUS
    <3>2. Kept(u)
      BY <1>1, <1>18, PageOf
    <3>3. CASE u = t
      <4>1. \A c \in Cells \ left : page[t].src[c] <= record.src[c]
        BY <1>5, <2>1, <3>2, <3>3 DEF Kept
      <4> QED
        BY <1>1, <1>5, <1>9, <1>11, <2>1, <3>3, <4>1 DEF Kept
    <3>4. CASE u # t
      BY <1>1, <1>11, <3>2, <3>4 DEF Kept
    <3> QED
      BY <3>3, <3>4
  <2>5. \A u \in Tabs, n \in 1..Len(subs)' : Twin(u, n)'
    <3>1. SUFFICES ASSUME NEW u \in Tabs, NEW n \in 1..Len(subs), page[u].id = subs[n].id, page[u].id # 0
                   PROVE  Twin(u, n)'
      BY <1>1, <1>12 DEF Twin
    <3>2. Twin(u, n)
      BY <1>1, <1>18, PageOf
    <3>3. \A q \in wire' : q.tab = u /\ ~q.orphan =>
         /\ q.kind = "submit" => Covers(subs[n].snapshot, q.shown)
         /\ q.kind = "save" /\ q.stage = "replied" /\ q.result # 0 =>
              q.result < record.rev /\ \A c \in q.cells : q.src[c] <= subs[n].snapshot[c]
      BY <1>14, <3>1, <3>2 DEF Twin
    <3>4. page'[u].rev < record.rev /\ \A c \in Cells \ page'[u].dirty : page[u].src[c] <= subs[n].snapshot[c]
      <4>1. CASE u = t
        <5>1. r.result < record.rev /\ \A c \in r.cells : r.src[c] <= subs[n].snapshot[c]
          BY <1>1, <1>2, <3>1, <3>2, <4>1 DEF Twin
        <5>2. \A c \in Cells \ page[t].dirty : page[t].src[c] <= subs[n].snapshot[c]
          BY <3>1, <3>2, <4>1 DEF Twin
        <5> QED
          BY <1>5, <1>9, <1>11, <4>1, <5>1, <5>2
      <4>2. CASE u # t
        BY <1>11, <3>1, <3>2, <4>2 DEF Twin
      <4> QED
        BY <4>1, <4>2
    <3> QED
      BY <1>1, <1>12, <3>3, <3>4 DEF Twin, Covers
  <2> QED
    BY <2>2, <2>3, <2>4, <2>5 DEF Undivided
<1> QED
  BY <1>13, <1>15, <1>16, <1>17, <1>18 DEF NotebookInv, Always

LEMMA OpenKeeps == ASSUME NotebookInv, NEW t \in Tabs, Open(t) PROVE NotebookInv'
<1>1. /\ Spend("troubles", MaxTroubles) /\ UNCHANGED <<record, subs, overlap>>
      /\ page' = [page EXCEPT ![t] = Loaded]
      /\ wire' = {IF r.tab = t THEN [r EXCEPT !.orphan = TRUE, !.shown = Blank] ELSE r :
                    r \in {q \in wire : q.tab = t => q.stage # "replied"}}
  BY DEF Open
<1>2. /\ page \in [Tabs -> PageRow] /\ record \in RecordRow /\ spent.ids \in Nat
      /\ spent' \in SpentRow /\ spent'.edits = spent.edits /\ spent'.ids = spent.ids
  BY <1>1, Rows, Spends DEF SpentRow
<1>3. /\ Loaded \in PageRow /\ Loaded.src = record.src /\ Loaded.rev = record.rev /\ Loaded.dirty = {}
      /\ Loaded.saved /\ ~Loaded.conflict /\ ~Loaded.wants /\ Loaded.id = 0 /\ ~Loaded.unheard
  BY <1>2 DEF Loaded, PageRow, RecordRow
<1>4. page' \in [Tabs -> PageRow] /\ page'[t] = Loaded /\ \A u \in Tabs : u # t => page'[u] = page[u]
  BY <1>1, <1>2, <1>3
\* A request either was another page's or has lost its page.
<1>5. ASSUME NEW q \in wire'
      PROVE  \/ q \in wire /\ q.tab # t
             \/ \E r \in wire : /\ r.tab = t /\ r.stage # "replied" /\ q \in WireRow
                                /\ q = [r EXCEPT !.orphan = TRUE, !.shown = Blank]
                                /\ q.tab = t /\ q.kind = r.kind /\ q.orphan /\ q.id = r.id /\ q.stage = r.stage
                                /\ q.result = r.result
                                /\ RequestNotLater(q) /\ (Handling(q) <=> Handling(r))
                                /\ Flying(q) /\ (~overlap => Served(q))
  <2>1. PICK r \in wire : /\ r.tab = t => r.stage # "replied"
                          /\ q = IF r.tab = t THEN [r EXCEPT !.orphan = TRUE, !.shown = Blank] ELSE r
    BY <1>1, <1>5
  <2>2. CASE r.tab # t
    BY <2>1, <2>2
  <2>3. CASE r.tab = t
    <3>1. q = [r EXCEPT !.orphan = TRUE, !.shown = Blank] /\ r.stage # "replied"
      BY <2>1, <2>3
    <3>2. PICK p \in WireRow :
           /\ p = [r EXCEPT !.orphan = TRUE, !.shown = Blank]
           /\ p.tab = r.tab /\ p.kind = r.kind /\ p.orphan /\ p.id = r.id /\ p.stage = r.stage
           /\ p.result = r.result /\ RequestNotLater(p) /\ (Handling(p) <=> Handling(r))
           /\ Flying(p) /\ (~overlap => Served(p))
      BY <3>1, Forgets
    <3>3. p = q
      BY <3>1, <3>2
    <3> QED
      BY <2>3, <3>1, <3>2, <3>3
  <2> QED
    BY <2>2, <2>3
<1> DEFINE Was(q, r) == /\ r.tab = q.tab /\ r.kind = q.kind /\ r.id = q.id /\ (Handling(q) <=> Handling(r))
                        /\ r.tab # t => q = r
                        /\ r.tab = t => q = [r EXCEPT !.orphan = TRUE, !.shown = Blank]
<1>5a. \A q \in wire' : \E r \in wire : Was(q, r)
  <2>0. SUFFICES ASSUME NEW q \in wire' PROVE \E r \in wire : Was(q, r)
    OBVIOUS
  <2>1. CASE q \in wire /\ q.tab # t
    BY <2>1
  <2>2. CASE ~(q \in wire /\ q.tab # t)
    BY <1>5, <2>2
  <2> QED
    BY <2>1, <2>2
<1>6. \A q \in wire' : /\ q \in WireRow /\ q.tab \in Tabs /\ q.stage \in {"sent", "read", "clash", "replied"}
                       /\ Flying(q) /\ RequestNotLater(q) /\ (~overlap => Served(q))
                       /\ q.orphan \/ (q \in wire /\ q.tab # t)
                       /\ q.tab = t => q.stage # "replied"
  BY <1>5, Flight DEF WireRow
<1>7. \A q \in wire : q.tab # t => q \in wire'
  <2>1. SUFFICES ASSUME NEW q \in wire, q.tab # t PROVE q \in wire'
    OBVIOUS
  <2>2. q \in {p \in wire : p.tab = t => p.stage # "replied"} /\ q = IF q.tab = t THEN [q EXCEPT !.orphan = TRUE, !.shown = Blank] ELSE q
    BY <2>1
  <2> QED
    BY <1>1, <2>2
<1>8. NotebookType'
  BY <1>1, <1>2, <1>4, <1>6, Rows DEF NotebookType
<1>9. \A u \in Tabs : PageNotLater(u)' /\ PageIs(u)' /\ Told(u)'
  <2>1. SUFFICES ASSUME NEW u \in Tabs PROVE PageNotLater(u)' /\ PageIs(u)' /\ Told(u)'
    OBVIOUS
  <2>2. CASE u = t
    <3>1. PageNotLater(u)'
      BY <1>2, <1>3, <1>4, <2>2, Rows DEF PageNotLater, NotLater, RecordNotLater
    <3>2. \A q \in wire' : q.tab = u => q.orphan
      BY <1>6, <2>2
    <3>3. PageIs(u)'
      BY <1>2, <1>3, <1>4, <2>2, <3>2 DEF PageIs, Mine
    <3>4. Told(u)'
      BY <1>1, <1>3, <1>4, <2>2, <3>2 DEF Told
    <3> QED
      BY <3>1, <3>3, <3>4
  <2>3. CASE u # t
    <3>1. PageNotLater(u) /\ PageIs(u) /\ Told(u) /\ page'[u] = page[u]
      BY <1>4, <2>3, PageOf
    <3>2. \A q \in wire' : q.tab = u => q \in wire
      BY <1>5, <2>3
    <3>3. PageNotLater(u)' /\ PageIs(u)'
      BY <1>2, <3>1, <3>2 DEF PageNotLater, NotLater, PageIs, Mine
    <3>4. Told(u)'
      BY <1>1, <1>7, <2>3, <3>1, <3>2 DEF Told
    <3> QED
      BY <3>3, <3>4
  <2> QED
    BY <2>2, <2>3
<1>10. \A q \in wire' : RequestNotLater(q)' /\ Flying(q)'
  <2>1. SUFFICES ASSUME NEW q \in wire' PROVE RequestNotLater(q)' /\ Flying(q)'
    OBVIOUS
  <2>2. Flying(q) /\ RequestNotLater(q) /\ q.tab \in Tabs
    BY <1>6
  <2>3. ~q.orphan => page'[q.tab] = page[q.tab]
    BY <1>4, <1>6
  <2> QED
    BY <1>1, <1>2, <2>2, <2>3 DEF RequestNotLater, NotLater, Flying, Blank
<1>11. IdsApart' /\ AttemptsDense' /\ RecordNotLater'
  <2>1. \A q \in wire' : q.kind = "submit" => q.id # 0
    BY <1>6 DEF Flying
  <2>2. IdsApart
    BY Rows
  <2>3. ASSUME NEW q \in wire', NEW u \in Tabs, q.kind = "submit", q.id = page'[u].id PROVE q.tab = u
    <3>1. u # t /\ page'[u] = page[u]
      BY <1>3, <1>4, <2>1, <2>3
    <3> HIDE DEF Was
    <3>2. PICK r \in wire : Was(q, r)
      BY <1>5a
    <3>3. r.tab = q.tab /\ r.kind = "submit" /\ r.id = q.id
      BY <2>3, <3>2 DEF Was
    <3> QED
      BY <2>2, <2>3, <3>1, <3>3 DEF IdsApart
  <2>4. \A u, v \in Tabs : page'[u].id = page'[v].id /\ page'[u].id # 0 => u = v
    BY <1>3, <1>4, <2>2 DEF IdsApart
  <2> QED
    BY <1>1, <1>2, <2>2, <2>3, <2>4, Rows DEF IdsApart, AttemptsDense, RecordNotLater, NotLater
<1>12. ASSUME ~overlap' PROVE Undivided'
  <2>1. OneHandler'
    <3>1. SUFFICES ASSUME NEW q \in wire', NEW p \in wire', Handling(q), Handling(p) PROVE q = p
      BY DEF OneHandler, Handling
    <3>2. OneHandler
      BY <1>1, <1>12, Rows
    <3> HIDE DEF Was
    <3>3. PICK x \in wire : Was(q, x)
      BY <1>5a
    <3>4. PICK y \in wire : Was(p, y)
      BY <1>5a
    <3>5. Handling(x) /\ Handling(y)
      BY <3>1, <3>3, <3>4 DEF Was
    <3>6. x = y
      BY <3>2, <3>5 DEF OneHandler
    <3> QED
      BY <3>3, <3>4, <3>6 DEF Was
  <2>2. \A q \in wire' : Served(q)'
    <3>1. SUFFICES ASSUME NEW q \in wire' PROVE Served(q)'
      OBVIOUS
    <3>2. Served(q)
      BY <1>1, <1>6, <1>12
    <3>3. q.stage = "replied" => page'[q.tab] = page[q.tab]
      BY <1>4, <1>6
    <3> QED
      BY <1>1, <3>2, <3>3 DEF Served, Covers, RowsWithId
  <2>3. \A u \in Tabs : Kept(u)'
    <3>1. SUFFICES ASSUME NEW u \in Tabs PROVE Kept(u)'
      OBVIOUS
    <3>2. Kept(u)
      BY <1>1, <1>12, PageOf
    <3>3. \A c \in Cells : record.src[c] \in Nat
      BY <1>2 DEF RecordRow, Texts
    <3>4. record.rev \in Nat
      BY <1>2 DEF RecordRow
    <3>5. CASE u = t
      <4>1. /\ page'[u].rev = record.rev /\ page'[u].dirty = {} /\ page'[u].src = record.src
            /\ record' = record
        BY <1>1, <1>3, <1>4, <3>5
      <4> QED
        BY <3>3, <3>4, <4>1 DEF Kept
    <3>6. CASE u # t
      BY <1>1, <1>4, <3>2, <3>6 DEF Kept
    <3> QED
      BY <3>5, <3>6
  <2>4. \A u \in Tabs, n \in 1..Len(subs)' : Twin(u, n)'
    <3>1. SUFFICES ASSUME NEW u \in Tabs, NEW n \in 1..Len(subs), page'[u].id # 0 PROVE Twin(u, n)'
      BY <1>1 DEF Twin
    <3>2. Twin(u, n) /\ u # t /\ page'[u] = page[u]
      BY <1>1, <1>3, <1>4, <1>12, <3>1, PageOf
    <3>3. \A q \in wire' : q.tab = u => q \in wire
      BY <1>5, <3>2
    <3> QED
      BY <1>1, <3>2, <3>3 DEF Twin, Covers
  <2> QED
    BY <2>1, <2>2, <2>3, <2>4 DEF Undivided
<1> QED
  BY <1>8, <1>9, <1>10, <1>11, <1>12 DEF NotebookInv, Always

\* What every page but one is told nothing of.
LEMMA Unheard ==
  ASSUME NotebookInv, NEW tabs, Untold(tabs)
  PROVE  /\ page' \in [Tabs -> PageRow]
         /\ \A t \in Tabs :
              /\ page'[t].src = page[t].src /\ page'[t].rev = page[t].rev /\ page'[t].dirty = page[t].dirty
              /\ page'[t].saved = page[t].saved /\ page'[t].conflict = page[t].conflict
              /\ page'[t].wants = page[t].wants /\ page'[t].id = page[t].id
              /\ page'[t].unheard <=> page[t].unheard \/ t \in tabs
<1>1. page \in [Tabs -> PageRow] /\ page' = [t \in Tabs |-> [page[t] EXCEPT !.unheard = @ \/ t \in tabs]]
  BY Rows DEF Untold
<1>2. ASSUME NEW t \in Tabs
      PROVE  /\ page'[t] \in PageRow
             /\ page'[t].src = page[t].src /\ page'[t].rev = page[t].rev /\ page'[t].dirty = page[t].dirty
             /\ page'[t].saved = page[t].saved /\ page'[t].conflict = page[t].conflict
             /\ page'[t].wants = page[t].wants /\ page'[t].id = page[t].id
             /\ page'[t].unheard <=> page[t].unheard \/ t \in tabs
  <2>1. page[t] \in PageRow /\ page'[t] = [page[t] EXCEPT !.unheard = @ \/ t \in tabs]
    BY <1>1
  <2>2. PICK unheard \in BOOLEAN : unheard <=> page[t].unheard \/ t \in tabs
    OBVIOUS
  <2>3. page'[t] = [page[t] EXCEPT !.unheard = unheard]
    BY <2>1, <2>2 DEF PageRow
  <2> QED
    BY <2>1, <2>2, <2>3 DEF PageRow
<1>3. page' \in [Tabs -> PageRow]
  BY <1>1, <1>2
<1> QED
  BY <1>2, <1>3

LEMMA SaveCommitKeeps == ASSUME NotebookInv, NEW r \in wire, SaveCommit(r) PROVE NotebookInv'
<1>1. /\ r.kind = "save" /\ r.stage = "read" /\ UNCHANGED <<subs, spent, overlap>>
      /\ record' = [record EXCEPT !.src = r.src, !.rev = r.rev + 1] /\ Reply(r, r.rev + 1)
      /\ Untold(Tabs \ (IF r.orphan THEN {} ELSE {r.tab}))
  BY DEF SaveCommit
<1>2. PICK t \in Tabs : t = r.tab
  BY Flight DEF WireRow
<1>3. /\ r \in WireRow /\ r.src \in Texts /\ r.rev \in Nat /\ r.cells \in SUBSET Cells
      /\ Flying(r) /\ RequestNotLater(r) /\ (~overlap => Served(r))
      /\ record \in RecordRow /\ record.src \in Texts /\ record.rev \in Nat
  BY Flight, Rows DEF WireRow, RecordRow
<1>4. record' \in RecordRow /\ record'.src = r.src /\ record'.rev = r.rev + 1
  <2>1. PICK rev \in Nat \ {0} : rev = r.rev + 1
    BY <1>3
  <2>2. record' = [record EXCEPT !.src = r.src, !.rev = rev]
    BY <1>1, <2>1
  <2> QED
    BY <1>3, <2>1, <2>2 DEF RecordRow
<1>5. PICK new \in WireRow :
           /\ new.tab = r.tab /\ new.kind = r.kind /\ new.id = r.id /\ new.orphan = r.orphan
           /\ new.shown = r.shown /\ new.cells = r.cells /\ new.stage = "replied" /\ new.result = r.rev + 1
           /\ new.src = r.src /\ wire' = (wire \ {r}) \cup IF r.orphan THEN {} ELSE {new}
  BY <1>1, <1>3, Answer
<1>6. \A q \in wire' : (q = new /\ ~r.orphan) \/ (q \in wire /\ q # r)
  BY <1>5
<1>7. /\ page' \in [Tabs -> PageRow]
      /\ \A u \in Tabs :
           /\ page'[u].src = page[u].src /\ page'[u].rev = page[u].rev /\ page'[u].dirty = page[u].dirty
           /\ page'[u].saved = page[u].saved /\ page'[u].conflict = page[u].conflict
           /\ page'[u].wants = page[u].wants /\ page'[u].id = page[u].id
           /\ page[u].unheard => page'[u].unheard
           /\ ~(u = t /\ ~r.orphan) => page'[u].unheard
  BY <1>1, <1>2, Unheard
<1>8. NotebookType'
  <2>1. wire' \subseteq WireRow
    BY <1>6, Rows
  <2> QED
    BY <1>1, <1>4, <1>7, <2>1, Rows DEF NotebookType
<1>9. RecordNotLater' /\ IdsApart' /\ AttemptsDense'
  <2>1. RecordNotLater'
    BY <1>1, <1>3, <1>4 DEF RecordNotLater, RequestNotLater, NotLater
  <2>2. \A q \in wire', u \in Tabs : q.kind = "submit" /\ q.id = page'[u].id => q.tab = u
    BY <1>1, <1>5, <1>6, <1>7, Rows DEF IdsApart
  <2> QED
    BY <1>1, <1>7, <2>1, <2>2, Rows DEF IdsApart, AttemptsDense
<1>10. \A u \in Tabs : PageNotLater(u)' /\ PageIs(u)'
  <2>1. SUFFICES ASSUME NEW u \in Tabs PROVE PageNotLater(u)' /\ PageIs(u)'
    OBVIOUS
  <2>2. PageNotLater(u) /\ PageIs(u)
    BY PageOf
  <2>3. PageNotLater(u)'
    BY <1>1, <1>7, <2>2 DEF PageNotLater, NotLater
  <2>4. page'[u].wants => Mine(u, "submit")' = {}
    BY <1>1, <1>5, <1>6, <1>7, <2>2 DEF PageIs, Mine
  <2>5. \A p, q \in wire' : p.tab = u /\ q.tab = u /\ p.kind = q.kind /\ ~p.orphan /\ ~q.orphan => p = q
    BY <1>1, <1>5, <1>6, <2>2 DEF PageIs
  <2> QED
    BY <1>1, <1>7, <2>2, <2>3, <2>4, <2>5 DEF PageIs
<1>11. \A u \in Tabs : Told(u)'
  <2>1. SUFFICES ASSUME NEW u \in Tabs, ~page'[u].unheard PROVE Told(u)'
    BY DEF Told
  <2>2. u = t /\ ~r.orphan
    BY <1>7, <2>1
  <2>3. \A q \in wire' : q.tab = u /\ q.kind = "save" /\ ~q.orphan => q = new
    BY <1>1, <1>2, <1>6, <2>2, OneEach
  <2>4. new \in wire' /\ new.tab = u /\ new.kind = "save" /\ ~new.orphan /\ new.stage = "replied" /\ new.result = r.rev + 1
    BY <1>1, <1>2, <1>5, <2>2
  <2> QED
    BY <1>4, <2>3, <2>4 DEF Told
<1>12. \A q \in wire' : RequestNotLater(q)' /\ Flying(q)'
  <2>1. SUFFICES ASSUME NEW q \in wire' PROVE RequestNotLater(q)' /\ Flying(q)'
    OBVIOUS
  <2>2. CASE q = new /\ ~r.orphan
    BY <1>1, <1>2, <1>3, <1>5, <1>7, <2>2 DEF RequestNotLater, NotLater, Flying
  <2>3. CASE q \in wire
    BY <1>1, <1>7, <2>3, Flight DEF RequestNotLater, NotLater, Flying, Blank, WireRow
  <2> QED
    BY <1>6, <2>2, <2>3
<1>13. ASSUME ~overlap' PROVE Undivided'
  <2>1. /\ OneHandler /\ Handling(r) /\ r.rev = record.rev /\ record'.rev = record.rev + 1
        /\ \A c \in Cells : /\ record'.src[c] >= record.src[c] /\ record'.src[c] \in Nat /\ record.src[c] \in Nat
                            /\ c \in r.cells \/ record'.src[c] = record.src[c]
    BY <1>1, <1>3, <1>4, <1>13, Rows DEF Served, Covers, Texts, Handling
  <2>2. \A q \in wire \ {r} : ~Handling(q)
    BY <2>1 DEF OneHandler
  <2>3. OneHandler'
    BY <1>5, <1>6, <2>2 DEF OneHandler, Handling
  <2>4. \A src \in Texts : Covers(record.src, src) => Covers(record.src, src)'
    <3>1. SUFFICES ASSUME NEW src \in Texts, Covers(record.src, src), NEW c \in Cells PROVE record'.src[c] >= src[c]
      BY DEF Covers
    <3>2. src[c] \in Nat /\ record.src[c] >= src[c]
      BY <3>1 DEF Covers, Texts
    <3> QED
      BY <2>1, <3>2
  <2>5. \A u \in Tabs : Kept(u)'
    <3>1. SUFFICES ASSUME NEW u \in Tabs PROVE Kept(u)'
      OBVIOUS
    <3>2. Kept(u) /\ page[u].rev \in Nat /\ page[u].src \in Texts /\ page[u].dirty \in SUBSET Cells
      BY <1>1, <1>13, PageOf DEF PageRow
    <3>3. page'[u].rev < record'.rev
      BY <1>3, <1>7, <2>1, <3>2 DEF Kept
    <3>4. \A c \in Cells \ page'[u].dirty : page'[u].src[c] <= record'.src[c]
      BY <1>7, <2>1, <3>2 DEF Kept, Texts
    <3>5. page'[u].rev \in Nat /\ record'.rev \in Nat
      BY <1>3, <1>7, <2>1, <3>2
    <3> QED
      BY <3>3, <3>4, <3>5 DEF Kept
  <2>6. Served(new)' \/ r.orphan
    <3>1. SUFFICES ASSUME ~r.orphan PROVE Served(new)'
      OBVIOUS
    <3>2. Kept(t) /\ page[t].dirty \in SUBSET Cells /\ page[t].src \in Texts /\ page[t].rev = record.rev
      BY <1>1, <1>2, <1>3, <1>13, <2>1, <3>1, PageOf DEF PageRow, Flying
    <3>3. \A c \in page[t].dirty : page[t].src[c] >= record.src[c]
      BY <3>2 DEF Kept
    <3>4. \A c \in r.cells : page[t].src[c] >= r.src[c]
      <4>1. \A c \in r.cells : r.src[c] <= page[t].src[c] /\ r.src[c] \in Nat /\ page[t].src[c] \in Nat
        BY <1>1, <1>2, <1>3, <3>1, <3>2 DEF Flying, Texts
      <4> QED
        BY <4>1
    <3>5. \A c \in page'[new.tab].dirty : page'[new.tab].src[c] >= record'.src[c]
      BY <1>2, <1>4, <1>5, <1>7, <2>1, <3>2, <3>3, <3>4
    <3>6. new.result <= record'.rev /\ \A c \in new.cells : new.src[c] <= record'.src[c]
      BY <1>3, <1>4, <1>5, <2>1
    <3> QED
      BY <1>1, <1>5, <3>5, <3>6 DEF Served
  <2>7. ASSUME NEW q \in wire \ {r} PROVE Served(q)'
    <3>1. /\ Served(q) /\ ~Handling(q) /\ q.stage \in {"sent", "read", "clash", "replied"}
          /\ q.shown \in Texts /\ q.src \in Texts /\ q.rev \in Nat /\ q.result \in Nat /\ q.cells \in SUBSET Cells
      BY <1>1, <1>13, <2>2, Flight DEF WireRow
    <3>2. q.stage # "read" /\ q.stage # "clash"
      BY <3>1 DEF Handling
    <3>3. q.kind = "submit" => Covers(record.src, q.shown)'
      BY <2>4, <3>1 DEF Served
    <3>4. q.kind = "save" /\ q.stage = "sent" => q.rev < record'.rev
      BY <1>3, <2>1, <3>1 DEF Served
    <3>5. q.kind = "save" /\ q.stage = "replied" /\ q.result # 0 =>
            q.result < record'.rev /\ \A c \in q.cells : q.src[c] <= record'.src[c]
      BY <1>3, <2>1, <3>1 DEF Served, Texts
    <3>6. record'.rev \in Nat
      BY <1>3, <2>1
    <3> QED
      BY <1>1, <3>1, <3>2, <3>3, <3>4, <3>5, <3>6 DEF Served, Covers
  <2>8. \A u \in Tabs, n \in 1..Len(subs)' : Twin(u, n)'
    <3>1. SUFFICES ASSUME NEW u \in Tabs, NEW n \in 1..Len(subs), page[u].id = subs[n].id, page[u].id # 0
                   PROVE  Twin(u, n)'
      BY <1>1, <1>7 DEF Twin
    <3>2. Twin(u, n) /\ page[u].rev < record.rev /\ page[u].rev \in Nat
      BY <1>1, <1>13, <3>1, PageOf DEF Twin, PageRow
    <3>3. ~(r.tab = u /\ ~r.orphan)
      BY <1>1, <1>3, <2>1, <3>2 DEF Flying
    <3>4. \A q \in wire' : q.tab = u /\ ~q.orphan => q \in wire
      BY <1>5, <1>6, <3>3
    <3>5. page'[u].rev < record'.rev
      BY <1>3, <1>7, <2>1, <3>2
    <3>6. \A q \in wire' : q.tab = u /\ ~q.orphan =>
         /\ q.kind = "submit" => Covers(subs[n].snapshot, q.shown)
         /\ q.kind = "save" /\ q.stage = "replied" /\ q.result # 0 =>
              q.result < record'.rev /\ \A c \in q.cells : q.src[c] <= subs[n].snapshot[c]
      <4>1. SUFFICES ASSUME NEW q \in wire, q.tab = u, ~q.orphan
            PROVE /\ q.kind = "submit" => Covers(subs[n].snapshot, q.shown)
                  /\ q.kind = "save" /\ q.stage = "replied" /\ q.result # 0 =>
                       q.result < record'.rev /\ \A c \in q.cells : q.src[c] <= subs[n].snapshot[c]
        BY <3>4
      <4>2. q.result \in Nat
        BY Flight DEF WireRow
      <4> QED
        BY <1>3, <2>1, <3>1, <3>2, <4>1, <4>2 DEF Twin
    <3> QED
      BY <1>1, <1>7, <3>1, <3>2, <3>5, <3>6 DEF Twin, Covers
  <2> QED
    BY <1>6, <2>3, <2>5, <2>6, <2>7, <2>8 DEF Undivided
<1> QED
  BY <1>8, <1>9, <1>10, <1>11, <1>12, <1>13 DEF NotebookInv, Always

LEMMA SubmittedKeeps ==
  ASSUME NotebookInv, NEW r \in wire, r.kind = "submit", r.stage \in {"read", "clash"}, RowsWithId(r.id) = {},
         NEW number, NEW rev \in Nat \ {0}, NEW status \in Statuses, Submitted(r, number, rev, status),
         number = Len(subs) + 1,
         ~overlap => r.stage = "read" /\ rev = record.rev + 1
  PROVE  NotebookInv'
<1>1. /\ subs' = Append(subs, [id |-> r.id, number |-> number, snapshot |-> r.src])
      /\ record' = [record EXCEPT !.rev = rev, !.status = status]
      /\ Reply(r, Len(subs) + 1) /\ Untold(Tabs) /\ UNCHANGED <<spent, overlap>>
  BY DEF Submitted
<1>2. PICK len \in Nat : len = Len(subs)
  BY LastIs
<1>3. /\ r \in WireRow /\ r.src \in Texts /\ r.id \in Nat /\ r.id # 0 /\ r.tab \in Tabs
      /\ Flying(r) /\ RequestNotLater(r) /\ (~overlap => Served(r))
      /\ record \in RecordRow /\ record.src \in Texts /\ record.rev \in Nat
  BY Flight, Rows DEF WireRow, RecordRow, Flying
<1>4. record' \in RecordRow /\ record'.src = record.src /\ record'.rev = rev
  BY <1>1, <1>3 DEF RecordRow
<1>5. PICK sub \in SubRow : /\ sub = [id |-> r.id, number |-> number, snapshot |-> r.src]
                            /\ sub.id = r.id /\ sub.number = len + 1 /\ sub.snapshot = r.src
  <2>1. number \in Nat /\ number = len + 1
    BY <1>2
  <2>2. [id |-> r.id, number |-> number, snapshot |-> r.src] \in SubRow
    BY <1>3, <2>1 DEF SubRow
  <2> QED
    BY <2>1, <2>2
<1>6. /\ subs' \in Seq(SubRow) /\ Len(subs') = len + 1 /\ subs'[len + 1] = sub
      /\ \A n \in 1..len : subs'[n] = subs[n]
  BY <1>1, <1>2, <1>5, Rows
<1>7. PICK new \in WireRow :
           /\ new.tab = r.tab /\ new.kind = r.kind /\ new.id = r.id /\ new.orphan = r.orphan
           /\ new.shown = r.shown /\ new.stage = "replied" /\ new.result = len + 1
           /\ new.src = Blank /\ wire' = (wire \ {r}) \cup IF r.orphan THEN {} ELSE {new}
  BY <1>1, <1>2, Answer
<1>8. \A q \in wire' : (q = new /\ ~r.orphan) \/ (q \in wire /\ q # r)
  BY <1>7
<1>9. /\ page' \in [Tabs -> PageRow]
      /\ \A u \in Tabs :
           /\ page'[u].src = page[u].src /\ page'[u].rev = page[u].rev /\ page'[u].dirty = page[u].dirty
           /\ page'[u].saved = page[u].saved /\ page'[u].conflict = page[u].conflict
           /\ page'[u].wants = page[u].wants /\ page'[u].id = page[u].id
           /\ page'[u].unheard
  BY <1>1, Unheard
<1>10. NotebookType'
  <2>1. wire' \subseteq WireRow
    BY <1>8, Rows
  <2> QED
    BY <1>1, <1>4, <1>6, <1>9, <2>1, Rows DEF NotebookType
<1>11. \A n \in 1..len : subs[n].id # r.id
  BY <1>2 DEF RowsWithId
<1>12. RecordNotLater' /\ IdsApart' /\ AttemptsDense'
  <2>1. RecordNotLater'
    BY <1>1, <1>4, Rows DEF RecordNotLater, NotLater
  <2>2. \A q \in wire', u \in Tabs : q.kind = "submit" /\ q.id = page'[u].id => q.tab = u
    BY <1>7, <1>8, <1>9, Rows DEF IdsApart
  <2>3. ASSUME NEW n \in 1..(len + 1) PROVE subs'[n].id <= spent'.ids
    BY <1>1, <1>2, <1>3, <1>5, <1>6, SubAt DEF Flying
  <2>4. IdsApart'
    BY <1>6, <1>9, <2>2, <2>3, Rows DEF IdsApart
  <2>5. ASSUME NEW n \in 1..(len + 1)
        PROVE  subs'[n].number = n /\ \A k \in 1..(n - 1) : subs'[k].id # subs'[n].id
    <3>1. CASE n = len + 1
      <4>1. \A k \in 1..(n - 1) : k \in 1..len
        BY <1>2, <3>1
      <4> QED
        BY <1>5, <1>6, <1>11, <3>1, <4>1
    <3>2. CASE n # len + 1
      <4>1. n \in 1..len /\ \A k \in 1..(n - 1) : k \in 1..len
        BY <1>2, <3>2
      <4>2. subs[n].number = n /\ \A k \in 1..(n - 1) : subs[k].id # subs[n].id
        BY <1>2, <4>1, Rows DEF AttemptsDense
      <4> QED
        BY <1>6, <4>1, <4>2
    <3> QED
      BY <3>1, <3>2
  <2>6. AttemptsDense'
    BY <1>6, <2>5 DEF AttemptsDense
  <2> QED
    BY <2>1, <2>4, <2>6
<1>13. \A u \in Tabs : PageNotLater(u)' /\ PageIs(u)' /\ Told(u)'
  <2>1. SUFFICES ASSUME NEW u \in Tabs PROVE PageNotLater(u)' /\ PageIs(u)' /\ Told(u)'
    OBVIOUS
  <2>2. PageNotLater(u) /\ PageIs(u)
    BY PageOf
  <2>3. PageNotLater(u)'
    BY <1>1, <1>9, <2>2 DEF PageNotLater, NotLater
  <2>4. page'[u].wants => Mine(u, "submit")' = {}
    BY <1>7, <1>8, <1>9, <2>2 DEF PageIs, Mine
  <2>5. \A p, q \in wire' : p.tab = u /\ q.tab = u /\ p.kind = q.kind /\ ~p.orphan /\ ~q.orphan => p = q
    BY <1>7, <1>8, <2>2 DEF PageIs
  <2>6. Told(u)'
    BY <1>9 DEF Told
  <2> QED
    BY <1>1, <1>9, <2>2, <2>3, <2>4, <2>5, <2>6 DEF PageIs
<1>14. \A q \in wire' : RequestNotLater(q)' /\ Flying(q)'
  <2>1. SUFFICES ASSUME NEW q \in wire' PROVE RequestNotLater(q)' /\ Flying(q)'
    OBVIOUS
  <2>2. spent.edits \in Nat
    BY Rows DEF SpentRow
  <2>3. CASE q = new /\ ~r.orphan
    BY <1>1, <1>2, <1>3, <1>6, <1>7, <1>9, <2>2, <2>3 DEF RequestNotLater, NotLater, Flying, Blank
  <2>4. CASE q \in wire
    <3>1. /\ q.tab \in Tabs /\ q.last \in Nat /\ q.result \in Nat /\ Flying(q) /\ RequestNotLater(q)
      BY <2>4, Flight DEF WireRow
    <3>2. RequestNotLater(q)'
      BY <1>1, <3>1 DEF RequestNotLater, NotLater
    <3>3. /\ q.kind = "submit" /\ q.stage = "read" => q.last <= len + 1
          /\ q.kind = "submit" /\ q.stage = "replied" => q.result <= len + 1
      BY <1>2, <3>1 DEF Flying
    <3> QED
      BY <1>1, <1>6, <1>9, <3>1, <3>2, <3>3 DEF Flying, Blank
  <2> QED
    BY <1>8, <2>3, <2>4
<1>15. ASSUME ~overlap' PROVE Undivided'
  <2>1. /\ OneHandler /\ Handling(r) /\ r.src = record.src /\ rev = record.rev + 1
        /\ Covers(record.src, r.shown)
    BY <1>1, <1>3, <1>15, Rows DEF Served, Handling
  <2>2. \A q \in wire \ {r} : ~Handling(q)
    BY <2>1 DEF OneHandler
  <2>3. OneHandler'
    BY <1>7, <1>8, <2>2 DEF OneHandler, Handling
  <2>4. ASSUME NEW u \in Tabs PROVE Kept(u)' /\ page[u].rev < rev
    <3>1. Kept(u) /\ page[u].rev \in Nat
      BY <1>1, <1>15, PageOf DEF PageRow
    <3>2. page[u].rev < rev
      BY <1>3, <2>1, <3>1 DEF Kept
    <3> QED
      BY <1>3, <1>4, <1>9, <2>1, <3>1, <3>2 DEF Kept
  <2>5. Served(new)'
    BY <1>4, <1>6, <1>7, <2>1, <1>5, <1>2 DEF Served, Covers
  <2>6. ASSUME NEW q \in wire \ {r} PROVE Served(q)'
    <3>1. /\ Served(q) /\ Flying(q) /\ ~Handling(q) /\ q.stage \in {"sent", "read", "clash", "replied"}
          /\ q.rev \in Nat /\ q.result \in Nat
      BY <1>1, <1>15, <2>2, Flight DEF WireRow
    <3>2. q.stage # "read" /\ q.stage # "clash"
      BY <3>1 DEF Handling
    <3>3. q.kind = "save" /\ q.stage = "sent" => q.rev < rev
      BY <1>3, <2>1, <3>1 DEF Served
    <3>4. q.kind = "save" /\ q.stage = "replied" /\ q.result # 0 => q.result < rev
      BY <1>3, <2>1, <3>1 DEF Served
    <3>5. q.kind = "submit" /\ q.stage = "replied" /\ q.result # 0 =>
            Covers(subs'[q.result].snapshot, q.shown)
      <4>1. SUFFICES ASSUME q.kind = "submit", q.stage = "replied", q.result # 0
                     PROVE  Covers(subs'[q.result].snapshot, q.shown)
        OBVIOUS
      <4>2. q.result \in 1..len
        BY <1>2, <3>1, <4>1 DEF Flying
      <4> QED
        BY <1>6, <3>1, <4>1, <4>2 DEF Served
    <3> QED
      BY <1>4, <3>1, <3>2, <3>3, <3>4, <3>5 DEF Served, Covers
  <2>7. ASSUME NEW u \in Tabs, NEW n \in 1..len PROVE Twin(u, n)'
    <3>1. Twin(u, n) /\ subs'[n] = subs[n] /\ page[u].rev < rev
      BY <1>1, <1>2, <1>6, <1>15, <2>4, PageOf
    <3>2. SUFFICES ASSUME page[u].id = subs[n].id, page[u].id # 0 PROVE Twin(u, n)'
      BY <1>9, <3>1 DEF Twin
    <3>3. ~(r.tab = u /\ ~r.orphan)
      BY <1>3, <1>11, <3>2 DEF Flying
    <3>4. \A q \in wire' : q.tab = u /\ ~q.orphan => q \in wire
      BY <1>7, <1>8, <3>3
    <3>5. \A q \in wire' : q.tab = u /\ ~q.orphan =>
         /\ q.kind = "submit" => Covers(subs[n].snapshot, q.shown)
         /\ q.kind = "save" /\ q.stage = "replied" /\ q.result # 0 =>
              q.result < rev /\ \A c \in q.cells : q.src[c] <= subs[n].snapshot[c]
      <4>1. SUFFICES ASSUME NEW q \in wire, q.tab = u, ~q.orphan
            PROVE /\ q.kind = "submit" => Covers(subs[n].snapshot, q.shown)
                  /\ q.kind = "save" /\ q.stage = "replied" /\ q.result # 0 =>
                       q.result < rev /\ \A c \in q.cells : q.src[c] <= subs[n].snapshot[c]
        BY <3>4
      <4>2. q.result \in Nat
        BY Flight DEF WireRow
      <4> QED
        BY <1>3, <2>1, <3>1, <3>2, <4>1, <4>2 DEF Twin
    <3> QED
      BY <1>4, <1>9, <3>1, <3>2, <3>5 DEF Twin, Covers
  <2>8. ASSUME NEW u \in Tabs PROVE Twin(u, len + 1)'
    <3>1. subs'[len + 1] = sub /\ sub.snapshot = record.src /\ page[u].rev < rev /\ Kept(u)
      BY <1>1, <1>5, <1>6, <1>15, <2>1, <2>4, PageOf
    <3>2. \A q \in wire' : q.tab = u /\ ~q.orphan =>
         /\ q.kind = "submit" => Covers(record.src, q.shown)
         /\ q.kind = "save" /\ q.stage = "replied" /\ q.result # 0 =>
              q.result < rev /\ \A c \in q.cells : q.src[c] <= record.src[c]
      <4>1. SUFFICES ASSUME NEW q \in wire', q.tab = u, ~q.orphan
            PROVE /\ q.kind = "submit" => Covers(record.src, q.shown)
                  /\ q.kind = "save" /\ q.stage = "replied" /\ q.result # 0 =>
                       q.result < rev /\ \A c \in q.cells : q.src[c] <= record.src[c]
        OBVIOUS
      <4>2. CASE q = new
        BY <1>7, <2>1, <4>2
      <4>3. CASE q \in wire
        <5>1. Served(q) /\ q.result \in Nat
          BY <1>1, <1>15, <4>3, Flight DEF WireRow
        <5> QED
          BY <1>3, <2>1, <5>1 DEF Served
      <4> QED
        BY <1>8, <4>2, <4>3
    <3> QED
      BY <1>4, <1>9, <3>1, <3>2 DEF Twin, Kept, Covers
  <2>9. \A u \in Tabs, n \in 1..Len(subs)' : Twin(u, n)'
    <3>1. \A n \in 1..(len + 1) : n \in 1..len \/ n = len + 1
      BY <1>2
    <3> QED
      BY <1>6, <2>7, <2>8, <3>1
  <2> QED
    BY <1>8, <2>3, <2>4, <2>5, <2>6, <2>9 DEF Undivided
<1> QED
  BY <1>10, <1>12, <1>13, <1>14, <1>15 DEF NotebookInv, Always

LEMMA SubmitCommitKeeps == ASSUME NotebookInv, NEW r \in wire, SubmitCommit(r) PROVE NotebookInv'
<1>1. PICK status : /\ r.kind = "submit" /\ r.stage = "read" /\ Unique(r)
                    /\ status = IF r.status = "submitted" THEN record.status ELSE "submitted"
                    /\ Submitted(r, r.last + 1, r.rev + 1, status)
  BY DEF SubmitCommit
<1>2. /\ r.last \in Nat /\ r.rev \in Nat /\ r.last <= Len(subs) /\ Len(subs) \in Nat
      /\ (~overlap => Served(r)) /\ AttemptsDense /\ record.status \in Statuses
  BY <1>1, Flight, LastIs, Rows DEF WireRow, Flying, RecordRow
<1>3. r.last + 1 = Len(subs) + 1
  <2>1. \A n \in 1..Len(subs) : subs[n].number = n /\ subs[n].number # r.last + 1
    BY <1>1, <1>2 DEF Unique, AttemptsDense
  <2>2. PICK k \in Nat : k = r.last + 1
    BY <1>2
  <2>3. k \notin 1..Len(subs)
    BY <2>1, <2>2
  <2>4. PICK n \in Nat : n = Len(subs)
    BY <1>2
  <2>5. k # 0 /\ k <= n + 1 /\ ~(1 <= k /\ k <= n)
    BY <1>2, <2>2, <2>3, <2>4
  <2>6. k = n + 1
    BY <2>5
  <2> QED BY <2>2, <2>4, <2>6
<1>4. RowsWithId(r.id) = {}
  BY <1>1 DEF Unique, RowsWithId
<1>5. r.rev + 1 \in Nat \ {0} /\ status \in Statuses /\ (~overlap => r.rev + 1 = record.rev + 1)
  BY <1>1, <1>2 DEF Statuses, Served
<1> QED
  BY <1>1, <1>3, <1>4, <1>5, SubmittedKeeps

LEMMA SubmitRetryKeeps == ASSUME NotebookInv, NEW r \in wire, SubmitRetry(r) PROVE NotebookInv'
<1>1. r.stage = "clash" /\ r.kind = "submit" /\ overlap
  BY Flight DEF SubmitRetry, Flying, Served, WireRow
<1>2. CASE RowsWithId(r.id) # {}
  BY <1>1, <1>2, TwinAnswers DEF SubmitRetry
<1>3. CASE RowsWithId(r.id) = {}
  <2>1. Submitted(r, LastAttempt + 1, record.rev + 1, "submitted")
    BY <1>3 DEF SubmitRetry
  <2>2. record.rev + 1 \in Nat \ {0} /\ "submitted" \in Statuses /\ LastAttempt + 1 = Len(subs) + 1
    BY Rows, LastIs DEF RecordRow, Statuses
  <2> QED
    BY <1>1, <1>3, <2>1, <2>2, SubmittedKeeps
<1> QED
  BY <1>2, <1>3

LEMMA NotebookBegins == ASSUME NotebookInit PROVE NotebookInv
<1>1. /\ record = [src |-> [c \in Cells |-> 0], rev |-> 1, status |-> "started"]
      /\ subs = <<>> /\ wire = {} /\ overlap = FALSE
      /\ page = [t \in Tabs |-> Loaded]
      /\ spent = [edits |-> 0, submits |-> 0, troubles |-> 0, ids |-> 0]
  BY DEF NotebookInit
<1>2. record \in RecordRow /\ \A c \in Cells : record.src[c] = 0
  BY <1>1 DEF RecordRow, Texts, Statuses
<1>3. /\ Loaded \in PageRow /\ Loaded.src = record.src /\ Loaded.rev = record.rev /\ Loaded.dirty = {}
      /\ Loaded.saved /\ ~Loaded.conflict /\ ~Loaded.wants /\ Loaded.id = 0 /\ ~Loaded.unheard
  BY <1>2 DEF Loaded, PageRow, RecordRow
<1>4. /\ page \in [Tabs -> PageRow]
      /\ \A t \in Tabs :
           /\ page[t].src = record.src /\ page[t].rev = 1 /\ page[t].dirty = {}
           /\ page[t].saved /\ ~page[t].conflict /\ ~page[t].wants /\ page[t].id = 0 /\ ~page[t].unheard
  <2>1. PICK loaded \in PageRow : loaded = Loaded
    BY <1>3
  <2>2. page = [t \in Tabs |-> loaded] /\ record.rev = 1
    BY <1>1, <2>1
  <2> QED
    BY <1>3, <2>1, <2>2
<1>5. NotebookType
  <2>1. spent \in SpentRow
    BY <1>1 DEF SpentRow
  <2>2. wire \subseteq WireRow /\ overlap \in BOOLEAN
    BY <1>1
  <2>3. <<>> \in Seq(SubRow)
    OBVIOUS
  <2>4. subs \in Seq(SubRow)
    BY <1>1, <2>3
  <2> QED
    BY <1>2, <1>4, <2>1, <2>2, <2>4 DEF NotebookType
<1>6. Always
  <2>1. RecordNotLater
    BY <1>1, <1>2 DEF RecordNotLater, NotLater
  <2>2. \A t \in Tabs : PageNotLater(t) /\ PageIs(t) /\ Told(t)
    <3>1. record.rev = 1 /\ spent.edits = 0 /\ spent.ids = 0 /\ wire = {}
      BY <1>1
    <3>2. ASSUME NEW t \in Tabs PROVE PageNotLater(t)
      BY <1>2, <1>4, <3>1, <3>2 DEF PageNotLater, NotLater
    <3>3. ASSUME NEW t \in Tabs PROVE PageIs(t) /\ Told(t)
      BY <1>4, <3>1, <3>3 DEF PageIs, Told, Mine
    <3> QED
      BY <3>2, <3>3
  <2>3. IdsApart /\ AttemptsDense
    BY <1>1, <1>3, <1>4 DEF IdsApart, AttemptsDense
  <2> QED
    BY <1>1, <2>1, <2>2, <2>3 DEF Always
<1>7. Undivided
  <2>1. record.rev = 1
    BY <1>1
  <2>2. ASSUME NEW t \in Tabs PROVE Kept(t)
    <3>1. page[t].src = record.src /\ page[t].rev = 1 /\ page[t].dirty = {}
      BY <1>4
    <3>2. \A c \in Cells : page[t].src[c] = 0 /\ record.src[c] = 0
      BY <1>2, <3>1
    <3> QED
      BY <2>1, <3>1, <3>2 DEF Kept
  <2> QED
    BY <1>1, <2>2 DEF Undivided, OneHandler
<1> QED
  BY <1>5, <1>6, <1>7 DEF NotebookInv

LEMMA NotebookStep == ASSUME NotebookInv, [NotebookNext]_notebookVars PROVE NotebookInv'
<1>1. CASE UNCHANGED notebookVars
  <2>1. UNCHANGED <<record, subs, page, wire, spent, overlap>>
    BY <1>1 DEF notebookVars
  <2>2. NotebookType'
    BY <2>1, Rows DEF NotebookType
  <2>3. \A t \in Tabs : page[t].wants => Mine(t, "submit") = {}
    BY PageOf DEF PageIs
  <2> QED
    BY <2>1, <2>2, <2>3, WireRests
<1>2. ASSUME NEW t \in Tabs, SendSave(t) \/ ClickSubmit(t) \/ SendSubmit(t) \/ Open(t) PROVE NotebookInv'
  BY <1>2, SendSaveKeeps, ClickSubmitKeeps, SendSubmitKeeps, OpenKeeps
<1>3. ASSUME NEW t \in Tabs, NEW c \in Cells, Edit(t, c) PROVE NotebookInv'
  BY <1>3, EditKeeps
<1>4. ASSUME NEW r \in wire, Arrive(r) PROVE NotebookInv'
  BY <1>4, SaveReadKeeps, SaveCommitKeeps, SubmitReadKeeps, SubmitCommitKeeps, SubmitClashKeeps,
     SubmitRetryKeeps DEF Arrive
<1>5. ASSUME NEW r \in wire, Return(r) PROVE NotebookInv'
  BY <1>5, SaveDoneKeeps, SaveRefusedKeeps, SubmitDoneKeeps, LoseKeeps DEF Return
<1> QED
  BY <1>1, <1>2, <1>3, <1>4, <1>5, ReviewKeeps DEF NotebookNext

\* Several tabs' serial saves, save_cells and submit_record keep a record and
\* its pages in step: attempts are numbered as they are stored, an id belongs to
\* one page, and a page that was told of every change holds the row's revision;
\* and, unless two handlers overlapped between read and commit, what a page
\* takes for saved is stored, and what it may submit once more under the same
\* id is in the submission that was made the first time.
THEOREM NotebookInvariant == NotebookSpec => []NotebookInv
<1>1. NotebookInit => NotebookInv
  BY NotebookBegins
<1>2. NotebookInv /\ [NotebookNext]_notebookVars => NotebookInv'
  BY NotebookStep
<1> QED
  BY <1>1, <1>2, PTL DEF NotebookSpec

LEMMA NotebookInvKeepsWord == ASSUME NotebookInv PROVE RecordKeepsWord
<1>1. SavedIsStored
  <2>1. SUFFICES ASSUME ~overlap, NEW t \in Tabs, page[t].saved, NEW c \in Cells
                 PROVE  record.src[c] >= page[t].src[c]
    BY DEF SavedIsStored, Covers
  <2>2. page[t].dirty = {} /\ Kept(t) /\ page[t] \in PageRow /\ record \in RecordRow
    BY <2>1, PageOf, Rows DEF PageIs
  <2>3. page[t].src[c] <= record.src[c] /\ page[t].src[c] \in Nat /\ record.src[c] \in Nat
    BY <2>2 DEF Kept, PageRow, RecordRow, Texts
  <2> QED
    BY <2>3
<1>2. SubmittedWhatWasShown
  BY Flight DEF SubmittedWhatWasShown, Served
<1>3. AttemptsDense
  BY Rows
<1>4. ConflictExplained
  BY PageOf DEF PageIs, ConflictExplained
<1> QED
  BY <1>1, <1>2, <1>3, <1>4 DEF RecordKeepsWord, NothingLost, ToldTheTruth

\* What a page calls saved is stored, and what it is told was submitted contains
\* what it showed, although answers get lost and requests are sent again, unless
\* two handlers overlapped; attempts are numbered without a gap, and a page is
\* only told of a conflict when the row has changed without its being told.
THEOREM RecordsKeepWord == NotebookSpec => []RecordKeepsWord
<1>1. NotebookInv => RecordKeepsWord
  BY NotebookInvKeepsWord
<1> QED
  BY <1>1, NotebookInvariant, PTL
-----------------------------------------------------------------------------
(* StudioDraft.                                                            *)

StudioSpec == StudioInit /\ [][StudioNext]_studioVars

(* Types.                                                                  *)
DraftRow == [rev : Nat, cells : SUBSET Nat, env : Nat]
RevisionRow == [cells : SUBSET Nat, env : Nat, how : {"create", "save", "import"}]
DraftVersionRow == [rev : Nat, cells : SUBSET Nat, env : Nat, since : Nat, had : SUBSET Nat]
DeskRow == [rev : Nat, cells : SUBSET Nat, env : Nat, dirty : BOOLEAN, conflict : BOOLEAN,
            saving : BOOLEAN, own : SUBSET Nat, risked : SUBSET Nat, quiet : SUBSET Nat]
CallRow == [kind : {"none", "open", "save", "publish", "import"},
            stage : {"none", "sent", "stored", "conflict", "ok"}, rev : Nat, cells : SUBSET Nat,
            env : Nat, publish : BOOLEAN, orphan : BOOLEAN]

StudioType ==
  /\ template \in DraftRow
  /\ history \in Seq(RevisionRow)
  /\ versions \in Seq(DraftVersionRow)
  /\ desk \in [Editors -> DeskRow]
  /\ calls \in [Editors -> [1..2 -> CallRow]]
  /\ tally \in [changes : Nat, clicks : Nat, unheard : Nat]

CallsOf(t) == {calls[t][s] : s \in 1..2}

\* A change has a number when it is made, and is nowhere before.
Dated(x) == x.env <= tally.changes /\ \A n \in x.cells : n <= tally.changes

AllDated ==
  /\ \A i \in 1..Len(history) : Dated(history[i])
  /\ \A t \in Editors : Dated(desk[t]) /\ \A c \in CallsOf(t) : Dated(c)

\* x is the draft at its revision; x was built on it.
AsStored(h, x) == x.rev \in 1..Len(h) /\ x.cells = h[x.rev].cells /\ x.env = h[x.rev].env
BuiltOn(h, x) ==
  /\ x.rev \in 1..Len(h) /\ h[x.rev].cells \subseteq x.cells
  /\ x.env = h[x.rev].env \/ \A j \in 1..x.rev : h[j].env # x.env

\* A change is there, or an import has dropped it by x's revision.
HasOrDropped(h, x, n) == n \in x.cells \/ \E i \in 2..x.rev :
  h[i].how = "import" /\ n \in h[i - 1].cells \ h[i].cells

\* Between imports cells only grow, and an environment that was replaced does not come back.
OnlyGrows(h) ==
  /\ \A i, j \in 1..Len(h) : i <= j /\ (\A k \in (i + 1)..j : h[k].how = "save") =>
       h[i].cells \subseteq h[j].cells
  /\ \A i \in 2..Len(h) : h[i].how = "save" /\ h[i].env # h[i - 1].env =>
       \A j \in 1..(i - 1) : h[j].env # h[i].env

VersionRight(h, w) ==
  /\ AsStored(h, w) /\ w.since \in 1..w.rev
  /\ (\A i \in (w.since + 1)..w.rev : h[i].how = "save") => w.had \subseteq w.cells

\* What a page may not lose.
Owed(t) == desk[t].own \ desk[t].risked

DeskRight(t) ==
  /\ BuiltOn(history, desk[t])
  /\ ~desk[t].dirty => /\ desk[t].cells \ desk[t].quiet = history[desk[t].rev].cells
                       /\ desk[t].env = history[desk[t].rev].env
  /\ \A n \in Owed(t) : HasOrDropped(history, desk[t], n)

CallRight(t, c) ==
  /\ c.kind = "none" => c.stage = "none"
  /\ c.kind = "open" => c.stage \in {"sent", "ok"}
  /\ c.kind = "publish" => c.stage \in {"sent", "ok"}
  /\ c.orphan => c.stage = "sent"
  /\ c.stage = "sent" /\ c.kind # "open" => c.rev \in 1..Len(history)
  /\ c.stage = "sent" /\ c.kind = "save" => BuiltOn(history, c)
  /\ c.stage = "sent" /\ c.kind = "publish" => c.cells \subseteq history[c.rev].cells
  /\ c.stage = "ok" /\ c.kind # "publish" => AsStored(history, c)
  /\ c.kind = "save" /\ ~c.orphan =>
       \A n \in Owed(t) :
         /\ c.stage \in {"sent", "ok"} => HasOrDropped(history, c, n)
         /\ c.stage = "stored" => HasOrDropped(history, template, n)

StudioInv ==
  /\ StudioType /\ AllDated
  /\ template.rev = Len(history) /\ AsStored(history, template)
  /\ OnlyGrows(history)
  /\ \A v \in 1..Len(versions) : VersionRight(history, versions[v])
  /\ \A t \in Editors : DeskRight(t) /\ \A c \in CallsOf(t) : CallRight(t, c)


-----------------------------------------------------------------------------
(* Operators on histories.                                                 *)

Continues(h, g) == Len(g) >= Len(h) /\ \A i \in 1..Len(h) : g[i] = h[i]

LEMMA Continued ==
  ASSUME NEW h \in Seq(RevisionRow), NEW g \in Seq(RevisionRow), Continues(h, g), NEW x,
         x.rev \in 1..Len(h)
  PROVE  /\ x.rev \in 1..Len(g)
         /\ AsStored(h, x) => AsStored(g, x)
         /\ BuiltOn(h, x) => BuiltOn(g, x)
         /\ \A n : HasOrDropped(h, x, n) => HasOrDropped(g, x, n)
         /\ VersionRight(h, x) => VersionRight(g, x)
<1>1. Len(h) \in Nat /\ Len(g) \in Nat /\ Len(h) <= Len(g)
  BY DEF Continues
<1>2. \A i \in 1..x.rev : i \in 1..Len(h) /\ i \in 1..Len(g) /\ g[i] = h[i]
  BY <1>1 DEF Continues
<1>3. \A i \in 2..x.rev : i \in 1..x.rev /\ i - 1 \in 1..x.rev
  BY <1>1
<1>4. \A n : HasOrDropped(h, x, n) => HasOrDropped(g, x, n)
  BY <1>2, <1>3 DEF HasOrDropped
<1>5. ASSUME VersionRight(h, x) PROVE VersionRight(g, x)
  <2>1. \A i \in (x.since + 1)..x.rev : i \in 1..x.rev
    BY <1>1, <1>5 DEF VersionRight
  <2> QED BY <1>1, <1>2, <1>5, <2>1 DEF VersionRight, AsStored
<1> QED BY <1>1, <1>2, <1>4, <1>5 DEF AsStored, BuiltOn

\* What was there when a draft was built is in it or was dropped by then.
LEMMA StoredOnTop ==
  ASSUME NEW h \in Seq(RevisionRow), NEW e \in RevisionRow, NEW x \in DraftRow, x.rev = Len(h),
         AsStored(h, x), e.how = "save" => x.cells \subseteq e.cells, e.how \in {"save", "import"},
         NEW y, y.rev = x.rev + 1, y.cells = e.cells, y.env = e.env
  PROVE  /\ Append(h, e) \in Seq(RevisionRow) /\ Len(Append(h, e)) = Len(h) + 1
         /\ Continues(h, Append(h, e)) /\ AsStored(Append(h, e), y)
         /\ \A n : HasOrDropped(h, x, n) => HasOrDropped(Append(h, e), y, n)
<1> DEFINE g == Append(h, e)
<1>1. g \in Seq(RevisionRow) /\ Len(g) = Len(h) + 1 /\ g[Len(h) + 1] = e
      /\ \A i \in 1..Len(h) : g[i] = h[i]
  OBVIOUS
<1> HIDE DEF g
<1>2. Len(h) \in Nat /\ Len(h) # 0 /\ h[Len(h)].cells = x.cells
  BY DEF AsStored
<1>3. Continues(h, g) /\ AsStored(g, y)
  BY <1>1, <1>2 DEF Continues, AsStored
<1>4. ASSUME NEW n, HasOrDropped(h, x, n) PROVE HasOrDropped(g, y, n)
  <2>1. CASE n \in x.cells
    <3>1. CASE n \in e.cells
      BY <3>1 DEF HasOrDropped
    <3>2. CASE n \notin e.cells
      <4>1. Len(h) + 1 \in 2..y.rev /\ (Len(h) + 1) - 1 = Len(h) /\ Len(h) \in 1..Len(h)
        BY <1>2
      <4>2. g[Len(h) + 1].how = "import" /\ n \in g[Len(h)].cells \ g[Len(h) + 1].cells
        BY <1>1, <1>2, <2>1, <3>2, <4>1
      <4> QED BY <4>1, <4>2 DEF HasOrDropped
    <3> QED BY <3>1, <3>2
  <2>2. CASE n \notin x.cells
    <3>1. PICK i \in 2..x.rev : h[i].how = "import" /\ n \in h[i - 1].cells \ h[i].cells
      BY <1>4, <2>2 DEF HasOrDropped
    <3>2. i \in 2..y.rev /\ i \in 1..Len(h) /\ i - 1 \in 1..Len(h)
      BY <1>2
    <3>3. g[i] = h[i] /\ g[i - 1] = h[i - 1]
      BY <1>1, <3>2
    <3> QED BY <3>1, <3>2, <3>3 DEF HasOrDropped
  <2> QED BY <2>1, <2>2
<1> QED BY <1>1, <1>3, <1>4 DEF g

\* A save on top of the last revision, or an import that keeps its
\* environment, goes on as the history did.
LEMMA GrowsOn ==
  ASSUME NEW h \in Seq(RevisionRow), NEW e \in RevisionRow, Len(h) # 0, OnlyGrows(h),
         \/ e.how = "import"
         \/ /\ e.how = "save" /\ h[Len(h)].cells \subseteq e.cells
            /\ e.env = h[Len(h)].env \/ \A j \in 1..Len(h) : h[j].env # e.env
  PROVE  OnlyGrows(Append(h, e))
<1> DEFINE g == Append(h, e)
<1>1. Len(g) = Len(h) + 1 /\ g[Len(h) + 1] = e /\ Len(h) \in Nat
      /\ \A i \in 1..Len(h) : g[i] = h[i]
  OBVIOUS
<1> HIDE DEF g
<1>2. ASSUME NEW i \in 1..Len(g), NEW j \in 1..Len(g), i <= j,
             \A k \in (i + 1)..j : g[k].how = "save"
      PROVE  g[i].cells \subseteq g[j].cells
  <2>1. CASE j <= Len(h)
    <3>1. i \in 1..Len(h) /\ j \in 1..Len(h) /\ \A k \in (i + 1)..j : k \in 1..Len(h)
      BY <1>1, <1>2, <2>1
    <3> QED BY <1>1, <1>2, <3>1 DEF OnlyGrows
  <2>2. CASE j = Len(h) + 1 /\ i = j
    BY <2>2
  <2>3. CASE j = Len(h) + 1 /\ i # j
    <3>1. /\ i \in 1..Len(h) /\ Len(h) \in 1..Len(h) /\ i <= Len(h) /\ j \in (i + 1)..j
          /\ \A k \in (i + 1)..Len(h) : k \in 1..Len(h) /\ k \in (i + 1)..j
      BY <1>1, <1>2, <2>3
    <3>2. h[i].cells \subseteq h[Len(h)].cells
      BY <1>1, <1>2, <3>1 DEF OnlyGrows
    <3>3. g[j] = e /\ e.how = "save"
      BY <1>1, <1>2, <2>3, <3>1
    <3> QED BY <1>1, <3>1, <3>2, <3>3
  <2> QED BY <1>1, <1>2, <2>1, <2>2, <2>3
<1>3. ASSUME NEW i \in 2..Len(g), g[i].how = "save", g[i].env # g[i - 1].env,
             NEW j \in 1..(i - 1)
      PROVE  g[j].env # g[i].env
  <2>1. j \in 1..Len(h) /\ i - 1 \in 1..Len(h)
    BY <1>1, <1>3
  <2>2. CASE i <= Len(h)
    <3>1. i \in 2..Len(h) /\ i \in 1..Len(h)
      BY <1>1, <2>2
    <3> QED BY <1>1, <1>3, <2>1, <3>1 DEF OnlyGrows
  <2>3. CASE i = Len(h) + 1
    <3>1. g[i] = e /\ g[i - 1] = h[Len(h)] /\ g[j] = h[j]
      BY <1>1, <1>3, <2>1, <2>3
    <3> QED BY <1>3, <2>1, <3>1
  <2> QED BY <1>1, <2>2, <2>3
<1>4. OnlyGrows(g)
  BY <1>2, <1>3 DEF OnlyGrows
<1> QED BY <1>4 DEF g


-----------------------------------------------------------------------------
(* Whatever one page or one request does leaves the others right.          *)

ServerRight ==
  /\ template.rev = Len(history) /\ AsStored(history, template)
  /\ OnlyGrows(history) /\ \A i \in 1..Len(history) : Dated(history[i])
  /\ \A v \in 1..Len(versions) : VersionRight(history, versions[v])

NoneUndone ==
  /\ tally'.changes >= tally.changes /\ Continues(history, history')
  /\ \A n : HasOrDropped(history, template, n) => HasOrDropped(history', template', n)

Unheeded(c) == c.kind # "save" \/ c.orphan

LEMMA StillDated ==
  ASSUME StudioType, StudioType', NoneUndone, NEW x, x.cells \subseteq Nat, x.env \in Nat, Dated(x)
  PROVE  Dated(x)'
<1>1. tally.changes \in Nat /\ tally'.changes \in Nat /\ tally.changes <= tally'.changes
  BY DEF StudioType, NoneUndone
<1>2. x.env <= tally'.changes
  BY <1>1 DEF Dated
<1>3. \A n \in x.cells : n <= tally'.changes
  BY <1>1 DEF Dated
<1> QED BY <1>2, <1>3 DEF Dated

LEMMA OtherCall ==
  ASSUME StudioType, StudioType', NoneUndone, NEW t \in Editors, NEW c \in CallRow, CallRight(t, c),
         Owed(t)' \subseteq Owed(t) \/ Unheeded(c)
  PROVE  CallRight(t, c)'
<1>1. history \in Seq(RevisionRow) /\ history' \in Seq(RevisionRow) /\ Continues(history, history')
      /\ \A n : HasOrDropped(history, template, n) => HasOrDropped(history', template', n)
  BY DEF StudioType, NoneUndone
<1>2. c.rev \in 1..Len(history) =>
        /\ c.rev \in 1..Len(history')
        /\ AsStored(history, c) => AsStored(history', c)
        /\ BuiltOn(history, c) => BuiltOn(history', c)
        /\ \A n : HasOrDropped(history, c, n) => HasOrDropped(history', c, n)
  BY <1>1, Continued
<1>3. c.rev \in 1..Len(history) => history'[c.rev] = history[c.rev]
  BY <1>1 DEF Continues
<1>4. /\ c.kind = "none" => c.stage = "none"
      /\ c.kind = "open" => c.stage \in {"sent", "ok"}
      /\ c.kind = "publish" => c.stage \in {"sent", "ok"}
      /\ c.orphan => c.stage = "sent"
      /\ c.stage = "sent" /\ c.kind # "open" => c.rev \in 1..Len(history)
      /\ c.stage = "sent" /\ c.kind = "save" => BuiltOn(history, c)
      /\ c.stage = "sent" /\ c.kind = "publish" => c.cells \subseteq history[c.rev].cells
      /\ c.stage = "ok" /\ c.kind # "publish" => AsStored(history, c)
  BY DEF CallRight
<1>5. /\ c.stage = "sent" /\ c.kind # "open" => c.rev \in 1..Len(history')
      /\ c.stage = "sent" /\ c.kind = "save" => BuiltOn(history', c)
      /\ c.stage = "sent" /\ c.kind = "publish" => c.cells \subseteq history'[c.rev].cells
      /\ c.stage = "ok" /\ c.kind # "publish" => AsStored(history', c)
  <2>1. AsStored(history, c) => c.rev \in 1..Len(history)
    BY DEF AsStored
  <2> QED BY <1>2, <1>3, <1>4, <2>1
<1>6. ASSUME c.kind = "save", ~c.orphan, NEW n \in Owed(t)'
      PROVE  /\ c.stage \in {"sent", "ok"} => HasOrDropped(history', c, n)
             /\ c.stage = "stored" => HasOrDropped(history', template', n)
  <2>1. n \in Owed(t)
    BY <1>6 DEF Unheeded
  <2>2. /\ c.stage \in {"sent", "ok"} => HasOrDropped(history, c, n)
        /\ c.stage = "stored" => HasOrDropped(history, template, n)
    BY <1>6, <2>1 DEF CallRight
  <2>3. c.stage \in {"sent", "ok"} => c.rev \in 1..Len(history)
    BY <1>4, <1>6 DEF AsStored
  <2> QED BY <1>1, <1>2, <2>2, <2>3
<1> QED BY <1>4, <1>5, <1>6 DEF CallRight

LEMMA OtherDesk ==
  ASSUME StudioType, StudioType', NoneUndone, NEW t \in Editors, NEW d \in DeskRow, NEW e \in DeskRow,
         d = desk[t], e = desk'[t], DeskRight(t), e.rev = d.rev, e.cells = d.cells, e.env = d.env,
         e.dirty = d.dirty, e.quiet = d.quiet, e.own = d.own, e.risked = d.risked
  PROVE  DeskRight(t)'
<1>1. history \in Seq(RevisionRow) /\ history' \in Seq(RevisionRow) /\ Continues(history, history')
  BY DEF StudioType, NoneUndone
<1>2. d.rev \in 1..Len(history) /\ BuiltOn(history, d)
  BY DEF DeskRight, BuiltOn
<1>3. BuiltOn(history', d) /\ \A n : HasOrDropped(history, d, n) => HasOrDropped(history', d, n)
  BY <1>1, <1>2, Continued
<1>4. history'[d.rev] = history[d.rev]
  BY <1>1, <1>2 DEF Continues
<1>5. BuiltOn(history', e)
  BY <1>3 DEF BuiltOn
<1>6. ~e.dirty => /\ e.cells \ e.quiet = history'[e.rev].cells
                  /\ e.env = history'[e.rev].env
  BY <1>4 DEF DeskRight
<1>7. \A n \in e.own \ e.risked : HasOrDropped(history', d, n)
  BY <1>3 DEF DeskRight, Owed
<1>8. \A n : HasOrDropped(history', d, n) => HasOrDropped(history', e, n)
  BY DEF HasOrDropped
<1>9. /\ BuiltOn(history', desk'[t])
      /\ ~desk'[t].dirty => /\ desk'[t].cells \ desk'[t].quiet = history'[desk'[t].rev].cells
                            /\ desk'[t].env = history'[desk'[t].rev].env
      /\ \A n \in desk'[t].own \ desk'[t].risked : HasOrDropped(history', desk'[t], n)
  BY <1>5, <1>6, <1>7, <1>8
<1> QED BY <1>9 DEF DeskRight, Owed

LEMMA OnePage ==
  ASSUME StudioInv, StudioType', ServerRight', NoneUndone, NEW t \in Editors,
         \A u \in Editors \ {t} : desk'[u] = desk[u] /\ calls'[u] = calls[u],
         DeskRight(t)', Dated(desk[t])',
         Owed(t)' \subseteq Owed(t) \/ \A c \in CallsOf(t) : Unheeded(c),
         \A c \in CallsOf(t)' : c \in CallsOf(t) \/ (CallRight(t, c)' /\ Dated(c)')
  PROVE  StudioInv'
<1> USE DEF StudioInv
<1>1. ASSUME NEW u \in Editors, NEW c \in CallsOf(u) PROVE c \in CallRow /\ CallRight(u, c) /\ Dated(c)
  BY <1>1 DEF StudioType, CallsOf, AllDated
<1>2. ASSUME NEW u \in Editors \ {t} PROVE DeskRight(u)' /\ Dated(desk[u])'
  <2>1. PICK d : d = desk[u]
    OBVIOUS
  <2>2. d \in DeskRow /\ d.cells \subseteq Nat /\ d.env \in Nat /\ d = desk'[u]
    BY <1>2, <2>1 DEF StudioType, DeskRow
  <2>3. DeskRight(u) /\ Dated(d)
    BY <1>2, <2>1 DEF AllDated
  <2>4. DeskRight(u)'
    BY <1>2, <2>1, <2>2, <2>3, OtherDesk
  <2>5. Dated(d)'
    BY <2>2, <2>3, StillDated
  <2> QED BY <2>2, <2>4, <2>5 DEF Dated
<1>3. ASSUME NEW u \in Editors, NEW c \in CallsOf(u), Owed(u)' \subseteq Owed(u) \/ Unheeded(c)
      PROVE  CallRight(u, c)' /\ Dated(c)'
  <2>1. PICK k : k = c
    OBVIOUS
  <2>2. k \in CallRow /\ CallRight(u, k) /\ Dated(k) /\ k.cells \subseteq Nat /\ k.env \in Nat
    BY <1>1, <1>3, <2>1 DEF CallRow
  <2>3. CallRight(u, k)' /\ Dated(k)'
    BY <1>3, <2>1, <2>2, OtherCall, StillDated
  <2> QED BY <2>1, <2>3
<1>4. ASSUME NEW u \in Editors \ {t}, NEW c \in CallsOf(u)' PROVE CallRight(u, c)' /\ Dated(c)'
  <2>1. c \in CallsOf(u) /\ Owed(u)' = Owed(u)
    BY <1>4 DEF CallsOf, Owed
  <2> QED BY <1>3, <2>1
<1>5. ASSUME NEW c \in CallsOf(t)' PROVE CallRight(t, c)' /\ Dated(c)'
  BY <1>3, <1>5
<1>6. AllDated'
  <2>1. \A i \in 1..Len(history') : Dated(history[i])'
    BY DEF ServerRight
  <2>2. \A u \in Editors : Dated(desk[u])' /\ \A c \in CallsOf(u)' : Dated(c)'
    BY <1>2, <1>4, <1>5
  <2> QED BY <2>1, <2>2 DEF AllDated
<1>7. \A u \in Editors : DeskRight(u)' /\ \A c \in CallsOf(u)' : CallRight(u, c)'
  BY <1>2, <1>4, <1>5
<1> QED BY <1>6, <1>7 DEF ServerRight


LEMMA ServerStays ==
  ASSUME StudioInv, StudioType', UNCHANGED <<template, versions, history>>,
         tally'.changes >= tally.changes
  PROVE  ServerRight' /\ NoneUndone
<1>1. NoneUndone
  BY DEF NoneUndone, Continues, StudioInv, StudioType
<1>2. ASSUME NEW i \in 1..Len(history') PROVE Dated(history[i])'
  <2>1. PICK e : e = history[i]
    OBVIOUS
  <2>2. i \in 1..Len(history) /\ e \in RevisionRow
    BY <1>2, <2>1 DEF StudioInv, StudioType
  <2>3. Dated(e) /\ e.cells \subseteq Nat /\ e.env \in Nat
    BY <2>1, <2>2 DEF StudioInv, AllDated, RevisionRow
  <2>4. Dated(e)'
    BY <1>1, <2>3, StillDated DEF StudioInv
  <2> QED BY <2>1, <2>4
<1>3. ServerRight'
  BY <1>2 DEF ServerRight, StudioInv, AsStored, OnlyGrows, VersionRight
<1> QED BY <1>1, <1>3

LEMMA Slots ==
  ASSUME StudioType, NEW t \in Editors, NEW s \in 1..2
  PROVE  calls[t][s] \in CallRow /\ calls[t][s] \in CallsOf(t)
BY DEF StudioType, CallsOf

LEMMA OneCall ==
  ASSUME StudioType, NEW t \in Editors, NEW s \in 1..2, NEW x \in CallRow,
         calls' = [calls EXCEPT ![t][s] = x]
  PROVE  /\ calls' \in [Editors -> [1..2 -> CallRow]]
         /\ \A u \in Editors \ {t} : calls'[u] = calls[u]
         /\ \A c \in CallsOf(t)' : c = x \/ c \in CallsOf(t)
<1>1. /\ calls' \in [Editors -> [1..2 -> CallRow]]
      /\ \A u \in Editors \ {t} : calls'[u] = calls[u]
      /\ \A i \in 1..2 : calls'[t][i] = IF i = s THEN x ELSE calls[t][i]
  BY DEF StudioType
<1> QED BY <1>1 DEF CallsOf

LEMMA OneDesk ==
  ASSUME StudioType, NEW t \in Editors, NEW e \in DeskRow, desk' = [desk EXCEPT ![t] = e]
  PROVE  /\ desk' \in [Editors -> DeskRow] /\ desk'[t] = e
         /\ \A u \in Editors \ {t} : desk'[u] = desk[u]
BY DEF StudioType

\* A request that is gone, or was refused, says nothing.
LEMMA SilentCall ==
  ASSUME NEW t \in Editors, NEW c, c = NoCall \/ (c.kind \in {"save", "import"} /\ c.stage = "conflict" /\ ~c.orphan)
  PROVE  CallRight(t, c)'
BY DEF CallRight, NoCall

LEMMA NoCallTyped == NoCall \in CallRow /\ (StudioType' => Dated(NoCall)')
BY DEF NoCall, CallRow, Dated, StudioType

\* A request, as the page sees it, sent on what the page shows.
LEMMA Asked ==
  ASSUME StudioInv, NEW t \in Editors, NEW kind \in {"open", "save", "publish", "import"},
         NEW publish \in BOOLEAN, Ask(t, kind, publish), UNCHANGED <<template, versions, history>>,
         kind = "publish" => ~desk[t].dirty,
         desk' = desk \/ desk' = [desk EXCEPT ![t].saving = TRUE]
  PROVE  StudioInv'
<1> DEFINE x == [kind |-> kind, stage |-> "sent", rev |-> IF kind = "open" THEN 0 ELSE desk[t].rev,
                 cells |-> CASE kind = "save" -> desk[t].cells
                             [] kind = "publish" -> desk[t].cells \ desk[t].quiet
                             [] OTHER -> {},
                 env |-> IF kind = "save" THEN desk[t].env ELSE 0,
                 publish |-> publish, orphan |-> FALSE]
<1>1. PICK s \in 1..2 : calls' = [calls EXCEPT ![t][s] = x]
  BY DEF Ask
<1>2. PICK c : c = x
  OBVIOUS
<1>3. PICK d : d = desk[t]
  OBVIOUS
<1>4. /\ c.kind = kind /\ c.stage = "sent" /\ ~c.orphan
      /\ kind # "open" => c.rev = d.rev
      /\ kind = "save" => c.cells = d.cells /\ c.env = d.env
      /\ kind = "publish" => c.cells = d.cells \ d.quiet /\ c.env = 0
      /\ kind \in {"open", "import"} => c.cells = {} /\ c.env = 0
  BY <1>2, <1>3
<1>5. d \in DeskRow /\ DeskRight(t) /\ Dated(d)
  BY <1>3 DEF StudioInv, StudioType, AllDated
<1>6. c \in CallRow
  BY <1>2, <1>3, <1>5 DEF CallRow, DeskRow
<1>7. /\ calls' \in [Editors -> [1..2 -> CallRow]]
      /\ \A u \in Editors \ {t} : calls'[u] = calls[u]
      /\ \A k \in CallsOf(t)' : k = c \/ k \in CallsOf(t)
  BY <1>1, <1>2, <1>6, OneCall DEF StudioInv
<1>8. tally' \in [changes : Nat, clicks : Nat, unheard : Nat] /\ tally'.changes = tally.changes
  BY DEF Ask, Count, StudioInv, StudioType
<1>9. PICK e : e = [d EXCEPT !.saving = IF desk' = desk THEN @ ELSE TRUE]
  OBVIOUS
<1>10. e \in DeskRow /\ e.rev = d.rev /\ e.cells = d.cells /\ e.env = d.env /\ e.dirty = d.dirty
       /\ e.quiet = d.quiet /\ e.own = d.own /\ e.risked = d.risked
  BY <1>5, <1>9 DEF DeskRow
<1>11. desk' = [desk EXCEPT ![t] = e]
  BY <1>3, <1>5, <1>9 DEF StudioInv, StudioType, DeskRow
<1>12. desk' \in [Editors -> DeskRow] /\ desk'[t] = e /\ \A u \in Editors \ {t} : desk'[u] = desk[u]
  BY <1>10, <1>11, OneDesk DEF StudioInv
<1>13. StudioType'
  BY <1>7, <1>8, <1>12 DEF StudioInv, StudioType
<1>14. ServerRight' /\ NoneUndone
  BY <1>8, <1>13, ServerStays DEF StudioInv, StudioType
<1>15. DeskRight(t)'
  BY <1>3, <1>5, <1>10, <1>12, <1>13, <1>14, OtherDesk DEF StudioInv
<1>16. Dated(desk[t])' /\ Dated(c)'
  <2>1. Dated(e)'
    BY <1>5, <1>8, <1>10 DEF Dated
  <2>2. Dated(c)'
    BY <1>4, <1>5, <1>8, <1>13 DEF Dated, StudioType, DeskRow
  <2> QED BY <1>12, <2>1, <2>2
<1>17. Owed(t)' = Owed(t)
  BY <1>3, <1>10, <1>12 DEF Owed
<1>18. CallRight(t, c)'
  <2>1. d.rev \in 1..Len(history) /\ BuiltOn(history, d) /\ \A n \in Owed(t) : HasOrDropped(history, d, n)
    BY <1>3, <1>5 DEF DeskRight, BuiltOn
  <2>2. kind = "publish" => c.cells = history[c.rev].cells
    BY <1>3, <1>4, <1>5 DEF DeskRight
  <2>3. kind = "save" => BuiltOn(history, c) /\ \A n \in Owed(t) : HasOrDropped(history, c, n)
    BY <1>4, <2>1 DEF BuiltOn, HasOrDropped
  <2>4. CallRight(t, c)
    BY <1>4, <2>1, <2>2, <2>3 DEF CallRight
  <2> QED BY <1>6, <1>13, <1>14, <1>17, <2>4, OtherCall DEF StudioInv
<1> QED BY <1>7, <1>12, <1>13, <1>14, <1>15, <1>16, <1>17, <1>18, OnePage


-----------------------------------------------------------------------------
(* The page.                                                               *)

LEMMA SaveKeeps ==
  ASSUME StudioInv, NEW t \in Editors, Click(t)
  PROVE  StudioInv'
<1>1. CASE SaveDraft(t)
  BY <1>1, Asked DEF SaveDraft
<1>2. CASE PublishDraft(t)
  <2>1. CASE Ask(t, "save", TRUE)
    BY <1>2, <2>1, Asked DEF PublishDraft
  <2>2. CASE ~desk[t].dirty /\ Ask(t, "publish", FALSE)
    BY <1>2, <2>2, Asked DEF PublishDraft
  <2> QED BY <1>2, <2>1, <2>2 DEF PublishDraft
<1>3. CASE ImportDraft(t)
  BY <1>3, Asked DEF ImportDraft
<1>4. CASE Reopen(t)
  BY <1>4, Asked DEF Reopen
<1> QED BY <1>1, <1>2, <1>3, <1>4 DEF Click

\* A change on the page: its number is nowhere yet, and it is owed if no
\* request is being waited for.
LEMMA Edited ==
  ASSUME StudioInv, NEW t \in Editors, NEW n, n = tally.changes + 1, NEW d, d = desk[t],
         tally' = [tally EXCEPT !.changes = @ + 1],
         UNCHANGED <<template, versions, history, calls>>,
         NEW e \in DeskRow, desk' = [desk EXCEPT ![t] = e], e.rev = d.rev,
         d.cells \subseteq e.cells, e.cells \subseteq d.cells \cup {n}, e.env \in {d.env, n},
         d.risked \subseteq e.risked, e.own \subseteq d.own \cup ({n} \cap e.cells),
         Waiting(t) = {} \/ e.own \ e.risked \subseteq d.own \ d.risked,
         ~e.dirty => /\ ~d.dirty /\ e.env = d.env
                     /\ e.cells = d.cells \cup {n} /\ e.quiet = d.quiet \cup {n}
  PROVE  StudioInv'
<1>1. d \in DeskRow /\ DeskRight(t) /\ Dated(d) /\ d.rev \in 1..Len(history)
  BY DEF StudioInv, StudioType, AllDated, DeskRight, BuiltOn
<1>2. tally.changes \in Nat /\ n \in Nat /\ tally'.changes = n
      /\ tally' \in [changes : Nat, clicks : Nat, unheard : Nat]
  BY DEF StudioInv, StudioType
<1>3. desk' \in [Editors -> DeskRow] /\ desk'[t] = e /\ \A u \in Editors \ {t} : desk'[u] = desk[u]
  BY OneDesk DEF StudioInv
<1>4. StudioType'
  BY <1>2, <1>3 DEF StudioInv, StudioType
<1>5. ServerRight' /\ NoneUndone
  BY <1>2, <1>4, ServerStays
<1>6. \A i \in 1..Len(history) : n \notin history[i].cells /\ history[i].env # n
  <2>1. \A i \in 1..Len(history) : Dated(history[i]) /\ history[i] \in RevisionRow
    BY DEF StudioInv, AllDated, StudioType
  <2> QED BY <1>2, <2>1 DEF Dated, RevisionRow
<1>7. BuiltOn(history, e)
  <2>1. BuiltOn(history, d) /\ \A j \in 1..d.rev : j \in 1..Len(history)
    BY <1>1 DEF DeskRight
  <2> QED BY <1>1, <1>6, <2>1 DEF BuiltOn
<1>8. ~e.dirty => e.cells \ e.quiet = history[e.rev].cells /\ e.env = history[e.rev].env
  BY <1>1, <1>6 DEF DeskRight
<1>9. \A k \in e.own \ e.risked : HasOrDropped(history, e, k)
  <2>1. \A k \in d.own \ d.risked : HasOrDropped(history, d, k)
    BY <1>1 DEF DeskRight, Owed
  <2>2. \A k : HasOrDropped(history, d, k) => HasOrDropped(history, e, k)
    BY DEF HasOrDropped
  <2>3. n \in e.cells => HasOrDropped(history, e, n)
    BY DEF HasOrDropped
  <2>4. \A k \in e.own \ e.risked : k \in d.own \ d.risked \/ (k = n /\ n \in e.cells)
    OBVIOUS
  <2> QED BY <2>1, <2>2, <2>3, <2>4
<1>10. DeskRight(t)'
  <2>1. /\ BuiltOn(history', desk'[t])
        /\ ~desk'[t].dirty => /\ desk'[t].cells \ desk'[t].quiet = history'[desk'[t].rev].cells
                              /\ desk'[t].env = history'[desk'[t].rev].env
        /\ \A k \in desk'[t].own \ desk'[t].risked : HasOrDropped(history', desk'[t], k)
    BY <1>3, <1>7, <1>8, <1>9
  <2> QED BY <2>1 DEF DeskRight, Owed
<1>11. Dated(desk[t])'
  <2>1. \A k \in e.cells : k <= n
    BY <1>1, <1>2 DEF Dated, DeskRow
  <2>2. e.env <= n
    BY <1>1, <1>2 DEF Dated, DeskRow
  <2> QED BY <1>2, <1>3, <2>1, <2>2 DEF Dated
<1>12. Owed(t)' \subseteq Owed(t) \/ \A c \in CallsOf(t) : Unheeded(c)
  <2>1. CASE Waiting(t) # {}
    BY <1>3, <2>1 DEF Owed
  <2>2. CASE Waiting(t) = {}
    <3>1. \A s \in 1..2 : calls[t][s].kind = "none" \/ calls[t][s].orphan
      BY <2>2 DEF Waiting
    <3>2. \A s \in 1..2 : Unheeded(calls[t][s])
      BY <3>1, Zenon DEF Unheeded
    <3>3. ASSUME NEW c \in CallsOf(t) PROVE Unheeded(c)
      <4>1. PICK s \in 1..2 : c = calls[t][s]
        BY <3>3 DEF CallsOf
      <4> QED BY <3>2, <4>1
    <3> QED BY <3>3
  <2> QED BY <2>1, <2>2
<1>13. \A c \in CallsOf(t)' : c \in CallsOf(t)
  BY DEF CallsOf
<1>14. \A u \in Editors \ {t} : calls'[u] = calls[u]
  OBVIOUS
<1> QED BY <1>3, <1>4, <1>5, <1>10, <1>11, <1>12, <1>13, <1>14, OnePage

LEMMA ChangeKeeps ==
  ASSUME StudioInv, NEW t \in Editors, ChangeDraft(t) \/ EditMarkdown(t)
  PROVE  StudioInv'
<1>1. PICK n : n = tally.changes + 1
  OBVIOUS
<1>2. PICK d : d = desk[t]
  OBVIOUS
<1>3. d \in DeskRow /\ n \in Nat
  BY <1>1, <1>2 DEF StudioInv, StudioType
<1>4. tally' = [tally EXCEPT !.changes = @ + 1] /\ UNCHANGED <<template, versions, history, calls>>
  BY DEF ChangeDraft, EditMarkdown, Count
<1>5. PICK r : r = IF Waiting(t) = {} THEN d.risked ELSE d.risked \cup {n}
  OBVIOUS
<1>6. r \in SUBSET Nat
  BY <1>3, <1>5 DEF DeskRow
<1>7. CASE desk' = [desk EXCEPT ![t].cells = @ \cup {n}, ![t].dirty = TRUE, ![t].own = @ \cup {n},
                                ![t].risked = IF Waiting(t) = {} THEN @ ELSE @ \cup {n},
                                ![t].quiet = {}]
  <2>1. PICK e : e = [d EXCEPT !.cells = @ \cup {n}, !.dirty = TRUE, !.own = @ \cup {n},
                               !.risked = r, !.quiet = {}]
    OBVIOUS
  <2>2. e \in DeskRow /\ e.rev = d.rev /\ e.cells = d.cells \cup {n} /\ e.env = d.env
        /\ e.own = d.own \cup {n} /\ e.risked = r /\ e.dirty
    BY <1>3, <1>6, <2>1 DEF DeskRow
  <2>3. desk' = [desk EXCEPT ![t].cells = @ \cup {n}, ![t].dirty = TRUE, ![t].own = @ \cup {n},
                             ![t].risked = r, ![t].quiet = {}]
    BY <1>2, <1>5, <1>7
  <2>4. desk' = [desk EXCEPT ![t] = e]
    <3>1. PICK f : f = [desk EXCEPT ![t].cells = @ \cup {n}, ![t].dirty = TRUE, ![t].own = @ \cup {n}]
      OBVIOUS
    <3>2. PICK g : g = [d EXCEPT !.cells = @ \cup {n}, !.dirty = TRUE, !.own = @ \cup {n}]
      OBVIOUS
    <3>3. f = [desk EXCEPT ![t] = g]
      BY <1>2, <1>3, <3>1, <3>2 DEF StudioInv, StudioType
    <3>4. desk' = [f EXCEPT ![t].risked = r, ![t].quiet = {}]
      BY <2>3, <3>1
    <3>5. e = [g EXCEPT !.risked = r, !.quiet = {}]
      BY <2>1, <3>2
    <3> QED BY <3>3, <3>4, <3>5 DEF StudioInv, StudioType
  <2>5. Waiting(t) = {} \/ e.own \ e.risked \subseteq d.own \ d.risked
    BY <1>5, <2>2
  <2>6. d.risked \subseteq e.risked /\ e.own \subseteq d.own \cup ({n} \cap e.cells)
    BY <1>5, <2>2
  <2> QED BY <1>1, <1>2, <1>4, <2>2, <2>4, <2>5, <2>6, Edited
<1>8. CASE desk' = [desk EXCEPT ![t].env = n, ![t].dirty = TRUE, ![t].quiet = {}]
  <2>1. PICK e : e = [d EXCEPT !.env = n, !.dirty = TRUE, !.quiet = {}]
    OBVIOUS
  <2>2. e \in DeskRow /\ e.rev = d.rev /\ e.cells = d.cells /\ e.env = n
        /\ e.own = d.own /\ e.risked = d.risked /\ e.dirty
    BY <1>3, <2>1 DEF DeskRow
  <2>3. desk' = [desk EXCEPT ![t] = e]
    BY <1>2, <1>8, <2>1 DEF StudioInv, StudioType
  <2> QED BY <1>1, <1>2, <1>4, <2>2, <2>3, Edited
<1>9. CASE EditMarkdown(t)
  <2>1. PICK q : q = IF d.dirty THEN d.quiet ELSE d.quiet \cup {n}
    OBVIOUS
  <2>2. q \in SUBSET Nat
    BY <1>3, <2>1 DEF DeskRow
  <2>3. PICK e : e = [d EXCEPT !.cells = @ \cup {n}, !.own = @ \cup {n}, !.risked = r, !.quiet = q]
    OBVIOUS
  <2>4. e \in DeskRow /\ e.rev = d.rev /\ e.cells = d.cells \cup {n} /\ e.env = d.env
        /\ e.own = d.own \cup {n} /\ e.risked = r /\ e.dirty = d.dirty /\ e.quiet = q
    BY <1>3, <1>6, <2>2, <2>3 DEF DeskRow
  <2>5. desk' = [desk EXCEPT ![t] = e]
    BY <1>1, <1>2, <1>3, <1>5, <1>9, <2>1, <2>3 DEF EditMarkdown, StudioInv, StudioType
  <2>6. ~e.dirty => ~d.dirty /\ e.quiet = d.quiet \cup {n}
    BY <2>1, <2>4
  <2>7. Waiting(t) = {} \/ e.own \ e.risked \subseteq d.own \ d.risked
    BY <1>5, <2>4
  <2>8. d.risked \subseteq e.risked /\ e.own \subseteq d.own \cup ({n} \cap e.cells)
    BY <1>5, <2>4
  <2> QED BY <1>1, <1>2, <1>4, <2>4, <2>5, <2>6, <2>7, <2>8, Edited
<1> QED BY <1>1, <1>7, <1>8, <1>9 DEF ChangeDraft


-----------------------------------------------------------------------------
(* The server.                                                             *)

LEMMA Replaced ==
  ASSUME StudioInv, NEW cells \in SUBSET Nat, NEW env \in Nat, NEW how \in {"save", "import"},
         ReplaceDraft(cells, env, how), versions' = versions, desk' = desk,
         calls' \in [Editors -> [1..2 -> CallRow]],
         tally' \in [changes : Nat, clicks : Nat, unheard : Nat], tally'.changes >= tally.changes,
         env <= tally'.changes, \A n \in cells : n <= tally'.changes,
         \/ how = "import" /\ env = template.env
         \/ /\ how = "save" /\ template.cells \subseteq cells
            /\ env = template.env \/ \A j \in 1..Len(history) : history[j].env # env
  PROVE  StudioType' /\ ServerRight' /\ NoneUndone
<1>1. PICK h : h = history
  OBVIOUS
<1>2. PICK x : x = template
  OBVIOUS
<1>3. PICK e : e = [cells |-> cells, env |-> env, how |-> how]
  OBVIOUS
<1>4. PICK y : y = [rev |-> x.rev + 1, cells |-> cells, env |-> env]
  OBVIOUS
<1>5. h \in Seq(RevisionRow) /\ x \in DraftRow /\ x.rev = Len(h) /\ AsStored(h, x) /\ OnlyGrows(h)
      /\ Len(h) # 0
  BY <1>1, <1>2 DEF StudioInv, StudioType, AsStored
<1>6. e \in RevisionRow /\ e.cells = cells /\ e.env = env /\ e.how = how
  BY <1>3 DEF RevisionRow
<1>7. y \in DraftRow /\ y.rev = x.rev + 1 /\ y.cells = e.cells /\ y.env = e.env
  BY <1>4, <1>5, <1>6 DEF DraftRow
<1>8. template' = y /\ history' = Append(h, e)
  BY <1>1, <1>2, <1>3, <1>4 DEF ReplaceDraft
<1>9. /\ Append(h, e) \in Seq(RevisionRow) /\ Len(Append(h, e)) = Len(h) + 1
      /\ Continues(h, Append(h, e)) /\ AsStored(Append(h, e), y)
      /\ \A n : HasOrDropped(h, x, n) => HasOrDropped(Append(h, e), y, n)
  BY <1>2, <1>5, <1>6, <1>7, StoredOnTop
<1>10. OnlyGrows(Append(h, e))
  <2>1. h[Len(h)].cells = x.cells /\ h[Len(h)].env = x.env
    BY <1>5 DEF AsStored
  <2>2. \/ e.how = "import"
        \/ /\ e.how = "save" /\ h[Len(h)].cells \subseteq e.cells
           /\ e.env = h[Len(h)].env \/ \A j \in 1..Len(h) : h[j].env # e.env
    BY <1>1, <1>2, <1>6, <2>1
  <2> QED BY <1>5, <1>6, <2>2, GrowsOn
<1>11. StudioType'
  BY <1>7, <1>8, <1>9 DEF StudioInv, StudioType
<1>12. NoneUndone
  BY <1>1, <1>2, <1>8, <1>9 DEF NoneUndone
<1>13. ASSUME NEW i \in 1..Len(history') PROVE Dated(history[i])'
  <2>1. PICK g : g = history'[i]
    OBVIOUS
  <2>2. CASE i = Len(h) + 1
    <3>1. g = e
      BY <1>6, <1>5, <1>8, <2>1, <2>2
    <3>2. Dated(g)'
      BY <1>6, <3>1 DEF Dated
    <3> QED BY <2>1, <3>2 DEF Dated
  <2>3. CASE i # Len(h) + 1
    <3>1. i \in 1..Len(h)
      BY <1>5, <1>8, <1>9, <1>13, <2>3
    <3>2. g = h[i] /\ g \in RevisionRow
      BY <1>5, <1>8, <1>9, <2>1, <3>1 DEF Continues
    <3>3. Dated(g) /\ g.cells \subseteq Nat /\ g.env \in Nat
      BY <1>1, <3>1, <3>2 DEF StudioInv, AllDated, RevisionRow
    <3>4. Dated(g)'
      BY <1>11, <1>12, <3>3, StillDated DEF StudioInv
    <3> QED BY <2>1, <3>4 DEF Dated
  <2> QED BY <2>2, <2>3
<1>14. ASSUME NEW v \in 1..Len(versions') PROVE VersionRight(Append(h, e), versions'[v])
  <2>1. v \in 1..Len(versions) /\ VersionRight(h, versions[v])
    BY <1>1, <1>14 DEF StudioInv
  <2>2. PICK w : w = versions[v]
    OBVIOUS
  <2>3. w.rev \in 1..Len(h) /\ VersionRight(h, w)
    BY <2>1, <2>2 DEF VersionRight, AsStored
  <2>4. VersionRight(Append(h, e), w)
    BY <1>5, <1>9, <2>3, Continued
  <2> QED BY <2>2, <2>4
<1>15. /\ template'.rev = Len(history') /\ AsStored(history', template') /\ OnlyGrows(history')
       /\ \A v \in 1..Len(versions') : VersionRight(history', versions'[v])
  BY <1>5, <1>7, <1>8, <1>9, <1>10, <1>14
<1>16. ServerRight'
  BY <1>13, <1>15 DEF ServerRight, AsStored, OnlyGrows, VersionRight
<1> QED BY <1>11, <1>12, <1>16

\* What a request becomes when it was carried out, refused or read.
LEMMA Became ==
  ASSUME NEW c \in CallRow, NEW stage \in {"stored", "conflict", "ok"}, NEW row, row = NoRow \/ row \in DraftRow,
         NEW x, x = Answered(c, stage, row)
  PROVE  /\ x \in CallRow
         /\ c.orphan => x = NoCall
         /\ ~c.orphan => /\ x.kind = c.kind /\ x.stage = stage /\ ~x.orphan /\ x.publish = c.publish
                         /\ x.rev = row.rev /\ x.cells = row.cells /\ x.env = row.env
<1>1. NoRow \in DraftRow
  BY DEF NoRow, DraftRow
<1>2. CASE c.orphan
  BY <1>2, NoCallTyped DEF Answered
<1>3. CASE ~c.orphan
  <2>1. x = [c EXCEPT !.stage = stage, !.rev = row.rev, !.cells = row.cells, !.env = row.env]
    BY <1>3 DEF Answered
  <2> QED BY <1>1, <1>3, <2>1 DEF CallRow, DraftRow
<1> QED BY <1>2, <1>3


\* A step that changes one request, and of the page no more than its notices.
LEMMA OneRequest ==
  ASSUME StudioInv, StudioType', ServerRight', NoneUndone, NEW t \in Editors, NEW s \in 1..2,
         NEW x \in CallRow, calls' = [calls EXCEPT ![t][s] = x], CallRight(t, x)', Dated(x)',
         NEW d, d = desk[t], NEW e \in DeskRow, desk' = [desk EXCEPT ![t] = e],
         e.rev = d.rev, e.cells = d.cells, e.env = d.env, e.dirty = d.dirty, e.quiet = d.quiet,
         e.own = d.own, e.risked = d.risked
  PROVE  StudioInv'
<1>1. d \in DeskRow /\ DeskRight(t) /\ Dated(d) /\ d.cells \subseteq Nat /\ d.env \in Nat
  BY DEF StudioInv, StudioType, AllDated, DeskRow
<1>2. desk'[t] = e /\ \A u \in Editors \ {t} : desk'[u] = desk[u]
  BY OneDesk DEF StudioInv
<1>3. DeskRight(t)'
  BY <1>1, <1>2, OtherDesk DEF StudioInv
<1>4. Dated(desk[t])'
  <2>1. Dated(d)'
    BY <1>1, StillDated DEF StudioInv
  <2> QED BY <1>2, <2>1 DEF Dated
<1>5. Owed(t)' = Owed(t)
  BY <1>2 DEF Owed
<1>6. \A u \in Editors \ {t} : calls'[u] = calls[u]
  BY OneCall DEF StudioInv
<1>7. \A c \in CallsOf(t)' : c \in CallsOf(t) \/ (CallRight(t, c)' /\ Dated(c)')
  <2>1. \A c \in CallsOf(t)' : c = x \/ c \in CallsOf(t)
    BY OneCall DEF StudioInv
  <2> QED BY <2>1
<1> QED BY <1>2, <1>3, <1>4, <1>5, <1>6, <1>7, OnePage

LEMMA AtServer ==
  ASSUME StudioInv, StudioType', ServerRight', NoneUndone, NEW t \in Editors, NEW s \in 1..2,
         NEW x \in CallRow, calls' = [calls EXCEPT ![t][s] = x], desk' = desk,
         CallRight(t, x)', Dated(x)'
  PROVE  StudioInv'
<1>1. PICK d : d = desk[t]
  OBVIOUS
<1>2. d \in DeskRow /\ desk' = [desk EXCEPT ![t] = d]
  BY <1>1 DEF StudioInv, StudioType
<1> QED BY <1>1, <1>2, OneRequest

LEMMA CallHere ==
  ASSUME StudioInv, NEW t \in Editors, NEW s \in 1..2, NEW c, c = calls[t][s]
  PROVE  c \in CallRow /\ CallRight(t, c) /\ Dated(c) /\ c.cells \subseteq Nat /\ c.env \in Nat
<1>1. c \in CallRow /\ c \in CallsOf(t)
  BY Slots DEF StudioInv
<1> QED BY <1>1 DEF StudioInv, AllDated, CallRow

LEMMA NoRowDated == StudioType' => Dated(NoRow)'
BY DEF NoRow, Dated, StudioType

LEMMA StoreKeeps ==
  ASSUME StudioInv, NEW t \in Editors, NEW s \in 1..2, Store(t, s)
  PROVE  StudioInv'
<1>1. PICK c : c = calls[t][s]
  OBVIOUS
<1>2. c \in CallRow /\ CallRight(t, c) /\ Dated(c) /\ c.cells \subseteq Nat /\ c.env \in Nat
  BY <1>1, CallHere
<1>3. PICK x : x = Answered(c, "stored", NoRow)
  OBVIOUS
<1>4. /\ c.kind = "save" /\ c.stage = "sent" /\ c.rev = template.rev
      /\ ReplaceDraft(c.cells, c.env, "save") /\ calls' = [calls EXCEPT ![t][s] = x]
      /\ versions' = versions /\ desk' = desk /\ tally' = tally
  BY <1>1, <1>3 DEF Store
<1>5. /\ x \in CallRow
      /\ c.orphan => x = NoCall
      /\ ~c.orphan => /\ x.kind = c.kind /\ x.stage = "stored" /\ ~x.orphan /\ x.publish = c.publish
                      /\ x.rev = NoRow.rev /\ x.cells = NoRow.cells /\ x.env = NoRow.env
  BY <1>2, <1>3, Became
<1>6. BuiltOn(history, c) /\ AsStored(history, template) /\ template.rev = Len(history)
  BY <1>2, <1>4 DEF CallRight, StudioInv
<1>7. template.cells \subseteq c.cells
      /\ (c.env = template.env \/ \A j \in 1..Len(history) : history[j].env # c.env)
  BY <1>4, <1>6 DEF BuiltOn, AsStored
<1>8. calls' \in [Editors -> [1..2 -> CallRow]]
  BY <1>4, <1>5, OneCall DEF StudioInv
<1>9. /\ tally' \in [changes : Nat, clicks : Nat, unheard : Nat] /\ tally'.changes >= tally.changes
      /\ c.env <= tally'.changes /\ \A n \in c.cells : n <= tally'.changes
  BY <1>2, <1>4 DEF StudioInv, StudioType, Dated
<1>10. StudioType' /\ ServerRight' /\ NoneUndone
  BY <1>2, <1>4, <1>7, <1>8, <1>9, Replaced
<1>11. Dated(x)'
  <2>1. CASE c.orphan
    BY <1>5, <1>10, <2>1, NoCallTyped
  <2>2. CASE ~c.orphan
    BY <1>5, <1>10, <2>2, NoRowDated DEF Dated
  <2> QED BY <2>1, <2>2
<1>12. CallRight(t, x)'
  <2>1. CASE c.orphan
    BY <1>5, <2>1, SilentCall
  <2>2. CASE ~c.orphan
    <3>1. ASSUME NEW n \in Owed(t)' PROVE HasOrDropped(history', template', n)
      <4>1. n \in Owed(t)
        BY <1>4, <3>1 DEF Owed
      <4>2. HasOrDropped(history, c, n)
        BY <1>2, <1>4, <2>2, <4>1 DEF CallRight
      <4>3. CASE n \in c.cells
        BY <1>4, <4>3 DEF HasOrDropped, ReplaceDraft
      <4>4. CASE n \notin c.cells
        <5>1. HasOrDropped(history, template, n)
          BY <1>4, <4>2, <4>4 DEF HasOrDropped
        <5> QED BY <1>10, <5>1 DEF NoneUndone
      <4> QED BY <4>3, <4>4
    <3> QED BY <1>4, <1>5, <2>2, <3>1 DEF CallRight
  <2> QED BY <2>1, <2>2
<1> QED BY <1>4, <1>5, <1>10, <1>11, <1>12, AtServer

LEMMA StoreImportKeeps ==
  ASSUME StudioInv, NEW t \in Editors, NEW s \in 1..2, StoreImport(t, s)
  PROVE  StudioInv'
<1>1. PICK c : c = calls[t][s]
  OBVIOUS
<1>2. c \in CallRow
  BY <1>1, CallHere
<1>3. PICK x : x = Answered(c, "stored", NoRow)
  OBVIOUS
<1>4. /\ c.kind = "import"
      /\ ReplaceDraft({tally.changes + 1}, template.env, "import")
      /\ calls' = [calls EXCEPT ![t][s] = x] /\ versions' = versions /\ desk' = desk
      /\ tally' = [tally EXCEPT !.changes = @ + 1]
  BY <1>1, <1>3 DEF StoreImport, Count
<1>5. /\ x \in CallRow
      /\ c.orphan => x = NoCall
      /\ ~c.orphan => /\ x.kind = c.kind /\ x.stage = "stored" /\ ~x.orphan /\ x.publish = c.publish
                      /\ x.rev = NoRow.rev /\ x.cells = NoRow.cells /\ x.env = NoRow.env
  BY <1>2, <1>3, Became
<1>6. calls' \in [Editors -> [1..2 -> CallRow]]
  BY <1>4, <1>5, OneCall DEF StudioInv
<1>7. tally.changes \in Nat /\ tally' \in [changes : Nat, clicks : Nat, unheard : Nat]
      /\ tally'.changes = tally.changes + 1
  BY <1>4 DEF StudioInv, StudioType
<1>8. template.env \in Nat /\ template.env <= tally.changes
  <2>1. Len(history) \in 1..Len(history) /\ template.env = history[Len(history)].env
    BY DEF StudioInv, AsStored
  <2>2. Dated(history[Len(history)])
    BY <2>1 DEF StudioInv, AllDated
  <2> QED BY <2>1, <2>2 DEF Dated, StudioInv, StudioType, DraftRow
<1>9. /\ {tally.changes + 1} \in SUBSET Nat /\ tally'.changes >= tally.changes
      /\ template.env <= tally'.changes /\ \A n \in {tally.changes + 1} : n <= tally'.changes
  BY <1>7, <1>8
<1>10. StudioType' /\ ServerRight' /\ NoneUndone
  BY <1>4, <1>6, <1>7, <1>8, <1>9, Replaced
<1>11. Dated(x)'
  <2>1. CASE c.orphan
    BY <1>5, <1>10, <2>1, NoCallTyped
  <2>2. CASE ~c.orphan
    BY <1>5, <1>10, <2>2, NoRowDated DEF Dated
  <2> QED BY <2>1, <2>2
<1>12. CallRight(t, x)'
  <2>1. CASE c.orphan
    BY <1>5, <2>1, SilentCall
  <2>2. CASE ~c.orphan
    BY <1>4, <1>5, <2>2 DEF CallRight
  <2> QED BY <2>1, <2>2
<1> QED BY <1>4, <1>5, <1>10, <1>11, <1>12, AtServer


LEMMA NothingStored ==
  ASSUME StudioInv, UNCHANGED <<template, versions, history>>, desk' \in [Editors -> DeskRow],
         calls' \in [Editors -> [1..2 -> CallRow]],
         tally' \in [changes : Nat, clicks : Nat, unheard : Nat], tally'.changes = tally.changes
  PROVE  StudioType' /\ ServerRight' /\ NoneUndone
<1>1. StudioType'
  BY DEF StudioInv, StudioType
<1>2. tally'.changes >= tally.changes
  BY DEF StudioInv, StudioType
<1> QED BY <1>1, <1>2, ServerStays

LEMMA ConflictKeeps ==
  ASSUME StudioInv, NEW t \in Editors, NEW s \in 1..2, DraftConflict(t, s)
  PROVE  StudioInv'
<1>1. PICK c : c = calls[t][s]
  OBVIOUS
<1>2. c \in CallRow
  BY <1>1, CallHere
<1>3. PICK x : x = Answered(c, "conflict", NoRow)
  OBVIOUS
<1>4. /\ c.kind \in {"save", "import"} /\ calls' = [calls EXCEPT ![t][s] = x]
      /\ UNCHANGED <<template, versions, history>> /\ desk' = desk /\ tally' = tally
  BY <1>1, <1>3 DEF DraftConflict
<1>5. /\ x \in CallRow
      /\ c.orphan => x = NoCall
      /\ ~c.orphan => /\ x.kind = c.kind /\ x.stage = "conflict" /\ ~x.orphan /\ x.publish = c.publish
                      /\ x.rev = NoRow.rev /\ x.cells = NoRow.cells /\ x.env = NoRow.env
  BY <1>2, <1>3, Became
<1>6. StudioType' /\ ServerRight' /\ NoneUndone
  <2>1. calls' \in [Editors -> [1..2 -> CallRow]]
    BY <1>4, <1>5, OneCall DEF StudioInv
  <2>2. tally' \in [changes : Nat, clicks : Nat, unheard : Nat] /\ tally'.changes = tally.changes
        /\ desk' \in [Editors -> DeskRow]
    BY <1>4 DEF StudioInv, StudioType
  <2> QED BY <1>4, <2>1, <2>2, NothingStored
<1>7. Dated(x)'
  <2>1. CASE c.orphan
    BY <1>5, <1>6, <2>1, NoCallTyped
  <2>2. CASE ~c.orphan
    BY <1>5, <1>6, <2>2, NoRowDated DEF Dated
  <2> QED BY <2>1, <2>2
<1>8. CallRight(t, x)'
  <2>1. CASE c.orphan
    BY <1>5, <2>1, SilentCall
  <2>2. CASE ~c.orphan
    BY <1>4, <1>5, <2>2, SilentCall
  <2> QED BY <2>1, <2>2
<1> QED BY <1>4, <1>5, <1>6, <1>7, <1>8, AtServer

LEMMA ReadKeeps ==
  ASSUME StudioInv, NEW t \in Editors, NEW s \in 1..2, ReadRow(t, s)
  PROVE  StudioInv'
<1>1. PICK c : c = calls[t][s]
  OBVIOUS
<1>2. c \in CallRow /\ CallRight(t, c)
  BY <1>1, CallHere
<1>3. PICK r : r = template
  OBVIOUS
<1>4. r \in DraftRow /\ AsStored(history, r)
  BY <1>3 DEF StudioInv, StudioType
<1>5. PICK x : x = Answered(c, "ok", r)
  OBVIOUS
<1>6. /\ c.stage = IF c.kind = "open" THEN "sent" ELSE "stored"
      /\ calls' = [calls EXCEPT ![t][s] = x]
      /\ UNCHANGED <<template, versions, history>> /\ desk' = desk /\ tally' = tally
  BY <1>1, <1>3, <1>5 DEF ReadRow
<1>7. /\ x \in CallRow
      /\ c.orphan => x = NoCall
      /\ ~c.orphan => /\ x.kind = c.kind /\ x.stage = "ok" /\ ~x.orphan /\ x.publish = c.publish
                      /\ x.rev = r.rev /\ x.cells = r.cells /\ x.env = r.env
  BY <1>2, <1>4, <1>5, Became
<1>8. StudioType' /\ ServerRight' /\ NoneUndone
  <2>1. calls' \in [Editors -> [1..2 -> CallRow]]
    BY <1>6, <1>7, OneCall DEF StudioInv
  <2>2. tally' \in [changes : Nat, clicks : Nat, unheard : Nat] /\ tally'.changes = tally.changes
        /\ desk' \in [Editors -> DeskRow]
    BY <1>6 DEF StudioInv, StudioType
  <2> QED BY <1>6, <2>1, <2>2, NothingStored
<1>9. Dated(x)'
  <2>1. CASE c.orphan
    BY <1>7, <1>8, <2>1, NoCallTyped
  <2>2. CASE ~c.orphan
    <3>1. r.rev \in 1..Len(history) /\ r.cells = history[r.rev].cells /\ r.env = history[r.rev].env
      BY <1>4 DEF AsStored
    <3>2. Dated(history[r.rev])
      BY <3>1 DEF StudioInv, AllDated
    <3> QED BY <1>6, <1>7, <2>2, <3>1, <3>2 DEF Dated
  <2> QED BY <2>1, <2>2
<1>10. CallRight(t, x)'
  <2>1. CASE c.orphan
    BY <1>7, <2>1, SilentCall
  <2>2. CASE ~c.orphan
    <3>1. c.kind \notin {"none", "publish"}
      BY <1>2, <1>6 DEF CallRight
    <3>2. AsStored(history', x)
      BY <1>4, <1>6, <1>7, <2>2 DEF AsStored
    <3>3. ASSUME c.kind = "save", NEW n \in Owed(t)' PROVE HasOrDropped(history', x, n)
      <4>1. n \in Owed(t) /\ c.stage = "stored"
        BY <1>6, <3>3 DEF Owed
      <4>2. HasOrDropped(history, r, n)
        BY <1>2, <1>3, <2>2, <3>3, <4>1 DEF CallRight
      <4> QED BY <1>6, <1>7, <2>2, <4>2 DEF HasOrDropped
    <3> QED BY <1>7, <2>2, <3>1, <3>2, <3>3 DEF CallRight
  <2> QED BY <2>1, <2>2
<1> QED BY <1>6, <1>7, <1>8, <1>9, <1>10, AtServer

\* What a page had saved is in the last revision, unless an import came between.
LEMMA StoreVersionKeeps ==
  ASSUME StudioInv, NEW t \in Editors, NEW s \in 1..2, StoreVersion(t, s)
  PROVE  StudioInv'
<1>1. PICK c : c = calls[t][s]
  OBVIOUS
<1>2. c \in CallRow /\ CallRight(t, c)
  BY <1>1, CallHere
<1>3. PICK x : x = Answered(c, "ok", NoRow)
  OBVIOUS
<1>4. PICK w : w = [rev |-> template.rev, cells |-> template.cells, env |-> template.env,
                    since |-> c.rev, had |-> c.cells]
  OBVIOUS
<1>5. /\ c.kind = "publish" /\ c.stage = "sent" /\ calls' = [calls EXCEPT ![t][s] = x]
      /\ versions' = Append(versions, w)
      /\ UNCHANGED <<template, history>> /\ desk' = desk /\ tally' = tally
  BY <1>1, <1>3, <1>4 DEF StoreVersion
<1>6. /\ x \in CallRow
      /\ c.orphan => x = NoCall
      /\ ~c.orphan => /\ x.kind = c.kind /\ x.stage = "ok" /\ ~x.orphan /\ x.publish = c.publish
                      /\ x.rev = NoRow.rev /\ x.cells = NoRow.cells /\ x.env = NoRow.env
  BY <1>2, <1>3, Became
<1>7. w \in DraftVersionRow /\ w.rev = template.rev /\ w.cells = template.cells
      /\ w.env = template.env /\ w.since = c.rev /\ w.had = c.cells
  BY <1>2, <1>4 DEF StudioInv, StudioType, DraftRow, CallRow, DraftVersionRow
<1>8. VersionRight(history, w)
  <2>1. AsStored(history, w) /\ w.rev = Len(history)
    BY <1>7 DEF StudioInv, AsStored
  <2>2. c.rev \in 1..Len(history) /\ c.cells \subseteq history[c.rev].cells
    BY <1>2, <1>5 DEF CallRight
  <2>3. ASSUME \A i \in (w.since + 1)..w.rev : history[i].how = "save" PROVE w.had \subseteq w.cells
    <3>1. Len(history) \in 1..Len(history) /\ c.rev <= Len(history)
      BY <2>2
    <3>2. history[c.rev].cells \subseteq history[Len(history)].cells
      BY <1>7, <2>1, <2>2, <2>3, <3>1 DEF StudioInv, OnlyGrows
    <3> QED BY <1>7, <2>1, <2>2, <3>2 DEF AsStored
  <2> QED BY <1>7, <2>1, <2>2, <2>3 DEF VersionRight
<1>9. StudioType'
  <2>1. calls' \in [Editors -> [1..2 -> CallRow]]
    BY <1>5, <1>6, OneCall DEF StudioInv
  <2>2. versions' \in Seq(DraftVersionRow)
    BY <1>5, <1>7 DEF StudioInv, StudioType
  <2> QED BY <1>5, <2>1, <2>2 DEF StudioInv, StudioType
<1>10. NoneUndone
  BY <1>5 DEF NoneUndone, Continues, StudioInv, StudioType
<1>11. ServerRight'
  <2>1. ASSUME NEW v \in 1..Len(versions') PROVE VersionRight(history, versions'[v])
    <3>1. versions \in Seq(DraftVersionRow) /\ Len(versions') = Len(versions) + 1
          /\ versions'[Len(versions) + 1] = w
          /\ \A k \in 1..Len(versions) : versions'[k] = versions[k]
      BY <1>5, <1>7 DEF StudioInv, StudioType
    <3>2. CASE v \in 1..Len(versions)
      <4>1. VersionRight(history, versions[v])
        BY <3>2 DEF StudioInv
      <4> QED BY <3>1, <3>2, <4>1
    <3>3. CASE v = Len(versions) + 1
      BY <1>8, <3>1, <3>3
    <3> QED BY <2>1, <3>1, <3>2, <3>3
  <2>2. \A i \in 1..Len(history) : Dated(history[i])
    BY DEF StudioInv, AllDated
  <2>3. \A i \in 1..Len(history') : Dated(history[i])'
    BY <1>5, <2>2 DEF Dated
  <2>4. \A v \in 1..Len(versions') : VersionRight(history', versions'[v])
    BY <1>5, <2>1
  <2>5. template'.rev = Len(history') /\ AsStored(history', template') /\ OnlyGrows(history')
    BY <1>5 DEF StudioInv
  <2> QED BY <2>3, <2>4, <2>5 DEF ServerRight, AsStored, OnlyGrows, VersionRight
<1>12. Dated(x)'
  <2>1. CASE c.orphan
    BY <1>6, <1>9, <2>1, NoCallTyped
  <2>2. CASE ~c.orphan
    BY <1>6, <1>9, <2>2, NoRowDated DEF Dated
  <2> QED BY <2>1, <2>2
<1>13. CallRight(t, x)'
  <2>1. CASE c.orphan
    BY <1>6, <2>1, SilentCall
  <2>2. CASE ~c.orphan
    BY <1>5, <1>6, <2>2 DEF CallRight
  <2> QED BY <2>1, <2>2
<1> QED BY <1>5, <1>6, <1>9, <1>10, <1>11, <1>12, <1>13, AtServer


-----------------------------------------------------------------------------
(* Answers reach the page.                                                 *)

\* A page takes over what its answer says, which is a revision that was stored.
LEMMA TakenOver ==
  ASSUME StudioInv, NEW t \in Editors, NEW s \in 1..2, NEW c, c = calls[t][s], AsStored(history, c),
         NEW x \in CallRow, calls' = [calls EXCEPT ![t][s] = x],
         x = NoCall \/ (x.kind = "publish" /\ x.stage = "sent" /\ ~x.orphan /\ x.rev = c.rev
                        /\ x.cells = c.cells /\ x.env = 0),
         UNCHANGED <<template, versions, history, tally>>,
         NEW d, d = desk[t], NEW e \in DeskRow, desk' = [desk EXCEPT ![t] = e],
         e.rev = c.rev, e.cells = c.cells, e.env = c.env, e.quiet = {},
         e.own \subseteq d.own, e.own = {} \/ e.risked = d.risked,
         \A n \in e.own \ e.risked : HasOrDropped(history, c, n)
  PROVE  StudioInv'
<1>1. c \in CallRow /\ Dated(c)
  BY CallHere
<1>2. desk' \in [Editors -> DeskRow] /\ desk'[t] = e /\ \A u \in Editors \ {t} : desk'[u] = desk[u]
  BY OneDesk DEF StudioInv
<1>3. /\ calls' \in [Editors -> [1..2 -> CallRow]]
      /\ \A u \in Editors \ {t} : calls'[u] = calls[u]
      /\ \A k \in CallsOf(t)' : k = x \/ k \in CallsOf(t)
  BY OneCall DEF StudioInv
<1>4. StudioType' /\ ServerRight' /\ NoneUndone
  <2>1. tally' \in [changes : Nat, clicks : Nat, unheard : Nat] /\ tally'.changes = tally.changes
    BY DEF StudioInv, StudioType
  <2> QED BY <1>2, <1>3, <2>1, NothingStored
<1>5. DeskRight(t)'
  <2>1. BuiltOn(history, e)
    BY DEF AsStored, BuiltOn
  <2>2. e.cells \ e.quiet = history[e.rev].cells /\ e.env = history[e.rev].env
    BY DEF AsStored
  <2>3. \A n \in e.own \ e.risked : HasOrDropped(history, e, n)
    BY DEF HasOrDropped
  <2>4. /\ BuiltOn(history', desk'[t])
        /\ desk'[t].cells \ desk'[t].quiet = history'[desk'[t].rev].cells
        /\ desk'[t].env = history'[desk'[t].rev].env
        /\ \A n \in desk'[t].own \ desk'[t].risked : HasOrDropped(history', desk'[t], n)
    BY <1>2, <2>1, <2>2, <2>3
  <2> QED BY <2>4 DEF DeskRight, Owed
<1>6. Dated(desk[t])' /\ Dated(x)'
  <2>1. Dated(e)'
    BY <1>1 DEF Dated
  <2>2. Dated(x)'
    <3>1. CASE x = NoCall
      BY <1>4, <3>1, NoCallTyped
    <3>2. CASE x.cells = c.cells /\ x.env = 0
      BY <1>1, <1>4, <3>2 DEF Dated, StudioType
    <3> QED BY <3>1, <3>2
  <2> QED BY <1>2, <2>1, <2>2 DEF Dated
<1>7. Owed(t)' \subseteq Owed(t)
  BY <1>2 DEF Owed
<1>8. CallRight(t, x)'
  <2>1. CASE x = NoCall
    BY <2>1, SilentCall
  <2>2. CASE x.kind = "publish" /\ x.stage = "sent" /\ ~x.orphan /\ x.rev = c.rev /\ x.cells = c.cells
    BY <2>2 DEF CallRight, AsStored
  <2> QED BY <2>1, <2>2
<1>9. \A k \in CallsOf(t)' : k \in CallsOf(t) \/ (CallRight(t, k)' /\ Dated(k)')
  BY <1>3, <1>6, <1>8
<1> QED BY <1>2, <1>3, <1>4, <1>5, <1>6, <1>7, <1>9, OnePage

LEMMA SavedKeeps ==
  ASSUME StudioInv, NEW t \in Editors, NEW s \in 1..2, DraftSaved(t, s)
  PROVE  StudioInv'
<1>1. PICK c : c = calls[t][s]
  OBVIOUS
<1>2. c \in CallRow /\ CallRight(t, c)
  BY <1>1, CallHere
<1>3. PICK d : d = desk[t]
  OBVIOUS
<1>4. d \in DeskRow
  BY <1>3 DEF StudioInv, StudioType
<1>5. PICK x : x = IF c.publish
         THEN [c EXCEPT !.kind = "publish", !.stage = "sent", !.env = 0, !.publish = FALSE] ELSE NoCall
  OBVIOUS
<1>6. PICK e : e = [d EXCEPT !.rev = c.rev, !.cells = c.cells, !.env = c.env, !.dirty = FALSE,
                             !.saving = c.publish, !.quiet = {}]
  OBVIOUS
<1>7. c.kind = "save" /\ c.stage = "ok" /\ calls' = [calls EXCEPT ![t][s] = x]
      /\ UNCHANGED <<template, versions, history, tally>>
  BY <1>1, <1>5 DEF DraftSaved
<1>8. desk' = [desk EXCEPT ![t] = e]
  <2>1. desk' = [desk EXCEPT ![t].rev = c.rev, ![t].cells = c.cells, ![t].env = c.env,
                             ![t].dirty = FALSE, ![t].saving = c.publish, ![t].quiet = {}]
    BY <1>1 DEF DraftSaved
  <2> QED BY <1>3, <1>4, <1>6, <2>1 DEF StudioInv, StudioType
<1>9. e \in DeskRow /\ e.rev = c.rev /\ e.cells = c.cells /\ e.env = c.env /\ e.quiet = {}
      /\ e.own = d.own /\ e.risked = d.risked
  BY <1>2, <1>4, <1>6 DEF DeskRow, CallRow
<1>10. ~c.orphan /\ AsStored(history, c)
  BY <1>2, <1>7 DEF CallRight
<1>11. x \in CallRow /\ (x = NoCall \/ (x.kind = "publish" /\ x.stage = "sent" /\ ~x.orphan
                                        /\ x.rev = c.rev /\ x.cells = c.cells /\ x.env = 0))
  <2>1. CASE c.publish
    <3>1. x = [c EXCEPT !.kind = "publish", !.stage = "sent", !.env = 0, !.publish = FALSE]
      BY <1>5, <2>1
    <3>2. x \in CallRow /\ x.kind = "publish" /\ x.stage = "sent" /\ x.orphan = c.orphan
          /\ x.rev = c.rev /\ x.cells = c.cells /\ x.env = 0
      BY <1>2, <3>1 DEF CallRow
    <3> QED BY <1>10, <3>2
  <2>2. CASE ~c.publish
    BY <1>5, <2>2, NoCallTyped
  <2> QED BY <2>1, <2>2
<1>12. \A n \in e.own \ e.risked : HasOrDropped(history, c, n)
  <2>1. \A n \in Owed(t) : c.stage \in {"sent", "ok"} => HasOrDropped(history, c, n)
    BY <1>2, <1>7, <1>10 DEF CallRight
  <2>2. e.own \ e.risked = Owed(t)
    BY <1>3, <1>9 DEF Owed
  <2> QED BY <1>7, <2>1, <2>2
<1>13. e.own \subseteq d.own /\ (e.own = {} \/ e.risked = d.risked)
  BY <1>9
<1> QED BY <1>1, <1>3, <1>7, <1>8, <1>9, <1>10, <1>11, <1>12, <1>13, TakenOver

LEMMA LoadedKeeps ==
  ASSUME StudioInv, NEW t \in Editors, NEW s \in 1..2, DraftLoaded(t, s)
  PROVE  StudioInv'
<1>1. PICK c : c = calls[t][s]
  OBVIOUS
<1>2. c \in CallRow /\ CallRight(t, c)
  BY <1>1, CallHere
<1>3. PICK d : d = desk[t]
  OBVIOUS
<1>4. d \in DeskRow
  BY <1>3 DEF StudioInv, StudioType
<1>5. PICK e : e = [d EXCEPT !.rev = c.rev, !.cells = c.cells, !.env = c.env,
                             !.dirty = @ /\ c.kind = "import", !.conflict = @ /\ c.kind = "import",
                             !.own = {}, !.risked = {}, !.quiet = {}]
  OBVIOUS
<1>6. c.kind \in {"open", "import"} /\ c.stage = "ok" /\ calls' = [calls EXCEPT ![t][s] = NoCall]
      /\ UNCHANGED <<template, versions, history, tally>>
  BY <1>1 DEF DraftLoaded, Free
<1>7. desk' = [desk EXCEPT ![t] = e]
  <2>1. desk' = [desk EXCEPT ![t].rev = c.rev, ![t].cells = c.cells, ![t].env = c.env,
                             ![t].dirty = @ /\ c.kind = "import",
                             ![t].conflict = @ /\ c.kind = "import",
                             ![t].own = {}, ![t].risked = {}, ![t].quiet = {}]
    BY <1>1 DEF DraftLoaded
  <2> QED BY <1>3, <1>4, <1>5, <2>1 DEF StudioInv, StudioType
<1>8. e \in DeskRow /\ e.rev = c.rev /\ e.cells = c.cells /\ e.env = c.env /\ e.quiet = {}
      /\ e.own = {} /\ e.risked = {}
  BY <1>2, <1>4, <1>5 DEF DeskRow, CallRow
<1>9. AsStored(history, c)
  BY <1>2, <1>6 DEF CallRight
<1>10. NoCall \in CallRow
  BY NoCallTyped
<1>11. e.own \subseteq d.own /\ e.own = {} /\ \A n \in e.own \ e.risked : HasOrDropped(history, c, n)
  BY <1>8
<1> QED BY <1>1, <1>3, <1>6, <1>7, <1>8, <1>9, <1>10, <1>11, TakenOver


\* A notice changes nothing that the page shows.
LEMMA Noticed ==
  ASSUME StudioInv, NEW t \in Editors, NEW s \in 1..2, NEW x \in CallRow,
         calls' = [calls EXCEPT ![t][s] = x],
         x = NoCall \/ (CallRight(t, x) /\ Dated(x)),
         UNCHANGED <<template, versions, history>>,
         tally' \in [changes : Nat, clicks : Nat, unheard : Nat], tally'.changes = tally.changes,
         NEW d, d = desk[t], NEW conflict \in BOOLEAN, NEW saving \in BOOLEAN, NEW e,
         e = [d EXCEPT !.conflict = conflict, !.saving = saving], desk' = [desk EXCEPT ![t] = e]
  PROVE  StudioInv'
<1>1. d \in DeskRow
  BY DEF StudioInv, StudioType
<1>2. e \in DeskRow /\ e.rev = d.rev /\ e.cells = d.cells /\ e.env = d.env /\ e.dirty = d.dirty
      /\ e.quiet = d.quiet /\ e.own = d.own /\ e.risked = d.risked
  BY <1>1 DEF DeskRow
<1>3. StudioType' /\ ServerRight' /\ NoneUndone
  <2>1. desk' \in [Editors -> DeskRow] /\ calls' \in [Editors -> [1..2 -> CallRow]]
    BY <1>2, OneDesk, OneCall DEF StudioInv
  <2> QED BY <2>1, NothingStored
<1>4. Owed(t)' = Owed(t)
  <2>1. desk'[t] = e
    BY <1>2, OneDesk DEF StudioInv
  <2> QED BY <1>2, <2>1 DEF Owed
<1>5. CallRight(t, x)' /\ Dated(x)'
  <2>1. CASE x = NoCall
    BY <1>3, <2>1, NoCallTyped, SilentCall
  <2>2. CASE CallRight(t, x) /\ Dated(x)
    <3>1. x.cells \subseteq Nat /\ x.env \in Nat
      BY DEF CallRow
    <3> QED BY <1>3, <1>4, <2>2, <3>1, OtherCall, StillDated DEF StudioInv
  <2> QED BY <2>1, <2>2
<1> QED BY <1>2, <1>3, <1>5, OneRequest

LEMMA RefusedKeeps ==
  ASSUME StudioInv, NEW t \in Editors, NEW s \in 1..2, DraftRefused(t, s)
  PROVE  StudioInv'
<1>1. PICK d : d = desk[t]
  OBVIOUS
<1>2. PICK e : e = [d EXCEPT !.conflict = TRUE, !.saving = FALSE]
  OBVIOUS
<1>3. d \in DeskRow
  BY <1>1 DEF StudioInv, StudioType
<1>4. desk' = [desk EXCEPT ![t] = e]
  <2>1. desk' = [desk EXCEPT ![t].conflict = TRUE, ![t].saving = FALSE]
    BY DEF DraftRefused
  <2> QED BY <1>1, <1>2, <1>3, <2>1 DEF StudioInv, StudioType
<1>5. calls' = [calls EXCEPT ![t][s] = NoCall] /\ UNCHANGED <<template, versions, history, tally>>
  BY DEF DraftRefused, Free
<1>6. tally' \in [changes : Nat, clicks : Nat, unheard : Nat] /\ tally'.changes = tally.changes
  BY <1>5 DEF StudioInv, StudioType
<1> QED BY <1>1, <1>2, <1>4, <1>5, <1>6, NoCallTyped, Noticed

LEMMA ToldKeeps ==
  ASSUME StudioInv, NEW t \in Editors, NEW s \in 1..2, DraftTold(t, s)
  PROVE  StudioInv'
<1>1. PICK d : d = desk[t]
  OBVIOUS
<1>2. d \in DeskRow /\ d.conflict \in BOOLEAN
  BY <1>1 DEF StudioInv, StudioType, DeskRow
<1>3. PICK b \in BOOLEAN : b = (d.saving /\ calls[t][s].kind # "publish")
  OBVIOUS
<1>4. PICK e : e = [d EXCEPT !.conflict = d.conflict, !.saving = b]
  OBVIOUS
<1>5. desk' = [desk EXCEPT ![t].saving = b]
  BY <1>1, <1>3, Zenon DEF DraftTold
<1>6. desk' = [desk EXCEPT ![t] = e]
  BY <1>1, <1>2, <1>4, <1>5 DEF StudioInv, StudioType, DeskRow
<1>7. calls' = [calls EXCEPT ![t][s] = NoCall] /\ UNCHANGED <<template, versions, history, tally>>
  BY DEF DraftTold, Free
<1>8. tally' \in [changes : Nat, clicks : Nat, unheard : Nat] /\ tally'.changes = tally.changes
  BY <1>7 DEF StudioInv, StudioType
<1> QED BY <1>1, <1>2, <1>4, <1>6, <1>7, <1>8, NoCallTyped, Noticed

LEMMA LostKeeps ==
  ASSUME StudioInv, NEW t \in Editors, NEW s \in 1..2, LoseDraft(t, s)
  PROVE  StudioInv'
<1>1. PICK d : d = desk[t]
  OBVIOUS
<1>2. d \in DeskRow /\ d.conflict \in BOOLEAN
  BY <1>1 DEF StudioInv, StudioType, DeskRow
<1>3. PICK c : c = calls[t][s]
  OBVIOUS
<1>4. c \in CallRow /\ CallRight(t, c) /\ Dated(c)
  BY <1>3, CallHere
<1>5. PICK b \in BOOLEAN : b = (d.saving /\ c.kind \notin {"save", "publish"})
  OBVIOUS
<1>6. PICK e : e = [d EXCEPT !.conflict = d.conflict, !.saving = b]
  OBVIOUS
<1>7. desk' = [desk EXCEPT ![t].saving = b]
  BY <1>1, <1>3, <1>5, Zenon DEF LoseDraft
<1>8. desk' = [desk EXCEPT ![t] = e]
  BY <1>1, <1>2, <1>6, <1>7 DEF StudioInv, StudioType, DeskRow
<1>9. PICK x : x = IF c.stage = "sent" /\ c.kind # "open"
                   THEN [c EXCEPT !.orphan = TRUE, !.publish = FALSE] ELSE NoCall
  OBVIOUS
<1>10. calls' = [calls EXCEPT ![t][s] = x] /\ UNCHANGED <<template, versions, history>>
  BY <1>3, <1>9 DEF LoseDraft
<1>11. tally' \in [changes : Nat, clicks : Nat, unheard : Nat] /\ tally'.changes = tally.changes
  BY DEF StudioInv, StudioType, LoseDraft, Count
<1>12. x \in CallRow /\ (x = NoCall \/ (CallRight(t, x) /\ Dated(x)))
  <2>1. CASE c.stage = "sent" /\ c.kind # "open"
    <3>1. x = [c EXCEPT !.orphan = TRUE, !.publish = FALSE]
      BY <1>9, <2>1
    <3>2. x \in CallRow /\ x.kind = c.kind /\ x.stage = c.stage /\ x.rev = c.rev
          /\ x.cells = c.cells /\ x.env = c.env /\ x.orphan
      BY <1>4, <3>1 DEF CallRow
    <3>3. Dated(x)
      BY <1>4, <3>2 DEF Dated
    <3>4. CallRight(t, x)
      BY <1>4, <2>1, <3>2 DEF CallRight, BuiltOn
    <3> QED BY <3>2, <3>3, <3>4
  <2>2. CASE ~(c.stage = "sent" /\ c.kind # "open")
    BY <1>9, <2>2, NoCallTyped
  <2> QED BY <2>1, <2>2
<1> QED BY <1>1, <1>2, <1>5, <1>6, <1>8, <1>10, <1>11, <1>12, Noticed

-----------------------------------------------------------------------------
LEMMA StudioInitInv == StudioInit => StudioInv
<1> SUFFICES ASSUME StudioInit PROVE StudioInv
  OBVIOUS
<1>1. PICK r : r = [cells |-> {}, env |-> 0, how |-> "create"]
  OBVIOUS
<1>2. r \in RevisionRow /\ r.cells = {} /\ r.env = 0
  BY <1>1 DEF RevisionRow
<1>3. history = <<r>> /\ history \in Seq(RevisionRow) /\ Len(history) = 1 /\ history[1] = r
  BY <1>1, <1>2 DEF StudioInit
<1>4. template \in DraftRow /\ template.rev = 1 /\ template.cells = {} /\ template.env = 0
  BY DEF StudioInit, DraftRow
<1>5. versions = <<>> /\ versions \in Seq(DraftVersionRow) /\ Len(versions) = 0
  <2>1. <<>> \in Seq(DraftVersionRow)
    OBVIOUS
  <2> QED BY <2>1 DEF StudioInit
<1>6. PICK d : d = [rev |-> 1, cells |-> {}, env |-> 0, dirty |-> FALSE, conflict |-> FALSE,
                    saving |-> FALSE, own |-> {}, risked |-> {}, quiet |-> {}]
  OBVIOUS
<1>7. d \in DeskRow /\ d.rev = 1 /\ d.cells = {} /\ d.env = 0 /\ d.quiet = {} /\ d.own = {}
  BY <1>6 DEF DeskRow
<1>8. desk = [t \in Editors |-> d]
  BY <1>6 DEF StudioInit
<1>9. calls = [t \in Editors |-> <<NoCall, NoCall>>] /\ NoCall \in CallRow
  BY NoCallTyped DEF StudioInit
<1>10. <<NoCall, NoCall>> \in [1..2 -> CallRow] /\ \A s \in 1..2 : <<NoCall, NoCall>>[s] = NoCall
  BY <1>9
<1>11. tally \in [changes : Nat, clicks : Nat, unheard : Nat] /\ tally.changes = 0
  BY DEF StudioInit
<1>12. StudioType
  BY <1>3, <1>4, <1>5, <1>7, <1>8, <1>9, <1>10, <1>11 DEF StudioType
<1>13. \A t \in Editors : desk[t] = d /\ \A c \in CallsOf(t) : c = NoCall
  BY <1>8, <1>9, <1>10 DEF CallsOf
<1>14. Dated(r) /\ Dated(d) /\ Dated(NoCall)
  BY <1>2, <1>7, <1>11 DEF Dated, NoCall
<1>15. AllDated
  BY <1>3, <1>13, <1>14 DEF AllDated
<1>16. AsStored(history, template) /\ template.rev = Len(history) /\ OnlyGrows(history)
  BY <1>2, <1>3, <1>4 DEF AsStored, OnlyGrows
<1>17. ASSUME NEW t \in Editors PROVE DeskRight(t) /\ \A c \in CallsOf(t) : CallRight(t, c)
  <2>1. BuiltOn(history, d) /\ d.cells \ d.quiet = history[d.rev].cells /\ d.env = history[d.rev].env
    BY <1>2, <1>3, <1>7 DEF BuiltOn
  <2>2. desk[t] = d /\ Owed(t) = {}
    BY <1>7, <1>13 DEF Owed
  <2>3. DeskRight(t)
    BY <2>1, <2>2 DEF DeskRight
  <2>4. CallRight(t, NoCall)
    BY DEF CallRight, NoCall
  <2> QED BY <1>13, <2>3, <2>4
<1> QED BY <1>5, <1>12, <1>15, <1>16, <1>17 DEF StudioInv

LEMMA StudioStep == StudioInv /\ [StudioNext]_studioVars => StudioInv'
<1> SUFFICES ASSUME StudioInv, [StudioNext]_studioVars PROVE StudioInv'
  OBVIOUS
<1>1. CASE StudioNext
  <2>1. PICK t \in Editors : \/ ChangeDraft(t) \/ EditMarkdown(t) \/ Click(t)
                             \/ \E s \in 1..2 : Process(t, s) \/ Land(t, s)
    BY <1>1 DEF StudioNext
  <2>2. CASE ChangeDraft(t) \/ EditMarkdown(t)
    BY <2>2, ChangeKeeps
  <2>3. CASE Click(t)
    BY <2>3, SaveKeeps
  <2>4. ASSUME NEW s \in 1..2, Process(t, s) PROVE StudioInv'
    BY <2>4, StoreKeeps, StoreImportKeeps, ConflictKeeps, ReadKeeps, StoreVersionKeeps DEF Process
  <2>5. ASSUME NEW s \in 1..2, Land(t, s) PROVE StudioInv'
    BY <2>5, SavedKeeps, RefusedKeeps, ToldKeeps, LoadedKeeps, LostKeeps DEF Land
  <2> QED BY <2>1, <2>2, <2>3, <2>4, <2>5
<1>2. CASE UNCHANGED studioVars
  <2>1. UNCHANGED <<template, versions, history, desk, calls, tally>>
    BY <1>2 DEF studioVars
  <2>2. StudioType'
    BY <2>1 DEF StudioInv, StudioType
  <2>3. ServerRight'
    <3>1. tally'.changes >= tally.changes
      BY <2>1 DEF StudioInv, StudioType
    <3> QED BY <2>1, <2>2, <3>1, ServerStays
  <2>4. AllDated'
    BY <2>1 DEF StudioInv, AllDated, Dated, CallsOf
  <2>5. ASSUME NEW t \in Editors PROVE DeskRight(t)'
    <3>1. DeskRight(t)
      BY DEF StudioInv
    <3> QED BY <2>1, <3>1 DEF DeskRight, BuiltOn, HasOrDropped, Owed
  <2>6. ASSUME NEW t \in Editors, NEW c \in CallsOf(t)' PROVE CallRight(t, c)'
    <3>1. CallRight(t, c)
      BY <2>1, <2>6 DEF StudioInv, CallsOf
    <3> QED BY <2>1, <3>1 DEF CallRight, AsStored, BuiltOn, HasOrDropped, Owed
  <2> QED BY <2>2, <2>3, <2>4, <2>5, <2>6 DEF StudioInv, ServerRight
<1> QED BY <1>1, <1>2

(* The inductive invariant of a template's draft: every page and every     *)
(* request holds a stored revision or what was built on one (DeskRight,    *)
(* CallRight), every version is the copy of a revision, and the history    *)
(* goes on as atomic_replace_draft's condition on the revision has it.     *)
THEOREM StudioInvariant == StudioSpec => []StudioInv
BY StudioInitInv, StudioStep, PTL DEF StudioSpec

(* Teachers' pages never undo each other's stored changes, a version is    *)
(* the whole of one saved draft with all that the publishing page showed,  *)
(* and a page displays what it says: for any number of pages, changes,     *)
(* conflicts, imports, publications and lost answers (studio_service.py,   *)
(* stores/studio.js).                                                      *)
THEOREM DraftsAreSound == StudioSpec => []DraftsSound
<1>1. StudioInv => DraftsSound
  <2> SUFFICES ASSUME StudioInv PROVE DraftsSound
    OBVIOUS
  <2>1. Len(history) = template.rev /\ template.cells = history[template.rev].cells
        /\ template.env = history[template.rev].env
    BY DEF StudioInv, AsStored
  <2>2. ASSUME NEW i \in 2..Len(history), history[i].how = "save"
        PROVE  /\ history[i - 1].cells \subseteq history[i].cells
               /\ history[i].env # history[i - 1].env =>
                    \A j \in 1..(i - 1) : history[j].env # history[i].env
    <3>1. Len(history) \in Nat
      BY DEF StudioInv, StudioType
    <3>2. i \in 1..Len(history) /\ i - 1 \in 1..Len(history) /\ i - 1 <= i
          /\ \A k \in ((i - 1) + 1)..i : k = i
      BY <3>1, <2>2
    <3>3. history[i - 1].cells \subseteq history[i].cells
      BY <2>2, <3>2 DEF StudioInv, OnlyGrows
    <3> QED BY <2>2, <3>3 DEF StudioInv, OnlyGrows
  <2>3. ASSUME NEW v \in 1..Len(versions)
        PROVE  /\ versions[v].since <= versions[v].rev
               /\ versions[v].cells = history[versions[v].rev].cells
               /\ versions[v].env = history[versions[v].rev].env
               /\ (\A i \in (versions[v].since + 1)..versions[v].rev : history[i].how = "save") =>
                    versions[v].had \subseteq versions[v].cells
    <3>1. VersionRight(history, versions[v])
      BY <2>3 DEF StudioInv
    <3> QED BY <3>1 DEF VersionRight, AsStored
  <2>4. DraftsBuildUp
    BY <2>1, <2>2, <2>3 DEF DraftsBuildUp
  <2>5. ASSUME NEW t \in Editors
        PROVE  /\ history[desk[t].rev].cells \subseteq desk[t].cells
               /\ ~desk[t].dirty => /\ desk[t].cells \ desk[t].quiet = history[desk[t].rev].cells
                                    /\ desk[t].env = history[desk[t].rev].env
               /\ \A n \in desk[t].own \ (desk[t].risked \cup desk[t].cells) :
                    \E i \in 2..desk[t].rev :
                      history[i].how = "import" /\ n \in history[i - 1].cells \ history[i].cells
    <3>1. DeskRight(t)
      BY DEF StudioInv
    <3> QED BY <3>1 DEF DeskRight, BuiltOn, HasOrDropped, Owed
  <2>6. PageTellsTruth
    BY <2>5 DEF PageTellsTruth
  <2> QED BY <2>4, <2>6 DEF DraftsSound
<1> QED BY <1>1, StudioInvariant, PTL
=============================================================================
