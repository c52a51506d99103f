----------------------------- MODULE StudioDraft -----------------------------
(***************************************************************************)
(* The draft of one Notebook template, open in several pages of the        *)
(* Studio: the page's stores/studio.js and StudioEditor.vue (edits, save,  *)
(* run, import, publish, reload after a conflict), and the server's        *)
(* studio_service.py (atomic_replace_draft and publish_template).          *)
(*                                                                         *)
(* The n-th change a teacher makes is the number n: a draft's cells are    *)
(* the set of changes they contain (a deletion is a change like another),  *)
(* its environment is the change that chose it.  An import is a change     *)
(* that leaves no other.  Files of a draft, its name and the preview       *)
(* kernel are left out.  A page that is reloaded by the browser is one     *)
(* whose answers are lost and that is opened again.                        *)
(***************************************************************************)
EXTENDS Naturals, Sequences, FiniteSets

CONSTANTS Editors,                                 \* pages
          MaxChanges, MaxStudioClicks, MaxUnheard  \* bounds

ASSUME StudioAssumption == {MaxChanges, MaxStudioClicks, MaxUnheard} \subseteq Nat

VARIABLES template,  \* NotebookTemplate: draft_revision, draft_cells, draft_environment_*
          versions,  \* NotebookTemplateVersion rows
          history,   \* what the draft was at each revision, and what wrote it
          desk,      \* what each page holds
          calls,     \* its requests in flight, two at most
          tally      \* how much of each bound has been used

studioVars == <<template, versions, history, desk, calls, tally>>

NoCall == [kind |-> "none", stage |-> "none", rev |-> 0, cells |-> {}, env |-> 0,
           publish |-> FALSE, orphan |-> FALSE]

StudioInit ==
  /\ template = [rev |-> 1, cells |-> {}, env |-> 0]
  /\ history = <<[cells |-> {}, env |-> 0, how |-> "create"]>>
  /\ versions = <<>>
  /\ desk = [t \in Editors |-> [rev |-> 1, cells |-> {}, env |-> 0, dirty |-> FALSE,
                                conflict |-> FALSE, saving |-> FALSE,
                                own |-> {},       \* changes made here since it was loaded
                                risked |-> {},    \* those made during a request
                                quiet |-> {}]]    \* those the page takes for no change
  /\ calls = [t \in Editors |-> <<NoCall, NoCall>>]
  /\ tally = [changes |-> 0, clicks |-> 0, unheard |-> 0]

Count(what, max) == tally[what] < max /\ tally' = [tally EXCEPT ![what] = @ + 1]

Waiting(t) == {s \in 1..2 : calls[t][s].kind # "none" /\ ~calls[t][s].orphan}

(* The skeleton of a page being loaded and the dialogue of a publication   *)
(* take no clicks.                                                         *)
PageBlocked(t) == \E s \in Waiting(t) : calls[t][s].kind \in {"open", "publish"}
                                    \/ calls[t][s].publish

(* A request carries the revision the page holds, and a save its contents. *)
Ask(t, kind, publish) ==
  /\ Count("clicks", MaxStudioClicks)
  /\ \E s \in 1..2 :
       /\ calls[t][s] = NoCall /\ (s = 2 => calls[t][1] # NoCall)
       /\ calls' = [calls EXCEPT ![t][s] =
            [kind |-> kind, stage |-> "sent", rev |-> IF kind = "open" THEN 0 ELSE desk[t].rev,
             cells |-> CASE kind = "save" -> desk[t].cells
                         [] kind = "publish" -> desk[t].cells \ desk[t].quiet
                         [] OTHER -> {},
             env |-> IF kind = "save" THEN desk[t].env ELSE 0,
             publish |-> publish, orphan |-> FALSE]]

-----------------------------------------------------------------------------
(* The page.                                                               *)

(* addCell, deleteCell, moveCell, updateCellSource, ...; setEnvironment.   *)
ChangeDraft(t) ==
  /\ ~PageBlocked(t) /\ Count("changes", MaxChanges)
  /\ LET n == tally.changes + 1 IN
     \/ desk' = [desk EXCEPT ![t].cells = @ \cup {n}, ![t].dirty = TRUE, ![t].own = @ \cup {n},
                             ![t].risked = IF Waiting(t) = {} THEN @ ELSE @ \cup {n},
                             ![t].quiet = {}]
     \/ desk' = [desk EXCEPT ![t].env = n, ![t].dirty = TRUE, ![t].quiet = {}]
  /\ UNCHANGED <<template, versions, history, calls>>

(* handleMarkdownEdit writes the cell and does not set dirty: unless there *)
(* was another change the page goes on to say that it is saved, and a      *)
(* publication does not save it first.                                     *)
EditMarkdown(t) ==
  /\ ~PageBlocked(t) /\ Count("changes", MaxChanges)
  /\ LET n == tally.changes + 1 IN
     desk' = [desk EXCEPT ![t].cells = @ \cup {n}, ![t].own = @ \cup {n},
                          ![t].risked = IF Waiting(t) = {} THEN @ ELSE @ \cup {n},
                          ![t].quiet = IF desk[t].dirty THEN @ ELSE @ \cup {n}]
  /\ UNCHANGED <<template, versions, history, calls>>

(* saveDraft, from its button or from a run of a cell: the button waits    *)
(* for the previous save, the run does not.                                *)
SaveDraft(t) ==
  /\ ~PageBlocked(t) /\ ~desk[t].conflict
  /\ desk[t].saving => desk[t].dirty
  /\ Ask(t, "save", FALSE)
  /\ desk' = [desk EXCEPT ![t].saving = TRUE]
  /\ UNCHANGED <<template, versions, history>>

PublishDraft(t) ==
  /\ ~PageBlocked(t) /\ ~desk[t].saving
  /\ \/ desk[t].dirty /\ ~desk[t].conflict /\ Ask(t, "save", TRUE)
     \/ ~desk[t].dirty /\ Ask(t, "publish", FALSE)
  /\ desk' = [desk EXCEPT ![t].saving = TRUE]
  /\ UNCHANGED <<template, versions, history>>

(* importExisting asks for no saving first.                                *)
ImportDraft(t) ==
  /\ ~PageBlocked(t) /\ Ask(t, "import", FALSE)
  /\ UNCHANGED <<template, versions, history, desk>>

(* The reload offered after a conflict, or leaving and coming back.        *)
Reopen(t) ==
  /\ ~PageBlocked(t) /\ Ask(t, "open", FALSE)
  /\ UNCHANGED <<template, versions, history, desk>>

-----------------------------------------------------------------------------
(* The server.  An orphan is a request whose page has stopped waiting.     *)

Answered(c, stage, row) == IF c.orphan THEN NoCall
  ELSE [c EXCEPT !.stage = stage, !.rev = row.rev, !.cells = row.cells, !.env = row.env]
NoRow == [rev |-> 0, cells |-> {}, env |-> 0]

(* atomic_replace_draft: cells, environment and revision in one UPDATE on  *)
(* the revision that was sent.                                             *)
ReplaceDraft(cells, env, how) ==
  /\ template' = [rev |-> template.rev + 1, cells |-> cells, env |-> env]
  /\ history' = Append(history, [cells |-> cells, env |-> env, how |-> how])

(* Mutant: the revision is not in the WHERE.                               *)
StoreAnyway(t, s) ==
  LET c == calls[t][s] IN
  /\ c.kind = "save" /\ c.stage = "sent"
  /\ ReplaceDraft(c.cells, c.env, "save")
  /\ calls' = [calls EXCEPT ![t][s] = Answered(c, "stored", NoRow)]
  /\ UNCHANGED <<versions, desk, tally>>

Store(t, s) ==
  LET c == calls[t][s] IN
  /\ c.kind = "save" /\ c.stage = "sent" /\ c.rev = template.rev
  /\ ReplaceDraft(c.cells, c.env, "save")
  /\ calls' = [calls EXCEPT ![t][s] = Answered(c, "stored", NoRow)]
  /\ UNCHANGED <<versions, desk, tally>>

StoreImport(t, s) ==
  LET c == calls[t][s] IN
  /\ c.kind = "import" /\ c.stage = "sent" /\ c.rev = template.rev
  /\ Count("changes", MaxChanges)
  /\ ReplaceDraft({tally.changes + 1}, template.env, "import")
  /\ calls' = [calls EXCEPT ![t][s] = Answered(c, "stored", NoRow)]
  /\ UNCHANGED <<versions, desk>>

DraftConflict(t, s) ==
  LET c == calls[t][s] IN
  /\ c.kind \in {"save", "import"} /\ c.stage = "sent" /\ c.rev # template.rev
  /\ calls' = [calls EXCEPT ![t][s] = Answered(c, "conflict", NoRow)]
  /\ UNCHANGED <<template, versions, history, desk, tally>>

(* The row is read again for the answer: by then it may be another's.      *)
ReadRow(t, s) ==
  LET c == calls[t][s] IN
  /\ c.stage = IF c.kind = "open" THEN "sent" ELSE "stored"
  /\ calls' = [calls EXCEPT ![t][s] = Answered(c, "ok", template)]
  /\ UNCHANGED <<template, versions, history, desk, tally>>

(* publish_template, under the lock of the row: a copy of the draft as it  *)
(* is, whoever saved it last.                                              *)
StoreVersion(t, s) ==
  LET c == calls[t][s] IN
  /\ c.kind = "publish" /\ c.stage = "sent"
  /\ versions' = Append(versions, [rev |-> template.rev, cells |-> template.cells,
                                   env |-> template.env, since |-> c.rev, had |-> c.cells])
  /\ calls' = [calls EXCEPT ![t][s] = Answered(c, "ok", NoRow)]
  /\ UNCHANGED <<template, history, desk, tally>>

-----------------------------------------------------------------------------
(* Answers reach the page.                                                 *)

Free(t, s) == calls' = [calls EXCEPT ![t][s] = NoCall]

(* Mutant: the cells of the answer are not taken over.                     *)
SavedKeepingCells(t, s) ==
  LET c == calls[t][s] IN
  /\ c.kind = "save" /\ c.stage = "ok"
  /\ desk' = [desk EXCEPT ![t].rev = c.rev, ![t].env = c.env, ![t].dirty = FALSE,
                          ![t].saving = c.publish, ![t].quiet = {}]
  /\ calls' = [calls EXCEPT ![t][s] = IF c.publish
       THEN [c EXCEPT !.kind = "publish", !.stage = "sent", !.env = 0, !.publish = FALSE] ELSE NoCall]
  /\ UNCHANGED <<template, versions, history, tally>>

(* _updateFromRead, after a save.  A publication goes on from there.       *)
DraftSaved(t, s) ==
  LET c == calls[t][s] IN
  /\ c.kind = "save" /\ c.stage = "ok"
  /\ desk' = [desk EXCEPT ![t].rev = c.rev, ![t].cells = c.cells, ![t].env = c.env,
                          ![t].dirty = FALSE, ![t].saving = c.publish, ![t].quiet = {}]
  /\ calls' = [calls EXCEPT ![t][s] = IF c.publish
       THEN [c EXCEPT !.kind = "publish", !.stage = "sent", !.env = 0, !.publish = FALSE] ELSE NoCall]
  /\ UNCHANGED <<template, versions, history, tally>>

DraftRefused(t, s) ==
  /\ calls[t][s].kind = "save" /\ calls[t][s].stage = "conflict" /\ Free(t, s)
  /\ desk' = [desk EXCEPT ![t].conflict = TRUE, ![t].saving = FALSE]
  /\ UNCHANGED <<template, versions, history, tally>>

(* A refused import is a toast, no more.                                   *)
DraftTold(t, s) ==
  LET c == calls[t][s] IN
  /\ <<c.kind, c.stage>> \in {<<"publish", "ok">>, <<"import", "conflict">>}
  /\ desk' = [desk EXCEPT ![t].saving = @ /\ c.kind # "publish"]
  /\ Free(t, s) /\ UNCHANGED <<template, versions, history, tally>>

(* open clears dirty and conflict, an import leaves both as they are.      *)
DraftLoaded(t, s) ==
  LET c == calls[t][s] IN
  /\ c.kind \in {"open", "import"} /\ c.stage = "ok"
  /\ desk' = [desk EXCEPT ![t].rev = c.rev, ![t].cells = c.cells, ![t].env = c.env,
                          ![t].dirty = @ /\ c.kind = "import",
                          ![t].conflict = @ /\ c.kind = "import",
                          ![t].own = {}, ![t].risked = {}, ![t].quiet = {}]
  /\ Free(t, s) /\ UNCHANGED <<template, versions, history, tally>>

(* The answer is lost, or the server fails: the page reports an error, and *)
(* the request may still be carried out.                                   *)
LoseDraft(t, s) ==
  LET c == calls[t][s] IN
  /\ c.kind # "none" /\ ~c.orphan /\ Count("unheard", MaxUnheard)
  /\ calls' = [calls EXCEPT ![t][s] = IF c.stage = "sent" /\ c.kind # "open"
                                      THEN [c EXCEPT !.orphan = TRUE, !.publish = FALSE]
                                      ELSE NoCall]
  /\ desk' = [desk EXCEPT ![t].saving = @ /\ c.kind \notin {"save", "publish"}]
  /\ UNCHANGED <<template, versions, history>>

Click(t) == SaveDraft(t) \/ PublishDraft(t) \/ ImportDraft(t) \/ Reopen(t)
Process(t, s) == \/ Store(t, s) \/ StoreImport(t, s) \/ DraftConflict(t, s) \/ ReadRow(t, s)
                 \/ StoreVersion(t, s)
Land(t, s) == DraftSaved(t, s) \/ DraftRefused(t, s) \/ DraftTold(t, s) \/ DraftLoaded(t, s) \/ LoseDraft(t, s)

StudioNext == \E t \in Editors :
  \/ ChangeDraft(t) \/ EditMarkdown(t) \/ Click(t)
  \/ \E s \in 1..2 : Process(t, s) \/ Land(t, s)

-----------------------------------------------------------------------------
(* Two teachers' pages, or two saves of one page, never undo each other's  *)
(* stored changes: whatever a save replaces was on the page that saved,    *)
(* cells and environment alike, and an environment that was replaced does  *)
(* not come back (only an import, of the revision its page had seen, drops *)
(* changes).  And a version is the whole of one saved draft, not older     *)
(* than what the publishing page had saved, containing all it displayed.   *)
DraftsBuildUp ==
  /\ Len(history) = template.rev
  /\ template.cells = history[template.rev].cells /\ template.env = history[template.rev].env
  /\ \A i \in 2..Len(history) : history[i].how = "save" =>
       /\ history[i - 1].cells \subseteq history[i].cells
       /\ history[i].env # history[i - 1].env =>
            \A j \in 1..(i - 1) : history[j].env # history[i].env
  /\ \A v \in 1..Len(versions) : LET w == versions[v] IN
       /\ w.since <= w.rev
       /\ w.cells = history[w.rev].cells /\ w.env = history[w.rev].env
       /\ (\A i \in (w.since + 1)..w.rev : history[i].how = "save") => w.had \subseteq w.cells

(* A page that says it is saved displays, cells and environment, a draft   *)
(* that was stored, but for the Markdown it took for no change (contrary   *)
(* to updateCellSource); one with changes displays them on top of the revision  *)
(* it will save over; and a change only disappears from the page it was    *)
(* made on if it was made while a request was under way, or if it was      *)
(* stored and an import has replaced it.                                   *)
PageTellsTruth ==
  \A t \in Editors : LET d == desk[t] IN
    /\ history[d.rev].cells \subseteq d.cells
    /\ ~d.dirty => d.cells \ d.quiet = history[d.rev].cells /\ d.env = history[d.rev].env
    /\ \A n \in d.own \ (d.risked \cup d.cells) : \E i \in 2..d.rev :
         history[i].how = "import" /\ n \in history[i - 1].cells \ history[i].cells

(* What is stored builds up, and no page claims anything else.             *)
DraftsSound == DraftsBuildUp /\ PageTellsTruth
==============================================================================
