--------------------------- MODULE NotebookRecord ---------------------------
(***************************************************************************)
(* One student's experiment record, open in several tabs: the page's       *)
(* stores/experiment.js (serial saves of dirty cells, conflicts, submit    *)
(* with a client_request_id) and api/experiments.py (save_cells,           *)
(* submit_record, review_submission).                                      *)
(*                                                                         *)
(* The n-th edit by the student, in whatever cell and tab, is the text n.  *)
(* A handler reads the row and, in another step, commits what it computed. *)
(* Answers get lost, the handler running on or never having run.  Outputs  *)
(* of cells are left out.                                                  *)
(***************************************************************************)
EXTENDS Naturals, Sequences

CONSTANTS Tabs, Cells,
          MaxEdits, MaxSubmits, MaxTroubles,  \* bounds, each
          MaxEvents                           \* and together

ASSUME NotebookAssumption == {MaxEdits, MaxSubmits, MaxTroubles, MaxEvents} \subseteq Nat

VARIABLES record,  \* ExperimentRecord: cells_sources, record_revision, status
          subs,    \* ExperimentSubmission rows: client_request_id, attempt_number, snapshot
          page,    \* what each tab holds
          wire,    \* requests in flight
          spent,   \* how much of each bound has been used, and ids drawn
          overlap  \* have two handlers ever been between read and commit at once?

notebookVars == <<record, subs, page, wire, spent, overlap>>

Loaded == [src |-> record.src, rev |-> record.rev, dirty |-> {}, saved |-> TRUE,
           conflict |-> FALSE, wants |-> FALSE, id |-> 0,
           unheard |-> FALSE]  \* has the row changed without this page being told?

NotebookInit ==
  /\ record = [src |-> [c \in Cells |-> 0], rev |-> 1, status |-> "started"]
  /\ subs = <<>> /\ wire = {} /\ overlap = FALSE
  /\ page = [t \in Tabs |-> Loaded]
  /\ spent = [edits |-> 0, submits |-> 0, troubles |-> 0, ids |-> 0]

Spend(what, max) ==
  /\ spent[what] < max
  /\ spent.edits + spent.submits + spent.troubles < MaxEvents
  /\ spent' = [spent EXCEPT ![what] = @ + 1]
Mine(t, kind) == {r \in wire : r.tab = t /\ r.kind = kind /\ ~r.orphan}

(* What a page sends; shown is the notebook it displays at that moment.    *)
Blank == [c \in Cells |-> 0]
Message(t, kind, id) ==
  [tab |-> t, kind |-> kind, stage |-> "sent", orphan |-> FALSE, id |-> id,
   cells |-> page[t].dirty, shown |-> IF kind = "submit" THEN page[t].src ELSE Blank,
   rev |-> IF kind = "save" THEN page[t].rev ELSE 0,
   src |-> IF kind = "save" THEN page[t].src ELSE Blank,
   status |-> "none", last |-> 0, result |-> 0]

Becomes(r, new) == wire' = (wire \ {r}) \cup {new}
Reply(r, result) ==
  wire' = (wire \ {r}) \cup
          IF r.orphan THEN {}
          ELSE {[r EXCEPT !.stage = "replied", !.result = result, !.rev = 0, !.last = 0,
                          !.status = "none", !.src = IF r.kind = "save" THEN @ ELSE Blank]}
Handling(r) == r.stage \in {"read", "clash"}

-----------------------------------------------------------------------------
(* The page.                                                               *)

Edit(t, c) ==
  /\ Spend("edits", MaxEdits)
  /\ page' = [page EXCEPT ![t].src[c] = spent.edits + 1, ![t].dirty = @ \cup {c},
                          ![t].saved = FALSE]
  /\ UNCHANGED <<record, subs, wire, overlap>>

(* _drainDirtySources, by the debounce, the interval, a submit or the next *)
(* turn of its loop: one save at a time, none after a conflict.            *)
SendSave(t) ==
  /\ page[t].dirty # {} /\ ~page[t].conflict /\ Mine(t, "save") = {}
  /\ wire' = wire \cup {Message(t, "save", 0)}
  /\ page' = [page EXCEPT ![t].saved = FALSE]
  /\ UNCHANGED <<record, subs, spent, overlap>>

(* Mutant: whatever was in the request counts as saved.                    *)
SaveDoneAll(r) ==
  /\ r.kind = "save" /\ r.stage = "replied" /\ ~r.orphan /\ r.result # 0
  /\ LET left == page[r.tab].dirty \ r.cells IN
     page' = [page EXCEPT ![r.tab].rev = r.result, ![r.tab].dirty = left,
                          ![r.tab].saved = left = {}]
  /\ wire' = wire \ {r}
  /\ UNCHANGED <<record, subs, spent, overlap>>

(* What was edited while the save was under way stays dirty.               *)
SaveDone(r) ==
  /\ r.kind = "save" /\ r.stage = "replied" /\ ~r.orphan /\ r.result # 0
  /\ LET left == {c \in page[r.tab].dirty : c \in r.cells => page[r.tab].src[c] # r.src[c]} IN
     page' = [page EXCEPT ![r.tab].rev = r.result, ![r.tab].dirty = left,
                          ![r.tab].saved = left = {}]
  /\ wire' = wire \ {r}
  /\ UNCHANGED <<record, subs, spent, overlap>>

SaveRefused(r) ==
  /\ r.kind = "save" /\ r.stage = "replied" /\ ~r.orphan /\ r.result = 0
  /\ page' = [page EXCEPT ![r.tab].conflict = TRUE, ![r.tab].wants = FALSE]
  /\ wire' = wire \ {r}
  /\ UNCHANGED <<record, subs, spent, overlap>>

(* submitExperiment flushes, and only then submits.                        *)
ClickSubmit(t) ==
  /\ ~page[t].wants /\ Mine(t, "submit") = {}
  /\ page[t].conflict => page[t].dirty = {}
  /\ Spend("submits", MaxSubmits)
  /\ page' = [page EXCEPT ![t].wants = TRUE]
  /\ UNCHANGED <<record, subs, wire, overlap>>

(* A request id that has not been heard to succeed is used again.          *)
SendSubmit(t) ==
  /\ page[t].wants /\ page[t].dirty = {} /\ Mine(t, "save") = {}
  /\ LET id == IF page[t].id = 0 THEN spent.ids + 1 ELSE page[t].id IN
     /\ wire' = wire \cup {Message(t, "submit", id)}
     /\ page' = [page EXCEPT ![t].id = id, ![t].wants = FALSE]
     /\ spent' = [spent EXCEPT !.ids = IF page[t].id = 0 THEN @ + 1 ELSE @]
  /\ UNCHANGED <<record, subs, overlap>>

(* The page learns the attempt, not the record's new revision.             *)
SubmitDone(r) ==
  /\ r.kind = "submit" /\ r.stage = "replied" /\ ~r.orphan
  /\ page' = [page EXCEPT ![r.tab].id = IF r.result = 0 THEN @ ELSE 0]
  /\ wire' = wire \ {r}
  /\ UNCHANGED <<record, subs, spent, overlap>>

(* openLesson, openModule, or a reload: edits not saved are given up.      *)
Open(t) ==
  /\ Spend("troubles", MaxTroubles)
  /\ page' = [page EXCEPT ![t] = Loaded]
  /\ wire' = {IF r.tab = t THEN [r EXCEPT !.orphan = TRUE, !.shown = Blank] ELSE r :
                r \in {q \in wire : q.tab = t => q.stage # "replied"}}
  /\ UNCHANGED <<record, subs, overlap>>

(* A network failure or timeout: the page goes by "not done".              *)
Lose(r) ==
  /\ ~r.orphan /\ Spend("troubles", MaxTroubles)
  /\ \/ r.stage \in {"sent", "replied"} /\ wire' = wire \ {r}
     \/ r.stage # "replied" /\ Becomes(r, [r EXCEPT !.orphan = TRUE, !.shown = Blank])
  /\ page' = [page EXCEPT ![r.tab].wants = FALSE,
                          ![r.tab].unheard = @ \/ (r.stage = "replied" /\ r.result # 0)]
  /\ UNCHANGED <<record, subs, overlap>>

-----------------------------------------------------------------------------
(* The server.                                                             *)

Reading(r) == overlap' = (overlap \/ \E q \in wire \ {r} : Handling(q))
Untold(tabs) == page' = [t \in Tabs |-> [page[t] EXCEPT !.unheard = @ \/ t \in tabs]]

(* save_cells: result 0 is the 409.                                        *)
SaveRead(r) ==
  /\ r.kind = "save" /\ r.stage = "sent"
  /\ IF r.rev # record.rev THEN Reply(r, 0) /\ UNCHANGED overlap
     ELSE /\ Becomes(r, [r EXCEPT !.stage = "read",
                !.src = [c \in Cells |-> IF c \in r.cells THEN @[c] ELSE record.src[c]]])
          /\ Reading(r)
  /\ UNCHANGED <<record, subs, page, spent>>

SaveCommit(r) ==
  /\ r.kind = "save" /\ r.stage = "read"
  /\ record' = [record EXCEPT !.src = r.src, !.rev = r.rev + 1]
  /\ Reply(r, r.rev + 1)
  /\ Untold(Tabs \ (IF r.orphan THEN {} ELSE {r.tab}))
  /\ UNCHANGED <<subs, spent, overlap>>

RowsWithId(id) == {n \in 1..Len(subs) : subs[n].id = id}
Attempt(r) == CHOOSE n \in RowsWithId(r.id) : TRUE
LastAttempt == IF subs = <<>> THEN 0 ELSE subs[Len(subs)].number

(* submit_record: the request's twin, the grade, the row with its sources. *)
(* The checks under the lock see the same snapshot of the database.        *)
SubmitRead(r) ==
  /\ r.kind = "submit" /\ r.stage = "sent"
  /\ IF RowsWithId(r.id) # {} THEN Reply(r, Attempt(r)) /\ UNCHANGED overlap
     ELSE IF record.status = "graded" THEN Reply(r, 0) /\ UNCHANGED overlap
     ELSE /\ Becomes(r, [r EXCEPT !.stage = "read", !.src = record.src, !.rev = record.rev,
                                  !.status = record.status, !.last = LastAttempt])
          /\ Reading(r)
  /\ UNCHANGED <<record, subs, page, spent>>

Submitted(r, number, rev, status) ==
  /\ subs' = Append(subs, [id |-> r.id, number |-> number, snapshot |-> r.src])
  /\ record' = [record EXCEPT !.rev = rev, !.status = status]
  /\ Reply(r, Len(subs) + 1)
  /\ Untold(Tabs)
  /\ UNCHANGED <<spent, overlap>>

(* uq_experiment_submission_attempt, uq_experiment_submission_idempotency. *)
Unique(r) == \A n \in 1..Len(subs) : subs[n].number # r.last + 1 /\ subs[n].id # r.id

(* Mutant: the table has no unique constraints.                            *)
SubmitCommitUnconstrained(r) ==
  /\ r.kind = "submit" /\ r.stage = "read"
  /\ Submitted(r, r.last + 1, r.rev + 1, "submitted")

(* An attribute set to the value it was loaded with is not written.        *)
SubmitCommit(r) ==
  /\ r.kind = "submit" /\ r.stage = "read" /\ Unique(r)
  /\ Submitted(r, r.last + 1, r.rev + 1,
               IF r.status = "submitted" THEN record.status ELSE "submitted")

SubmitClash(r) ==
  /\ r.kind = "submit" /\ r.stage = "read" /\ ~Unique(r)
  /\ Becomes(r, [r EXCEPT !.stage = "clash"])
  /\ UNCHANGED <<record, subs, page, spent, overlap>>

(* Once more, in a new transaction, with the sources read in the first.    *)
SubmitRetry(r) ==
  /\ r.stage = "clash"
  /\ IF RowsWithId(r.id) # {}
     THEN Reply(r, Attempt(r)) /\ UNCHANGED <<record, subs, page, spent, overlap>>
     ELSE Submitted(r, LastAttempt + 1, record.rev + 1, "submitted")

(* review_submission, with a score.                                        *)
Review ==
  /\ subs # <<>> /\ record.status # "graded"
  /\ record' = [record EXCEPT !.status = "graded"]
  /\ UNCHANGED <<subs, page, wire, spent, overlap>>

Arrive(r) == SaveRead(r) \/ SaveCommit(r) \/ SubmitRead(r) \/ SubmitCommit(r)
             \/ SubmitClash(r) \/ SubmitRetry(r)
Return(r) == SaveDone(r) \/ SaveRefused(r) \/ SubmitDone(r) \/ Lose(r)

NotebookNext ==
  \/ \E t \in Tabs : \/ SendSave(t) \/ ClickSubmit(t) \/ SendSubmit(t) \/ Open(t)
                     \/ \E c \in Cells : Edit(t, c)
  \/ \E r \in wire : Arrive(r) \/ Return(r)
  \/ Review

-----------------------------------------------------------------------------
Covers(new, old) == \A c \in Cells : new[c] >= old[c]

(* What a page calls saved is stored, or a later edit is: no edit made     *)
(* while a save was under way is lost, and no tab writes over what it has  *)
(* not seen.  Two saves handled at the same moment are the exception: the  *)
(* revision is compared in Python and not in the UPDATE.                   *)
SavedIsStored == ~overlap => \A t \in Tabs : page[t].saved => Covers(record.src, page[t].src)

(* A submission that is confirmed to a student contains what the page      *)
(* showed when it was sent, though the same request may have been sent     *)
(* before.  Handlers that overlap are again the exception.                 *)
SubmittedWhatWasShown ==
  ~overlap => \A r \in wire : r.kind = "submit" /\ r.stage = "replied" /\ r.result # 0
                              => Covers(subs[r.result].snapshot, r.shown)

(* Attempts are numbered without a gap, and a request that is repeated, in *)
(* parallel even, makes one submission.                                    *)
AttemptsDense ==
  \A n \in 1..Len(subs) : subs[n].number = n /\ \A k \in 1..n - 1 : subs[k].id # subs[n].id

(* The page says "记录已被他人修改" only if the row has changed and this    *)
(* page was not told, which its own submission is enough for.              *)
ConflictExplained == \A t \in Tabs : page[t].conflict => page[t].unheard

(* The student's word against the server's: what the page confirms, saved  *)
(* or submitted, the server has.                                           *)
NothingLost == SavedIsStored /\ SubmittedWhatWasShown

(* What the page or the teacher is told of other people's doings is so:    *)
(* attempts are all there, and a conflict has had a cause.                 *)
ToldTheTruth == AttemptsDense /\ ConflictExplained

(* Whatever page and server tell the student is so.                        *)
RecordKeepsWord == NothingLost /\ ToldTheTruth
=============================================================================
