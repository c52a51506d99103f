----------------------------- MODULE ConfigPanel -----------------------------
(***************************************************************************)
(* The teacher's panel for the AI configuration of a question              *)
(* (AIQuestionConfig.vue inside QuestionEditView.vue): one instance that   *)
(* is pointed at one question after another, with loads, saves, the        *)
(* generation of test groups and of rubrics in flight, and the requests it *)
(* makes (api/ai_grading.py, test_group_generator.py).                     *)
(*                                                                         *)
(* A configuration is the questions that what is in it was typed or        *)
(* generated for, and a number that each change of it raises.  The list of *)
(* rubrics and the messages shown are left out.                            *)
(***************************************************************************)
EXTENDS Naturals, FiniteSets

CONSTANTS Items,                 \* the questions of an assignment
          NoItem,                \* a new question, which has no id yet
          MaxTyped, MaxPosted,   \* bounds: changes, and requests other than loads
         MaxSelects             \* bound: questions opened

ASSUME PanelAssumption == {MaxTyped, MaxPosted, MaxSelects} \subseteq Nat /\ NoItem \notin Items

VARIABLES panel,   \* questionId, config, initialSnapshot, requestSeq, loading, error, saving ...
          stored,  \* the configuration in the row of each question
          posted,  \* requests in flight
          sources, \* for each rubric made: its question, what it was made from, and
                   \* the question and the number shown when it was asked for
          typed,   \* changes so far
          sent,    \* requests so far
          hasty    \* what was done while the panel was waiting

panelVars == <<panel, stored, posted, sources, typed, sent, hasty>>

Clean(q) == [of |-> {q}, n |-> 0]

PanelInit ==
  /\ stored = [q \in Items |-> Clean(q)]
  /\ panel = [q |-> NoItem, cfg |-> Clean(NoItem), base |-> Clean(NoItem), seq |-> 0, opened |-> 0,
              loading |-> FALSE, failed |-> FALSE, saving |-> FALSE, generating |-> FALSE, wants |-> FALSE]
  /\ posted = {} /\ sources = {} /\ typed = 0 /\ sent = 0 /\ hasty = {}

Dirty == panel.cfg # panel.base

\* The form is not shown while it loads, nor with an error.
Open == panel.q # NoItem /\ ~panel.loading /\ ~panel.failed
Changed(cfg, q) == [of |-> cfg.of \cup {q}, n |-> typed + 1]

\* A save is on its way, whatever the buttons show: two may be.
Storing == \E m \in posted : m.what \in {"save", "autosave"}

Message(what, cfg) == [what |-> what, q |-> panel.q, cfg |-> cfg, seq |-> panel.seq,
                       for |-> panel.q, n |-> panel.cfg.n, tries |-> 0, done |-> FALSE, ok |-> FALSE]
Post(m) == posted' = posted \cup {m}
Counts == sent < MaxPosted /\ sent' = sent + 1
Replied(m, ok) == posted' = (posted \ {m}) \cup {[m EXCEPT !.done = TRUE, !.ok = ok]}
Heard(m) == m \in posted /\ m.done /\ posted' = posted \ {m}

-----------------------------------------------------------------------------
(* What the teacher does.                                                  *)

\* openEdit and load(): the panel points at another question and asks for its
\* configuration.  What is on its way is not called back.
Select(q) ==
  /\ q # panel.q /\ panel.opened < MaxSelects
  /\ panel' = [panel EXCEPT !.q = q, !.seq = @ + 1, !.opened = @ + 1, !.loading = TRUE,
                            !.failed = FALSE, !.generating = FALSE]
  /\ Post([what |-> "load", q |-> q, cfg |-> Clean(q), seq |-> panel.opened, for |-> q, n |-> 0,
           tries |-> 0, done |-> FALSE, ok |-> FALSE])
  /\ hasty' = hasty \cup (IF panel.loading \/ Storing THEN {"select"} ELSE {})
  /\ UNCHANGED <<stored, sources, typed, sent>>

\* onFormUpdate
Type ==
  /\ Open /\ typed < MaxTyped /\ typed' = typed + 1
  /\ panel' = [panel EXCEPT !.cfg = Changed(@, panel.q)]
  /\ hasty' = hasty \cup (IF Storing THEN {"type"} ELSE {})
  /\ UNCHANGED <<stored, posted, sources, sent>>

\* save(): the button works when there is something to save.
Save ==
  /\ Open /\ Dirty /\ ~panel.saving /\ Counts
  /\ panel' = [panel EXCEPT !.saving = TRUE]
  /\ Post(Message("save", panel.cfg))
  /\ UNCHANGED <<stored, sources, typed, hasty>>

\* startGenerate, after the teacher agreed to lose the groups there are.
GenerateGroups ==
  /\ Open /\ ~panel.generating /\ Counts
  /\ panel' = [panel EXCEPT !.generating = TRUE, !.seq = @ + 1]
  /\ Post([Message("groups", panel.cfg) EXCEPT !.seq = panel.seq + 1])
  /\ UNCHANGED <<stored, sources, typed, hasty>>

\* generateRubricAction: with unsaved changes, a save comes first.
MakeRubric ==
  /\ Open /\ ~panel.wants /\ Counts
  /\ panel' = [panel EXCEPT !.wants = TRUE, !.saving = @ \/ Dirty, !.failed = FALSE]
  /\ Post(Message(IF Dirty THEN "autosave" ELSE "rubric", panel.cfg))
  /\ UNCHANGED <<stored, sources, typed, hasty>>

-----------------------------------------------------------------------------
(* The server.                                                             *)

Reads(m) == /\ m.what = "load" /\ ~m.done
            /\ posted' = (posted \ {m}) \cup {[m EXCEPT !.done = TRUE, !.ok = TRUE, !.cfg = stored[m.q]]}
            /\ UNCHANGED <<panel, stored, sources, typed, sent, hasty>>

\* update_question_ai_config
Stores(m) == /\ m.what \in {"save", "autosave"} /\ ~m.done
             /\ stored' = [stored EXCEPT ![m.q] = m.cfg] /\ Replied(m, TRUE)
             /\ UNCHANGED <<panel, sources, typed, sent, hasty>>

\* generate_rubric_endpoint reads the row when it gets there.
Drafts(m) == /\ m.what = "rubric" /\ ~m.done
             /\ sources' = sources \cup {[q |-> m.q, from |-> stored[m.q].n, for |-> m.for, shown |-> m.n]}
             /\ Replied(m, TRUE)
             /\ UNCHANGED <<panel, stored, typed, sent, hasty>>

\* generate_test_groups: the answer of the model is valid and passes the
\* preflight, or it is asked once more, with what was wrong.
Groups(m) == /\ m.what = "groups" /\ ~m.done
             /\ \/ Replied(m, TRUE)
                \/ /\ m.tries = 0
                   /\ posted' = (posted \ {m}) \cup {[m EXCEPT !.tries = 1]}
             /\ UNCHANGED <<panel, stored, sources, typed, sent, hasty>>

\* Refused, out of time, or without an answer.
Refuse(m) == /\ ~m.done /\ Replied(m, FALSE)
             /\ UNCHANGED <<panel, stored, sources, typed, sent, hasty>>

-----------------------------------------------------------------------------
(* The answers.                                                            *)

\* load() looks at no sequence number.
ConfigLoaded(m) ==
  /\ m.what = "load" /\ Heard(m)
  /\ panel' = IF m.ok THEN [panel EXCEPT !.loading = FALSE, !.cfg = m.cfg, !.base = m.cfg]
                      ELSE [panel EXCEPT !.loading = FALSE, !.failed = TRUE]
  /\ UNCHANGED <<stored, sources, typed, sent, hasty>>

\* What is shown now is taken for what was saved.
Confirmed(m) ==
  /\ m.what = "save" /\ Heard(m)
  /\ panel' = [panel EXCEPT !.saving = FALSE, !.base = IF m.ok THEN panel.cfg ELSE @]
  /\ UNCHANGED <<stored, sources, typed, sent, hasty>>

\* ... and then the rubric is asked for, for the question shown now.
AutoSaved(m) ==
  /\ m.what = "autosave" /\ m.done
  /\ panel' = [panel EXCEPT !.saving = FALSE, !.base = IF m.ok THEN panel.cfg ELSE @,
                            !.wants = m.ok, !.failed = @ \/ ~m.ok]
  /\ posted' = (posted \ {m}) \cup
       IF m.ok THEN {[Message("rubric", panel.cfg) EXCEPT !.for = m.for, !.n = m.n]} ELSE {}
  /\ UNCHANGED <<stored, sources, typed, sent, hasty>>

Drafted(m) ==
  /\ m.what = "rubric" /\ Heard(m)
  /\ panel' = [panel EXCEPT !.wants = FALSE, !.failed = @ \/ ~m.ok]
  /\ UNCHANGED <<stored, sources, typed, sent, hasty>>

\* Mutant: an answer that comes after the question was changed is filled in.
GeneratedLate(m) ==
  /\ m.what = "groups" /\ Heard(m)
  /\ IF m.ok
       THEN panel' = [panel EXCEPT !.generating = FALSE, !.cfg = [of |-> @.of \cup {m.q}, n |-> typed + 1]]
            /\ typed' = typed + 1
       ELSE panel' = [panel EXCEPT !.generating = FALSE] /\ UNCHANGED typed
  /\ UNCHANGED <<stored, sources, sent, hasty>>

Generated(m) ==
  /\ m.what = "groups" /\ Heard(m)
  /\ IF m.seq # panel.seq THEN UNCHANGED <<panel, typed>>
     ELSE IF m.ok /\ m.q = panel.q
       THEN panel' = [panel EXCEPT !.generating = FALSE, !.cfg = Changed(@, m.q)] /\ typed' = typed + 1
       ELSE panel' = [panel EXCEPT !.generating = FALSE] /\ UNCHANGED typed
  /\ hasty' = hasty \cup (IF Storing /\ typed' # typed THEN {"type"} ELSE {})
  /\ UNCHANGED <<stored, sources, sent>>

PanelNext ==
  \/ \E q \in Items : Select(q)
  \/ Type \/ Save \/ GenerateGroups \/ MakeRubric
  \/ \E m \in posted : \/ Reads(m) \/ Stores(m) \/ Drafts(m) \/ Groups(m) \/ Refuse(m)
                       \/ ConfigLoaded(m) \/ Confirmed(m) \/ AutoSaved(m) \/ Drafted(m) \/ Generated(m)

-----------------------------------------------------------------------------
(* A teacher who waits for the panel to load and to save before going to   *)
(* another question never stores in one what was typed or generated for    *)
(* another, however late the generation of test groups answers; and, if he *)
(* also types nothing while it saves, a rubric is made for the question it *)
(* was asked for, and from nothing older than what was shown.              *)
OwnConfiguration == "select" \notin hasty => \A q \in Items : stored[q].of = {q}
RubricFromShown == hasty = {} => \A r \in sources : r.q = r.for /\ r.from >= r.shown
PanelKeepsApart == OwnConfiguration /\ RubricFromShown
=============================================================================
