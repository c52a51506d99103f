---------------------------- MODULE NotebookEntry ----------------------------
(***************************************************************************)
(* What a student's experiment starts from: the lessons of a course and    *)
(* the independent modules, the template each is bound to, and the         *)
(* versions a template has published (studio_service._bind and its         *)
(* callers, api/experiments.py, the lessons of api/courses.py).            *)
(*                                                                         *)
(* Some requests read in one step and write in another; a second request   *)
(* may come in between.  The statements of _bind that write take the row   *)
(* locks one after the other and are one step.  Owners, chapters, videos,  *)
(* names and environments are left out; the term is open, the course       *)
(* complete, and one student is enrolled in it.                            *)
(***************************************************************************)
EXTENDS Naturals, FiniteSets

CONSTANTS Lessons, Modules, Templates, Clerks,  \* Clerks: requests served at a time
          MaxVersions, MaxRequests              \* bounds

ASSUME EntryAssumption == /\ {MaxVersions, MaxRequests} \subseteq Nat
                          /\ "none" \notin Lessons \cup Modules \cup Templates

VARIABLES entry,      \* Lesson, ExperimentModule: notebook or not, status, template_id
          latest,     \* NotebookTemplate: of those created, the version_number of current_version_id
          started,    \* ExperimentRecord of the student: template and version
          published,  \* Course.status
          clerk,      \* requests between their reads and their writes
          waived,     \* entries whose template was set, while published, unchecked
          patched,    \* entries whose template was set without _bind
          entangled,  \* has a request written while another was under way?
          requests    \* how many so far

entryVars == <<entry, latest, started, published, clerk, waived, patched, entangled, requests>>

Entries == Lessons \cup Modules
Unbound == "none"
NotStarted == [template |-> Unbound, version |-> 0]
AtEase == [what |-> "none", e |-> Unbound, t |-> Unbound, version |-> 0]

EntryInit ==
  /\ entry = [e \in Entries |-> [notebook |-> TRUE, status |-> "draft", template |-> Unbound]]
  /\ latest = [t \in {} |-> 0]
  /\ started = [e \in Entries |-> NotStarted]
  /\ published = FALSE
  /\ clerk = [c \in Clerks |-> AtEase]
  /\ waived = {} /\ patched = {} /\ entangled = FALSE /\ requests = 0

Exists(t) == t \in DOMAIN latest

(* _ensure_template_version, and what a publication asks for.              *)
Versioned(t) == Exists(t) /\ latest[t] > 0
Usable(e) == Versioned(entry[e].template)
Shown(e) == entry[e].notebook /\ entry[e].status = "published"

-----------------------------------------------------------------------------
(* Requests: one that writes at once, one that reads first, and its end.   *)

Pending(c) == clerk[c] # AtEase
Counted == requests < MaxRequests /\ requests' = requests + 1
Wrote(others) == entangled' = (entangled \/ \E c \in others : Pending(c))
AtOnce == Counted /\ Wrote(Clerks) /\ UNCHANGED clerk
EntryReads(c, what, e, t, version) ==
  /\ ~Pending(c) /\ Counted
  /\ clerk' = [clerk EXCEPT ![c] = [what |-> what, e |-> e, t |-> t, version |-> version]]
  /\ UNCHANGED <<entry, latest, started, published, waived, patched, entangled>>
Writes(c, what) ==
  /\ clerk[c].what = what
  /\ clerk' = [clerk EXCEPT ![c] = AtEase]
  /\ Wrote(Clerks \ {c}) /\ UNCHANGED requests

Hosts(t) == {e \in Entries : entry[e].template = t}

(* The writes of _bind: all other bindings of the template end.            *)
Rebound(t, e) == [f \in Entries |->
  [entry[f] EXCEPT !.template = IF f = e THEN t ELSE IF f \in Hosts(t) THEN Unbound ELSE @]]

(* The template of a shown entry is replaced without asking for a version. *)
Waive(t, e) ==
  waived' = IF e = Unbound THEN waived
            ELSE IF Shown(e) /\ ~Versioned(t) THEN waived \cup {e} ELSE waived \ {e}

-----------------------------------------------------------------------------
(* Templates.                                                              *)

(* create_template, create_module, ensure_module_template: a template that *)
(* is new has no other host.  The last does nothing if there is one.       *)
CreateTemplate(t, e) ==
  /\ ~Exists(t)
  /\ latest' = [u \in DOMAIN latest \cup {t} |-> IF u = t THEN 0 ELSE latest[u]]
  /\ entry' = IF e = Unbound THEN entry ELSE Rebound(t, e)
  /\ Waive(t, e) /\ patched' = patched \ {e}
  /\ AtOnce /\ UNCHANGED <<started, published>>

(* publish_template, as far as students' new records are concerned.        *)
PublishVersion(t) ==
  /\ Exists(t) /\ latest[t] < MaxVersions
  /\ latest' = [latest EXCEPT ![t] = @ + 1]
  /\ AtOnce /\ UNCHANGED <<entry, started, published, waived, patched>>

(* bind_template.  A host that is published keeps its template.            *)
(* Mutant: the hosts are not looked at.                                    *)
BindTemplateAnyway(c, t, e) ==
  /\ Exists(t)
  /\ EntryReads(c, "bind", e, t, 0)

BindTemplate(c, t, e) ==
  /\ Exists(t)
  /\ \A f \in Hosts(t) \ {e} : ~Shown(f)
  /\ EntryReads(c, "bind", e, t, 0)

EndBindTemplate(c) ==
  LET t == clerk[c].t  e == clerk[c].e IN
  /\ Writes(c, "bind")
  /\ entry' = Rebound(t, e)
  /\ Waive(t, e) /\ patched' = patched \ {e}
  /\ UNCHANGED <<latest, started, published>>

-----------------------------------------------------------------------------
(* Entries.                                                                *)

(* _ensure_module_publishable, or the checks of update_lesson, and then    *)
(* the status is written, and nothing else.                                *)
PublishEntry(c, e) ==
  /\ entry[e].status # "published"
  /\ entry[e].notebook => Usable(e)
  /\ EntryReads(c, "publish", e, Unbound, 0)

EndPublish(c) ==
  /\ Writes(c, "publish")
  /\ entry' = [entry EXCEPT ![clerk[c].e].status = "published"]
  /\ waived' = waived \ {clerk[c].e}
  /\ UNCHANGED <<latest, started, published, patched>>

UnpublishEntry(e) ==
  /\ entry[e].status = "published"
  /\ entry' = [entry EXCEPT ![e].status = "draft"]
  /\ AtOnce /\ UNCHANGED <<latest, started, published, waived, patched>>

(* update_lesson, content_type: a published lesson becomes a Notebook only *)
(* with a template that has a version.                                     *)
ChangeType(e) ==
  /\ e \in Lessons
  /\ ~entry[e].notebook /\ entry[e].status = "published" => Usable(e)
  /\ entry' = [entry EXCEPT ![e].notebook = ~@]
  /\ AtOnce /\ UNCHANGED <<latest, started, published, waived, patched>>

(* patch_module writes template_id as it comes.                            *)
PatchModule(e, t) ==
  /\ e \in Modules /\ t # entry[e].template /\ (t = Unbound \/ Exists(t))
  /\ entry' = [entry EXCEPT ![e].template = t]
  /\ Waive(t, e) /\ patched' = patched \cup {e}
  /\ AtOnce /\ UNCHANGED <<latest, started, published>>

(* update_course to "published": every Notebook lesson, drafts as well.    *)
PublishCourse ==
  /\ ~published /\ \A e \in Lessons : entry[e].notebook => Usable(e)
  /\ published' = TRUE
  /\ AtOnce /\ UNCHANGED <<entry, latest, started, waived, patched>>

-----------------------------------------------------------------------------
(* The student: ensure_record_for_lesson (which does not ask for the       *)
(* lesson's status), ensure_record_for_module.                             *)

Admitted(e) == IF e \in Lessons THEN published ELSE entry[e].status = "published"

StartRecord(c, e) ==
  /\ Admitted(e) /\ started[e] = NotStarted /\ Usable(e)
  /\ EntryReads(c, "start", e, entry[e].template, latest[entry[e].template])

(* uq_record_lesson_student, uq_record_module_student.                     *)
EndStartRecord(c) ==
  LET r == clerk[c] IN
  /\ Writes(c, "start")
  /\ started' = IF started[r.e] = NotStarted
                THEN [started EXCEPT ![r.e] = [template |-> r.t, version |-> r.version]]
                ELSE started
  /\ UNCHANGED <<entry, latest, published, waived, patched>>

Teach(c) ==
  \E e \in Entries :
    \/ PublishEntry(c, e) \/ StartRecord(c, e)
    \/ \E t \in Templates : BindTemplate(c, t, e)

EntryNext ==
  \/ \E c \in Clerks : Teach(c) \/ EndBindTemplate(c) \/ EndPublish(c) \/ EndStartRecord(c)
  \/ \E t \in Templates : PublishVersion(t) \/ \E e \in Entries \cup {Unbound} : CreateTemplate(t, e)
  \/ \E e \in Entries : UnpublishEntry(e) \/ ChangeType(e)
                        \/ \E t \in Templates \cup {Unbound} : PatchModule(e, t)
  \/ PublishCourse

-----------------------------------------------------------------------------
(* What students are shown can be started: binding, rebinding, publishing  *)
(* and changes of type, in any order, leave no published Notebook without  *)
(* a version, except that a template with none may be bound to an entry    *)
(* that is published already, or patched in.  And a template serves one    *)
(* entry, and a student goes on in what was one of its versions.           *)
ShownIsUsable == ~entangled => \A e \in Entries : Shown(e) /\ e \notin waived => Usable(e)
OneHost == \A t \in Templates : Cardinality(Hosts(t) \ patched) <= 1
StartedOnVersion == \A e \in Entries : LET s == started[e] IN
  s # NotStarted => s.version \in 1..latest[s.template]
EntriesSound == ShownIsUsable /\ OneHost /\ StartedOnVersion
=============================================================================
