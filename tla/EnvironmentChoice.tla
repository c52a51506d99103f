------------------------- MODULE EnvironmentChoice -------------------------
(***************************************************************************)
(* What is made of the versions of the profile: which of them a teacher is *)
(* offered and may bind a task to, what runs for a bound task and what its *)
(* students read of it (environment_service, the second half of            *)
(* environment_editor_service), and the buttons of the administrator's     *)
(* page (_v2_capabilities).  All of it is computed from the rows of        *)
(* EnvironmentBuild; what is asked at the binding is asked in other words  *)
(* at the publication, at the run and on every page.                       *)
(***************************************************************************)
EXTENDS EnvironmentBuild

VARIABLE bound \* the versions some task was bound to

choiceVars == <<vars, bound>>

Usable(v) == ver[v].status = "available" /\ ver[v].image # NoLock

\* What runs, for a binding however old: the image, or a refusal.
Runnable(v) == Usable(v)
RunImage(v) == IF Runnable(v) THEN ver[v].image ELSE NoLock

\* What a new binding may be.
Selectable(v) ==
  /\ Usable(v) /\ profile.status = "active"
  /\ mode = "v2" => profile.current # 0
  /\ profile.current # 0 => profile.current = v

\* A new task whose author does not choose gets this version, or 0.
LatestUsable == LET usable == {v \in Versions : ver[v].status = "available"}
                IN  IF usable = {} THEN 0 ELSE CHOOSE v \in usable : \A u \in usable : u <= v

CurrentAvailable ==
  IF profile.current # 0 THEN IF Usable(profile.current) THEN profile.current ELSE 0
  ELSE IF mode = "v2" THEN 0 ELSE LatestUsable

\* The teacher's picker, in either mode.
Options == IF profile.status = "active" /\ CurrentAvailable # 0 THEN {CurrentAvailable} ELSE {}
CurrentOptions ==
  {v \in Versions : profile.status = "active" /\ profile.current = v /\ Usable(v)}
Offered == IF mode = "v2" THEN CurrentOptions ELSE Options

\* The packages a version is shown with: those of its image, where there is a lock.
Packages(v) == IF mode = "v2" THEN ver[v].lock ELSE ver[v].image

\* A task may be published with its own version and that of a question.
MayIssue(own, other) == Runnable(own) /\ Runnable(other)

\* What its students read of the version, and its teacher when it is no longer offered.
Summary(v) == IF Usable(v) THEN Packages(v) ELSE NoLock
OptionOf(v) == IF Usable(v) /\ v \in bound /\ ver[v].published THEN Packages(v) ELSE NoLock

-----------------------------------------------------------------------------
(* The administrator's page.                                                *)

CandidateJob == IF draft.cand = 0 \/ JobsOf(draft.cand) = {} THEN 0 ELSE LatestJob(draft.cand)

CanRetryBuild(j) ==
  /\ j # 0 /\ job[j].status \in Failed /\ ver[job[j].ver].status # "available"
  /\ draft.state = "failed" /\ draft.cand = job[j].ver
  /\ draft.job # 0 => job[draft.job].status \notin Active
  /\ LatestJob(job[j].ver) = j /\ draft.spec = ver[job[j].ver].spec

Buttons ==
  LET active == profile.status = "active"
      busy == DraftBusy
      has == draft.state # "none"
  IN  [create   |-> active /\ ~has,
       edit     |-> active /\ has /\ ~busy,
       build    |-> active /\ has /\ ~busy /\ draft.state \in {"editing", "failed"},
       retry    |-> CanRetryBuild(CandidateJob),
       publish  |-> active /\ has /\ draft.cand # 0 /\ Usable(draft.cand) /\ ~busy,
       rollback |-> /\ active /\ ~has /\ profile.current # 0
                    /\ \E v \in Versions \ {profile.current} : Usable(v) /\ ver[v].published,
       archive  |-> active /\ ~busy,
       restore  |-> ~active /\ ~busy]

-----------------------------------------------------------------------------
(* Teachers bind whatever they are offered or given, as soon as they can.   *)

Given == {v \in Versions : Selectable(v) \/ v = CurrentAvailable}

ChoiceInit == Init /\ bound = {}

ChoiceNext == Next /\ bound' = bound \cup Given'

ChoiceSpec == ChoiceInit /\ [][ChoiceNext]_choiceVars

-----------------------------------------------------------------------------
(* What the picker offers is accepted, and in V2 nothing else is; whoever  *)
(* does not choose gets what others are offered, or the last one that was  *)
(* offered when the profile has been archived.                             *)
OffersAccepted ==
  /\ \A v \in Offered : Selectable(v)
  /\ mode = "v2" => \A v \in Versions : Selectable(v) => v \in Offered
  /\ CurrentAvailable # 0 /\ profile.status = "active" => Offered = {CurrentAvailable}
  /\ CurrentAvailable # 0 => CurrentAvailable \in bound

(* "A historical binding needs its image only" (require_runnable_version): *)
(* once a task is bound, its publication, its runs and its pages go on     *)
(* through every later build, publication, rollback and archiving, and the *)
(* packages shown are those of the image that runs.                        *)
BindingsHold ==
  \A v \in bound : /\ RunImage(v) # NoLock /\ \A u \in bound : MayIssue(v, u)
                   /\ Summary(v) = RunImage(v)
                   /\ mode = "v2" => OptionOf(v) = Summary(v)

(* A button of the page is live exactly when its request would be accepted;*)
(* an unchanged draft may be sent to be built, and is then refused.        *)
ButtonsWork ==
  mode = "v2" =>
    /\ Buttons.create <=> MayCreateDraft
    /\ Buttons.edit <=> profile.status = "active" /\ MayEditDraft
    /\ Buttons.build /\ ~NothingNew <=> MayBuild
    /\ \A j \in Jobs : MayRetry(j) <=> Buttons.retry /\ j = CandidateJob
    /\ Buttons.publish <=> draft.cand # 0 /\ MayPublish(draft.cand)
    /\ Buttons.rollback <=> draft.state = "none" /\ \E v \in Versions \ {profile.current} : MayPublish(v)
    /\ (Buttons.archive <=> MayArchive("inactive")) /\ (Buttons.restore <=> MayArchive("active"))

(* The rows of a build, the choices and the pages made of them agree, until*)
(* a legacy request is granted in the middle of another build.             *)
BuildsSound == doubled \/ (RowsAgree /\ OffersAccepted /\ BindingsHold /\ ButtonsWork)
=============================================================================
