# Formal models of the DAI experiment platform

TLA+ modules, TLC instances and TLAPS proofs for the platform in `src/` (FastAPI,
SQLAlchemy on MySQL, Redis, Docker workers, and the stores of a Vue frontend where
they hold state). The models are translated from the source; comments, docs and
tests are used only as claims to compare the code with (see *Findings*).

Contents: 1 the system, 2 the modules, 3 the runs, 4 the proofs, 5 findings,
6 what is not modelled and what is left.

## 1. The system

The browser talks to one FastAPI application. Everything slow or unsafe is done
by worker processes: the judge worker runs student code in Docker, the AI worker
asks an external model for the part of the score that tests cannot give, the
builder worker builds environment images. **MySQL is the source of truth; Redis
lists only wake workers up** (`docs/架构设计总览.md`, l. 134). Between two
commits anything may happen: another worker, another API request, a recovery scan
or the death of the process. So the state of the models is the rows, and an
action is a stretch of code between two commits. In the browser the same holds
between a request and its answer.

| Component | State | Operations | Interacts with | What is hard |
|---|---|---|---|---|
| Grading queue `services/judge_queue.py` | `grading_status`, `attempt_count`, timestamps of `Submission`/`ExamAnswer`; Redis list | enqueue, claim, complete, fail, recovery scan | API, judge worker, lease | duplicate and lost wake-ups, overlapping scans, stale tokens after `expire_all` |
| Assignment judging `api/judge.py`, `worker/judge_worker.py` | `Submission.status`, `score`; a worker's ORM session; `CodeGrade` | create, process (legacy, shadow, active), errors | queue, AI queue | unguarded ORM writes after a guarded update, crash between commits, slow runs |
| Task authoring `api/assignments.py`, `api/exams.py`, `services/rubric_service.py` | tasks, questions, AI configuration, rubrics | edit, generate, lock, publish, withdraw, delete | students' first submissions, AI service | three different checks before a write; the AI is called in between |
| Scheduler lease `services/scheduler_lease.py` | `scheduler_leases` row | acquire, renew, take over | every periodic task | a lease that ends before the work does |
| AI grading `services/ai_grading_*.py`, `api/ai_grading.py` | `CodeGrade` (status, scores, review flags); the page's panel | enqueue, claim, grade, complete, fail, recover, teacher's confirm/override/retry | judge worker, exam grading | a result computed from a row read minutes ago |
| Exam grading `services/exam_grading.py` | `ExamSubmission.status`, `score`, `ExamGrade` | finalize, promote, manual grade, retry | judge worker, AI worker, scanner, teacher | a sum over rows that other processes still change |
| Exam taking `services/exam_service.py`, `main.py` | `ExamSubmission`, `ExamAnswer` | start, save, submit, expire, extend | browser, scanner, grading | save racing submit and expiry |
| Environment builds `worker/environment_builder_worker.py`, `services/environment_*` | builds, leases, drafts, versions; names in the Docker daemon and the registry | claim, heartbeat, build, verify, publish, archive, recover, choose | Docker, admin API | lost leases, stale drafts, names shared by attempts |
| Kernel sessions `services/kernel_manager.py` | one Jupyter container per student and lesson, memory of the API, Redis marks | create, execute, restart, destroy, idle cleanup | Docker | execution timeout racing cleanup |
| Authentication `services/auth_service.py`, `frontend/src/api/*` | refresh tokens in Redis, the browser's token, name and cookie | login, refresh, restore, logout | all requests | one-shot refresh tokens and late answers |
| Object storage `services/storage_*`, `storage/` | files, metadata rows, quarantine ledger | upload, bind, retire, reconcile, collect | covers, videos | no common transaction of files and rows |
| Studio and experiments `services/studio_*`, `api/experiments.py`, stores | templates, drafts with revisions, bindings, records | save, run, publish, bind, submit, review | storage, kernel | lost updates, a dirty flag cleared too late or too early |
| Courses, users, audiences `services/roster_service.py`, `services/audience_service.py`, `api/courses.py`, `api/academics.py` | classes, enrolments, visibility, white lists | roster changes and their synchronisation, enrol, drop, settings | every page | one row written by four parties; Python and SQL answer the same question |
| Read models `services/dashboard_service.py`, `services/unified_submission_service.py`, `services/statistics_service.py`, lists in `api/exams.py`, `api/assignments.py` | none (computed) | dashboards, submission centre, lists, grades page, statistics | all rows | the same fact computed in several places |
| Notifications, operations, schema, views | rows, settings | CRUD | - | one transaction per request; not modelled |

The properties that make each component correct: a job has one owner and a
bounded number of runs, a verdict once given is kept, a failure of the platform
never costs the student points, what the student sees agrees with what the queue
did, everything accepted is eventually settled (judging); what a student was
given does not change under them and is graded by the rubric that was shown
(authoring); a settled AI grade has a score or a teacher who must look at it (AI
grading); the total of a graded exam is the sum of its answers and is not computed
before they are final (exam grading); an answer saved is an answer graded (exam
taking); a version gets one image, built from its lock, and what is offered is
accepted and runs (builds); code runs in the kernel and environment of its record,
after the hidden cells (kernels); token, name and cookie are those of one session
(authentication); nothing referenced is deleted and no leak is overlooked
(storage); no accepted edit is lost and the page does not claim what is not stored
(studio and experiments); a decision by hand survives the synchronisation of
classes (courses); two pages never contradict each other (read models).

## 2. Modules

| Module | Models |
|---|---|
| `GradingJob` | Abstract specification: the lifecycle `judge_queue.py` promises for one job, with its attempt counter |
| `JudgeQueue` | The queue's operations as they are: conditional updates, Redis list, lease, four lists of the recovery scan |
| `AssignmentJudge` | `create_submission`, the judge worker and its loop, crash and restart, over `JudgeQueue`; states the properties |
| `AssignmentJudgeInv` | The inductive invariants of `AssignmentJudge` |
| `TaskAuthoring` | How an assignment or exam is written, published, withdrawn, with its questions, AI configuration and rubrics, against the first submissions |
| `ConfigPanel` | The teacher's AI panel, led from question to question with its requests in flight |
| `AIQueue` | The operations of `ai_grading_queue.py` on `CodeGrade.status`, its Redis list and its recovery scan |
| `AIGrading` | The judge that creates a CodeGrade, the AI workers, the teacher's retry, override and regrade, over `AIQueue`; with its inductive invariant `PromptInv` |
| `ExamRows` | The rows of one attempt at an exam, and the two functions that close it (`finalize_if_ready`, `promote_review_required_if_complete`) |
| `ExamTaking` | Start, save, hand in (student, teacher, late request, scan), extension, retry; over `ExamRows` |
| `ExamGrading` | The judge, its recovery, the AI worker, marks by hand, override, regrade; over `ExamTaking` |
| `ExamLifecycle` | Abstract specification: an attempt is handed in once, published in one step, and never goes back |
| `EnvironmentBuild` | Draft, versions, jobs, wake-ups, leases, heartbeat, recovery, publication, archival |
| `EnvironmentCatalog` | Abstract specification: a version gets its image once, and what is published has one |
| `EnvironmentChoice` | What teachers are offered and bind, what then runs and is shown, the administrator's buttons; over `EnvironmentBuild` |
| `ImageBuilder` | What attempts at one version ask of the Docker daemon and the registry, under the names they share |
| `KernelSession` | The kernel of one record: container, the API's memory, Redis marks, overlapping requests |
| `AuthSession` | One browser tab, its refresh cookie, the server's rotation, answers that overtake each other |
| `NotebookEntry` | The lessons and modules, the templates they are bound to, the versions published and the records begun |
| `NotebookRecord` | A student's record in several tabs: edits, serial saves, conflicts, submissions, review |
| `StudioDraft` | A template's draft in several Studio pages: edits, saves, runs, imports, publication |
| `StorageObjects` | The file behind a business row: handlers, metadata, reconciliation, ledger, collector |
| `CourseAccess` | Classes, enrolments, visibility and audiences of one course |
| `ReadModels` | The pages as operators over the rows of one task, compared with each other |
| `MCAssignmentJudge`, `MCAIGrading`, `MCExam`, `MCEnvironment`, `MCChoice` | The instances for TLC |
| `MCGrading` | The judge and the AI grading in one run: `AssignmentJudge` (slow) and `AIGrading` |
| `MCCoursework` | Judging and what surrounds it in one run: `AssignmentJudge`, `TaskAuthoring`, `ConfigPanel`, `NotebookEntry`, `ImageBuilder`, `AuthSession`, `ReadModels` |
| `MCServices` | `KernelSession`, `NotebookRecord`, `StorageObjects`, `StudioDraft`, `CourseAccess` in one run |
| `…Proofs` | See section 4 |

Composition. `AssignmentJudge` works on `JudgeQueue`, `AIGrading` on `AIQueue`,
`ExamGrading` on `ExamTaking` on `ExamRows`, `EnvironmentChoice` on
`EnvironmentBuild`: there the components share rows. The parts put together in
`MCGrading`, `MCCoursework` and `MCServices` share no variable, since the code of one neither
reads nor writes a row of another between two of its own commits; a behaviour
picks one part and the others stand still, so TLC explores the sum of their state
spaces and loses nothing but interleavings of steps that commute.

### How state and actions correspond to the code

Judging:

* `row[j]` is what the conditional updates of `judge_queue.py` read and write.
  `gs = "absent"` is a row that does not exist yet. Timestamps are abstracted to
  two flags: `old` (created more than 60 s ago) and `stale` (the current state
  is older than its threshold: 300 s for `running`, the configured one for
  `queued`). Every transition gives the state a fresh timestamp.
* `queue` is the Redis list. `rpush` appends and `brpop` takes from the same end,
  as in the code. A push may be lost (`MaxFaults`): Redis fails and the exception
  is swallowed, or the process dies between the commit and the push.
* `scan[w]` is a recovery scan in progress: its four `SELECT`s are taken one
  after the other, each row of a list is one conditional `UPDATE` with its own
  commit. `held` records that the session still holds the timestamps the
  `SELECT` read. The first hit of a list calls `expire_all()`, after which
  `job.started_at` in the next `WHERE` clause is loaded from the row again and the
  guard compares the row with itself.
* `result[j]` is `Submission.status` and `score`, written by the ORM. `Flush`
  is SQLAlchemy's rule that a commit writes the attributes that differ from
  what the session loaded; `seen` is what it loaded, `Expired` after
  `expire_all`.
* A worker's program counter names the commit it has reached:
  `popped` (message taken), `claimed`, `judging` (status is `running`),
  `verdict` (result committed), `graded` (`complete_job` done), `hand_over`
  (CodeGrade committed), `fail_system`/`fail_student` (`fail_job` done, ORM write
  to follow), `scanning`, `boot`, `down`.
* `complete_job` and `fail_job` return whether they hit, and their callers
  ignore it: so does the model.
* `Crash` loses the session and the scan of a worker, the row stays as it is.
  `RequestDies` is the API process that dies between its two commits.

AI grading:

* `cg[g]` is what the conditional updates of `ai_grading_queue.py` read and
  write, `sheet[g]` the content of the CodeGrade (functional score, final score,
  review flag), `official[g]` is `Submission.score`.
* An AI worker and a request of a teacher load rows (`seen`), compute, and commit
  the columns that differ from what they loaded (`Written`, `WriteStatus`); the
  worker's computation is a call that takes up to minutes. Program counters:
  `claimed`, `calling` (rows loaded, service asked), `scored` (answer committed),
  `finishing` (rows read again, `completed` to be written). `complete_ai_grade`,
  the guarded way to complete a grade, is imported by the worker and never
  called, so it has no action.
* `Load` is the read and the check of a request, `SaveReset`, `SaveNew` and
  `SaveOverride` its commit, `EnqueueSaved` the enqueueing after it. A regrade
  covers all submissions of a question in one transaction; every run has one
  grade per regrade, where that makes no difference.
* The answer of the service is any score, with or without a need for review, or
  an error that may be retried or not.

Exams: one attempt. A request reads in one transaction, whose view is fixed by its
first `SELECT` (InnoDB, REPEATABLE READ), and writes at its end: it loads into
`seen` and commits in another step. A process that holds the row lock of
`ExamSubmission` is at step `"locked"`, and `ParentFree` says whether another may
write that row. An answer that is queued may be claimed at any time: the wake-ups
are those of `JudgeQueue` and `AIQueue` and are not repeated. `Worth` and `Mark`
are the points, sums are over the questions.

Builds: a worker's name stands for the owner and the lease token of its claim.
`EnvironmentBuild` has the rows; `ImageBuilder` has what the attempts of one
version do to names in the daemon and the registry (temporary tag of a job,
container names of a version, registry tag). "failed" stands for failed and timed
out; "raised" is a job that `run_once` failed after an exception had escaped from
the builder, which goes through the legacy `_fail`. Both routes of the code, `v2`
and `legacy`, are chosen initially. A legacy request to build looks for an active job
and inserts its own in two statements without a lock: `ask[a]` is a request that has
looked and not yet written. A legacy retry does not look at all. `doubled` records
that a legacy job was inserted in the middle of another build of its version. An
attempt of V2 checks its lease before `docker build` and not when the image takes the
temporary tag, so `Makes` does not ask for the lease.

Browser modules: a request is a message that was sent, is handled by the server in
one or two steps, and has an answer that may be lost or come late, in any order.
The n-th edit is the number n, so that "which edits are stored" is a set or a
maximum and nothing more of the text is needed. The dirty flag, the revision, and
the words shown to the user are variables of their own, changed by the handlers
that change them in the stores.

`CourseAccess`, `NotebookEntry`, `TaskAuthoring`: a request reads its snapshot in
one step and commits in another where the code has a check and a write in
different statements without a lock; MySQL lets the later transaction write rows
that changed since, column by column (the ORM writes only what it set to another
value).

`ReadModels`: nothing is cached, every page is computed from the rows. The state is
the rows of one task, the actions are the requests that change them, and every
page is an operator. The start of an exam and the release of its answers look and
write in separate statements: `asking` and `releasing` are requests in between, and
`overtaken` records that one wrote after what it had looked at was no longer so.

Abstracted throughout: code that is run, its output, prompts, texts, scores as
numbers beyond `none`/`zero`/`full` (points are numbers in the exams, where their
sum matters); several causes of one error whose handlers make the same writes are
one action; metrics, logs, and caches nothing reads for a decision.

### Time

The code compares timestamps with thresholds; a model without clocks must say
which processes may be slower than the thresholds. `Slow` is that set (`AISlow` in
`AIGrading`).

* `AssignmentJudge`: `"worker"`: a run may outlive 300 s, or a worker may stall
  between `fail_job` and its ORM write; `"scan"`: a scan may outlive its lease of
  120 s; `"api"`: a request may take more than 60 s between the commit of a
  submission and its enqueueing.
* `AIGrading`: `"worker"` is an AI run that outlives 600 s, or a worker that
  stalls between its two commits; scans are never slow there.
* Exams: `"save"`, `"handin"`, `"scan"`, `"manual"` (a request that others
  overtake between its read and its commit), `"judge"` (a run that recovery takes
  away).

The empty set is the normal operation of the platform (the judge's own timeout is
far below 300 s), the full set is everything the code admits. In the builds a
worker may always stall past its lease, a kernel execution past its timeout; there
the number of such troubles is bounded instead.

## 3. Runs

| Run | Instance | Shows |
|---|---|---|
| `judge_prompt` | 1 shadow submission, 2 workers, 3 attempts, 2 crashes, 1 lost push, 2 wake-ups waiting, `Slow = {}`; and what surrounds judging, each part by itself | `PromptInv`, `SingleOwner`, `AttemptsBounded`, `VerdictKept`, `VerdictFinal`; `GradedAsShown`, `PanelKeepsApart`, `EntriesSound`, `SessionsSound`, `ImageSound`, `PagesSound` |
| `grading` | 1 legacy submission, 2 workers, 2 attempts, 1 lost push, 1 crash, everything slow; beside it 1 active grade, 2 AI workers, 2 scores, 2 attempts, 1 crash, 1 lost push, 1 retry or regrade, no AI actor slow | `SlowInv`, `Refinement` (`GradingJob` is implemented), `OverrunBounded`, `OnlyLateRunsDamage`; `NoGradeForgotten`, `SingleGrader`, `CallsBounded`, `OfficialIsFinal`, `SettledStays` |
| `grading_live` | 1 active submission, 2 slow workers, 1 lost push, 1 crash; beside it 1 active grade, 2 AI workers that may outlive 600 s, 1 attempt, 1 lost push, 1 override; fairness | `EveryGradingEnds`: a submission ends with a verdict or a failure and its grade reaches the AI queue; a grade is completed with a score, or handed to a teacher |
| `stale_failure` | 1 legacy submission, slow workers | `VerdictKept` is violated, see section 5 |
| `override_lost` | 1 grade, 1 override | `OverrideStands` is violated, see section 5 |
| `fresh_reset` | 2 legacy submissions, 2 workers, slow worker and scan, 1 crash | `ResetOnlyStale` is violated, see section 5 |
| `legacy_retry` | 1 version, 3 jobs, legacy, 1 administrator | `DigestFrozen` is violated, see section 5 |
| `exam` | 1 attempt: a choice, a legacy code question, one the AI scores; 2 requests, the scan, 1 worker, saves, hand-ins and scans that others overtake, 1 fault, 1 crash, AI grades reopened | `ScoresAddUp`, `ClosedWhenDone`, `FinishedStays`, `NoHoleInPromotion`, `AttemptLifecycle` (`ExamLifecycle` is implemented) |
| `exam_live` | 1 attempt with an AI question, marks by hand, overrides and regrades, 2 faults, 1 crash, fairness | `AttemptEnds` |
| `builds` | 2 versions, 2 jobs, 2 workers, V2 and legacy, edits and troubles, 2 administrators whose legacy requests may overlap | `BuildsSound`, `ImageFromLock`, `CatalogKept` (`EnvironmentCatalog` is implemented) |
| `builds_live` | 1 version, 2 jobs, 2 workers, 2 troubles, fairness | `BuildEnds` |
| `services` | five services, each by itself | `KernelReady`, `RecordKeepsWord`, `RowsMatchFiles`, `LeaksAreFound`, `DraftsSound`, `RosterSound` |

A property of a component that several hazards bear on is a conjunction of named
parts, each of which has its comment in the module:

| Property | Parts |
|---|---|
| `NoGradeForgotten` | `AITypeOK`, `CompletedIsScored`, `ReviewIsListed` |
| `ScoresAddUp` | `TypeOK`, `TotalIsSum`, `SystemErrorUnscored` |
| `BuildsSound` | `RowsAgree`, `OffersAccepted`, `BindingsHold`, `ButtonsWork` |
| `GradedAsShown` | `FrozenOnceHanded`, `OneLocked`, `RubricsFit` |
| `PanelKeepsApart` | `OwnConfiguration`, `RubricFromShown` |
| `EntriesSound` | `ShownIsUsable`, `OneHost`, `StartedOnVersion` |
| `SessionsSound` | `SessionsApart`, `TokensVoid` |
| `ImageSound` | `BuiltFromLock`, `Runnable`, `NothingLeft` |
| `KernelReady` | `OneRunner`, `OwnEnvironment`, `HiddenFirst` |
| `RecordKeepsWord` | `NothingLost`, `ToldTheTruth` |
| `RowsMatchFiles` | `ReferencedIsThere`, `DeletedIsGone` |
| `DraftsSound` | `DraftsBuildUp`, `PageTellsTruth` |
| `RosterSound` | `RosterKept`, `ListedIsOpen` |
| `PagesSound` | the words, ranges, grades, counts and reports of the pages agree; what is shown is shown alike; answers only after the exam |

### Bounds

Two workers suffice for every race between an owner and a successor, a scan and a
worker, or two scans; two requests, tabs or pages for every race of a read and a
write. Every action of the judging touches one row, so that a second submission
matters only for what rows share, the session of a scan, the order of the list and
the workers; the theorems hold for any number.

* Judging: `MaxAttempts = 2` gives a first run, a retry and exhaustion
  (`judge_prompt` has one more). `MaxCopies` says that a row goes stale while queued
  only when fewer wake-ups of it are waiting: without it the scan would fill the
  list without bound. A crash and a lost push can each be placed anywhere.
  `fresh_reset` has two jobs, since the token of a scan becomes vacuous from the second
  row of a list on; the theorem about `ResetOnlyStale` assumes `Slow = {}`, where no
  fresh run is on a list.
* AI: `MaxRequests` bounds what the teacher asks for. With two requests at once, or
  with an override, `SingleGrader` no longer holds (section 5). `MaxCalls` stops the
  ageing of a running grade after that many attempts; it is above what
  `MaxAIAttempts` and the crashes reach, so that it binds only where slow workers
  would be overtaken for ever.
* Exams: `MaxSaves`, `MaxRequests`, `MaxFaults` and `MaxCrashes` count saves, what
  teacher and student ask for, failed judges and deaths; each can be placed at any
  step.
* Builds: `Admins` who send legacy requests at the same time, `MaxEdits`, `MaxTroubles` per mode and `MaxSpent` for both together: three
  edits and troubles in all, in legacy mode one of each (`builds`), two troubles in
  `builds_live`; `legacy_retry` has three jobs: one that fails, the next one, and a retry of the
  first.
* Kernel: `MaxTimeouts`, `MaxRestarts`, `MaxCrashes` (of the container),
  `MaxDeaths` (of the API). Record: `MaxEdits`, `MaxSubmits`, `MaxTroubles` and a joint
  bound `MaxEvents`. Storage: two handlers, two keys, and `MaxFuss` failures. Studio:
  `MaxChanges`, `MaxStudioClicks`, `MaxUnheard` (lost answers). Courses: `MaxRoster`
  requests on the roster, `MaxSettings` changes of visibility and audience. Three
  requests are an overlap of two and a later one that meets what they left.
* Session: `MaxTokens` tokens, `MaxClicks`, `MaxDrops`, `MaxBumps` with a joint bound
  `MaxUsed`. Authoring: `MaxAsked` requests, enough to write, generate, lock, publish,
  hand out and try to change. Panel: `MaxSelects`, `MaxTyped`, `MaxPosted`. Entries:
  `MaxVersions`, `MaxRequests`. Image: `MaxUpsets` (stalls, deaths, failures). Pages:
  three moments of time, one student in the class and one outside, one submission
  per student and exercise.

Symmetry of workers, requests, keys and the like is used only in runs without
liveness. In `MCGrading`, `MCCoursework` and `MCServices` only one part moves, so the
permutations of one part need not be combined with those of another.

Deadlock is not checked where the system really stops: when the bounds are used up
and everything is settled.

### Fairness

* `grading_live`, the judge (`FairJudge`): each worker process that can take a step takes one (it is an endless
  loop, and the supervisor of the deployment restarts it: `restart:
  unless-stopped`), the clock advances, an API request that has committed its row
  goes on to enqueue it. New submissions, crashes, lost pushes and the outcome of a
  run are never required. Weak fairness of a worker's whole step is enough, since no
  step of a worker is disabled by another worker for ever.
* `grading_live`, the AI (`FairAI`): the same of the AI workers, the scan and the requests
  that have been made; that a teacher makes a request is never required. Each of the
  two is assumed of the part that moves.
* `exam_live`: requests that have begun end, workers and the scanner go on, time
  runs out. The scan's steps and the claims have strong fairness: others may hold
  the row or the answer for a while, again and again, and the scan comes round every
  few seconds for ever.
* `builds_live`: a builder goes on with its job, leases lapse when their holder is
  gone, and the recovery, whose lock others may hold for a while, has strong
  fairness since it is run in every round of the loop.

## 4. Proofs

Eight modules hold theorems, for every value of the constants that their
assumptions in the modules admit. `PROJECT.json` lists the results; the lemmas
they rest on are one per action or group of actions, each with one step for every
conjunct the action can disturb.

| Module | About | Needs | Proves |
|---|---|---|---|
| `AssignmentJudgeProofs` | judging, however slow | nothing (`OverrunBounded`: finitely many workers) | `TypeOK`, `Refinement`, `SlowInv`, `OverrunBounded`, `OnlyLateRunsDamage` |
| the same | judging, when nobody is overtaken | `Slow = {}` | `PromptInv`, `SingleOwner`, `AttemptsBounded`, `VerdictKept`, `VerdictFinal`, `ResetOnlyStale` |
| `AIGradingProofs` | AI grading | type: nothing; else `Prompt` | type correctness, `PromptInv`, `SingleGrader`, `CallsBounded`, `OfficialIsFinal`, `NoGradeForgotten`, `SettledStays` |
| `ExamProofs` | one attempt | type, `FinishedStays`: nothing; `AttemptLifecycle`: `Attended`; else `Undisturbed` | `TypeOK`, `FinishedStays`, `ScoresAddUp`, `ClosedWhenDone`, `NoHoleInPromotion`, `AttemptLifecycle` |
| `EnvironmentProofs` | builds and the choice of versions | nothing | `ImageFromLock`, `CatalogKept`, `BuildsSound` |
| `StorageProofs` | files and rows; the image of a version; a student's record; a template's draft | nothing | `RowsMatchFiles`, `LeaksAreFound`, `ImageSound`, `RecordKeepsWord`, `DraftsSound` |
| `AccessProofs` | rosters, entries, sessions, kernels | `SessionsSound`: `Navigate = FALSE`; else nothing | `RosterSound`, `EntriesSound`, `TokensVoid`, `SessionsSound`, `KernelReady` |
| `CourseworkProofs` | authoring, the panel of the AI configuration, the pages | nothing | `GradedAsShown`, `PanelKeepsApart`, `PagesSound` |
| `SumProofs` | sums and counts over finite sets, as the community modules fold them | nothing | lemmas for `ExamProofs` and `CourseworkProofs` |

The assumptions:

* `Prompt` (AI): `AISlow = {}`, no override, one request at a time. Each is needed:
  with a slow worker or an override a result replaces another (`override_lost`),
  and two requests at once let two workers grade one answer.
* `Undisturbed` (exams): no judge is overtaken by recovery, and of the teacher's
  interventions only the reopening of an AI grade. A mark by hand or an override
  after the grading changes an answer's points and not the total, so that
  `ScoresAddUp` is false then (section 5).
* `Attended` (exams): a mark by hand is not overtaken between its read and its
  commit. Everything else may be.
* `Navigate = FALSE` (sessions): the page starts no restore while a login or a logout
  is under way, as the run has it too; with `TRUE` two sessions may be mixed
  (section 5). That a token once void stays so (`TokensVoid`) needs no assumption.

Where a property has an exception of its own, for requests that overlap between a
check and a write without a lock, the exception is a named variable of the model
(`crossed`, `entangled`, `slips`, `hasty`, `mixed`, `littered`, `met`, `overlap`,
`doubled`, `overtaken`) and the theorem has no other.

Along which argument:

* **Judging, slow.** `TypeOK` alone is not inductive, since `complete_job` writes the
  score the worker's session holds; `Loaded` says that the session of an owner
  holds a real row. A scan tests `attempt_count` when it lists a row and not when
  it gives it up, so the step `Exhaust` maps to the abstract one only because of
  `Exhaustible`: attempts of a listed row never decrease. The refinement mapping
  forgets everything but `gs` and `attempt`. For `OverrunBounded` every attempt above
  `MaxAttempts` is paid for by a worker whose scan has listed the row before: the
  `Budget` of a row is the number of workers that may still do so. What a late actor
  can still do to a completed submission follows from the same invariant
  (`LateOnly`): the conditional updates miss it, so that only the ORM write of a run
  that was overtaken and still believes itself the owner is left.
* **Judging, prompt.** `ViewsAgree` is the reason the unguarded writes do no harm: a
  request not yet enqueued is the first to move its row (`RequestFirst`), one scan at
  a time (`OneScanner`), a listed row still is what it was listed as (`ListsHold`),
  an owner's row is running and not overdue (`OwnersRun`), and its session holds the
  current values (`SessionsCurrent`).
* **AI grading.** The same idea with one more actor: `OwnerAlone`, `SessionsCurrent`
  and `RequestsCurrent` say that what workers and requests have loaded is what the
  rows hold; `AttemptsCounted` and `CompletedInForce` tie the status to the sheet.
* **Exams.** `BaseInv` (types, rows are real, nothing is graded before it is handed
  in) needs no assumption, and gives `FinishedStays`. The total is a sum over
  answers that others still write: `Settled` says that an answer counted by a closer
  is final, and `StillStep` that no step changes a settled answer, so that the sum
  computed under the lock is the sum at the commit. `PointsLast`, `Judges`,
  `Graders`, `Locks`, `Promotions` and `Published` are the parts of the invariant;
  sums over a set of questions are handled by the lemmas of `SumProofs`. The refinement of
  `ExamLifecycle` rests on `Closers`: whoever holds the lock and is about to
  publish still finds the attempt in grading.
* **Builds.** A version that shows an active build has exactly one active job of its
  own (`JobsReal`, `OneActive`), its draft knows it (`DraftKnows`), a worker that
  still holds its lease knows the current state (`WorkersKnow`), a lock once resolved
  is kept (`LocksKept`), and a recovery in progress works on rows that cannot move
  (`RecoveriesHold`). `ImagesKept` and `PublishedKept` carry the refinement of the
  catalogue. All of it holds until a legacy request is granted in the middle of another
  build (`doubled`), which a V2 profile never sees: it has no such request. For the choice, `BoundKept` says that what was bound keeps its image.
* **Storage.** `Uploads`: a file being written is nobody else's; `Retirements`: a
  handler retires a key the business row no longer names; `Collections`: the
  collector works on a key that cannot be used again; `Audits`: a scan in progress
  will account for every file that nobody referred to when it began.
* **Images.** Attempts share names in the daemon and the registry, so that in general
  an attempt does not find what it put there. What holds however they overlap needs
  no names: only the holder of the lease stores a lock, and an attempt builds from the stored
  lock whether or not it still has the lease, so that everything was built from it
  (`Locks`), and what is about to be published was pushed (`InRegistry`). The
  rest holds until two attempts are at work at once (`mixed`): then `Alone` follows
  the image of the one attempt from step to step (`Progress`). `Tidied`: whose image
  has a temporary tag is still at work and will remove it, or has made the version
  available.
* **Records.** That attempts are dense, that identifiers stay apart and that a page
  that has heard every answer has the row's revision (`Told`) needs no exception: a
  conflict is then somebody else's. The rest (`Undivided`) holds until two handlers
  overlap on the row (`overlap`). What a handler has read is what it will overwrite,
  so that the row's text of a cell only grows (`Served`); what a page takes for saved
  is stored, and what it has changed is newer than what it saw at its revision
  (`Kept`); and a page whose submission was carried out without its hearing of it is
  behind the row, so that it can save nothing more, and the submission it repeats
  under the same identifier has all that the page may show (`Twin`).
* **Drafts.** `StudioInv`: what a page shows, and what a request carries, is a
  revision that was stored or was built on one (`DeskRight`, `CallRight`); between
  imports the revisions only grow (`OnlyGrows`); a version is a copy of the revision
  it was made of (`VersionRight`); and a change its page still owes (`Owed`) is in
  what the page shows, in the save on its way, and in the draft once that is stored,
  unless an import has dropped it (`HasOrDropped`). Changes are numbered as they are
  made, so that a new one is nowhere yet (`AllDated`). The invariant holds for every
  order of requests and lost answers; the checker went through it on a larger
  instance than the run's (17 million states) before it was proved.
* **Courses.** A request that has read and not yet written carries what it will
  leave behind; the invariant says that this is good as well (`AllPrepared`), as long
  as no second request has overlapped it (`crossed` in the model records that one
  has). `RosterSound` itself has this exception, and needs no further one.
* **Entries.** `Asked`: what a request has read exists, and stays; `Apart`: a template
  that was not patched in (`patch_module` makes no check) serves one entry. That a
  published entry can be started (`ShownUsable`) and that a request still finds what
  it has checked (`StillSo`) hold as long as no request wrote while another was under
  way (`entangled`); entries that were bound or patched, while published, to a
  template without a version are `waived`.
* **Sessions.** The server: of a chain of tokens one is live, or one refresh is about
  to issue the next (`Chains`). The page: a login is heard alone, refreshes only in a
  session, restores only out of one, logouts only after it was left (`Listening`); a
  new token is nowhere but in the answer that brings it (`Unseen`); after a logout
  a cookie that is still good is about to be revoked (`Leaving`); and in a session
  with no lost answer the cookie came with the access token, and no request but the
  session's own refresh can use it up (`InSession`).
* **Kernels.** `RunnersLocked`: who runs code has the lock, whose 60 s run out only
  for one who rebuilds after a timeout or is dead. The rest (`Orderly`) holds while at
  most one request is in progress: what memory and Redis say of a container that runs
  is so, except between `docker run` and the records (`MemoryRight`); a container is
  created after its predecessor's records are gone, and in the record's environment
  unless a timeout or a restart forgot it, and then no code follows (`Creating`);
  who is past the choice of a kernel finds it in that environment, and past the
  hidden cells finds that they ran (`Executing`). The mark of a container that died
  by itself is the one that is believed wrongly (section 5): `mishaps.deaths = 0` is
  in the property.
* **Authoring.** `TaskInv`: the rubrics of a question are numbered without a gap and a
  lock replaces the other versions; who has begun an exam keeps it published; and,
  unless a request was overtaken between its check and its write, what was handed
  out is what the question still is and one rubric is in force for it.
* **Panel.** `PInv`: one load is on its way at most, what is stored or being stored is
  what was shown when the teacher asked for it, and configurations are numbered as
  they are stored, so that an answer can be placed before or after a save.
* **Pages.** A page is an operator over the rows, so that the theorem is about
  operators: lemmas give the clause a `CASE` of SQL takes (`FourClauses`), the parts a
  list is divided into and their number (`FourParts`), and the sum of the counts of a
  list of rows. The words are compared clause by clause, the numbers of students by
  parts of the range. Three of the comparisons fail for rows that nobody can
  produce, and `PageInv` says which cannot: a completed submission has run, a
  published exam shows no answers without its questions, and when the answers are out
  the end is past and nobody sits the exam (`OverWhenReleased`), unless a start or a
  release wrote after it was `overtaken`. `PagesAssumption`:
  there are finitely many students and questions, and at least one question: none can
  be removed from a published assignment, and one without any is not published.

What stays with TLC:

* liveness (`EveryGradingEnds`, `AttemptEnds`, `BuildEnds`): fairness and ENABLED are out of the prover's reach;
* what a recursive definition computes for every input, since the induction theorems
  of the library are out of the provers' reach. Of the folds of the community
  modules, `SumProofs` shows what the models need by the smallest set for which it
  would not hold.
## 5. Findings

Four runs end in a counterexample of a promise the repository makes:

1. **A late failure replaces a verdict** (`stale_failure`). `fail_job` is guarded
   as its docstring says (`judge_queue.py:197-198`), but the worker then writes
   `status` and `score` without looking at the outcome (`judge_worker.py:370-377`).
2. **An override is lost** (`override_lost`). The answer of a running AI call is
   written over the score a teacher has set meanwhile
   (`ai_grading_service.py:152`, against "教师始终保留复核与覆盖权限").
3. **A fresh run is reset** (`fresh_reset`). `expire_all()` (`judge_queue.py:388`)
   makes the token of the compare-and-swap (`judge_queue.py:377`) vacuous from the second
   row of a list on: a run that was claimed after the `SELECT` is given back to the
   queue, against the comment at `judge_queue.py:361`.
4. **The digest of an available version is replaced** (`legacy_retry`).
   `retry_build_job` (`environment_service.py:533`) does not look for an active job: after a
   new job and a retry of the failed one, two jobs of one legacy version build at once and the later writes its digest over that
   of a version already available, against `models/__init__.py:1338`.

While modelling, the code was found to differ from what was expected of it in the
places below. The passing runs leave them out by the named constant or exception;
they have no run of their own.

Judging and AI grading

* `status` stays `running` when the worker dies between `fail_job` and the ORM write;
  the scan does not look at `system_error` rows.
* No CodeGrade when the worker dies, or the database fails, between `complete_job`
  and the commit of the grade (`judge_worker.py:553`).
* The AI queue's recovery loses its token as the judge's does (`fresh_reset`), there
  after a missed row.
* `complete_job` misses when recovery has taken the job away from a slow run, and in
  the modes with an AI the worker still creates the CodeGrade of its own result
  (`judge_worker.py:551`).
* The limit that the comment at `judge_queue.py:273` places in the compare-and-swap
  is tested only in the `SELECT`, so that slow scans overrun `MAX_ATTEMPTS`, by at
  most the number of workers (`OverrunBounded`).
* A regrade joins a running one: after an override, or after two requests at once, a
  run goes on under the status `completed`, and the test that skips gradings in
  progress looks at the status only (`ai_grading.py:922`).
* A regrade creates the CodeGrade of a submission not yet judged, with a functional
  score of 0 that stays.

Exams

* `TotalIsSum` fails after an override of a graded attempt (`ai_grading.py:876`) and
  after two marks by hand at once (`exams.py:1226`).
* An attempt may go under review between the judge's two commits
  (`judge_worker.py:862`), which mends itself when the AI's answer arrives.

Builds

* `create_build_job` looks for an active job and inserts its own in two statements
  without a lock (`environment_service.py:248-272`), so that two administrators may
  start two builds of one version (`doubled`), with the consequences of `legacy_retry`.
* An exception that escapes from `process_v2_build` leaves the draft at `building`
  (`environment_builder_worker.py:954`); `mark_build_failed` and `archive_profile`
  have no callers.
* The retry button of an archived profile is not withdrawn; `can_build` is offered
  for an unchanged draft which the request refuses (`NO_ENVIRONMENT_CHANGES`); an
  archived profile "basic" still is the default of new tasks; in legacy mode the
  version a task is bound to is not shown without a publication, and only the latest
  is offered although any available one is accepted.
* `ImageBuilder`: the clean-up of a stale worker removes the temporary tag or image
  of the next attempt; a container of a killed worker keeps its name and makes the
  next attempt fail; after a take-over the registry's tag may publish another image
  than the one that was validated; a build timeout removes the tag, whosever it is.

Kernels and records

* A container that dies by itself keeps the mark `kernel:init`, and the hidden cells
  never run in the next one (against the docstring of `_init_hidden_cells_once`);
  a rebuild after a timeout forgets the environment; requests that overlap during
  creation, and a hidden cell that finds the kernel busy, destroy each other's
  kernel; `recover_from_docker` has no callers.
* The page never takes over `record_revision` from a submission: the next save is a
  false conflict until it is reloaded, as after a lost answer to a save; `save_cells`
  checks and writes in two statements; the retry path of a submission overwrites
  the status `graded`; a lost answer to a submission with a save in between confirms
  the older snapshot.

Studio and entries

* `saveDraft` shows as saved what was typed while the save was in flight, and loses
  it; edits of Markdown through `handleMarkdownEdit` (`StudioEditor.vue:485-495`) do
  not set the dirty flag; Run is not disabled while saving; an answer for one
  template that arrives after the page moved to another is written into it.
* A template without a version can be bound to a published entry (against the
  comment in `_bind`); `patch_module` sets `template_id` without any check;
  `_check_lesson_access` does not look at `lesson.status`.

Storage

* `with_for_update` does not refresh a loaded course or lesson (against
  `course_covers.py:65-66`): of two uploads at once one file is orphaned, and only
  the reconciliation finds it, which, like the collector, has no caller; an
  `UNTRACKED` finding of a key that is referenced again is retried for ever.

Sessions

* Two tabs that refresh with one cookie: the second 401 logs out both. A page left
  and restored while a login or logout is in flight (`Navigate = TRUE`) may mix two
  sessions. A server that dies between `GETDEL` and the new token logs the user out.

Courses and audiences

* Roster transactions that overlap miss each other, and may drop a student a teacher
  adds at that moment (against the docstring of `roster_service`).
* `POST enroll` turns an enrolment by class into one of the student's own, which may
  then be dropped (against "班级统一加入的课程不能自行退选"); the import of a student
  enrolled by class does not make the enrolment manual.
* A student included by name, or by a selected class, without being enrolled may
  start an exam that `get_exam`, `put_answer` and `my_grade` then refuse (against
  `exams.py:74-75`); `submit_exam` refuses a student removed during the exam;
  `import_audience` can put a student on both lists, and passes the lock for students
  who have begun; the assignment of an archived course can be opened and is not
  listed; `is_student_in_course_class` counts archived classes.

Authoring and the panel

* Edits of a task check and write in different statements, so that one may pass a
  publication or a first submission; the exam's AI configuration is not guarded
  after publication; the publication of an exam does not compare the hash of its
  rubrics; the deletion of an exam question with a rubric fails at a foreign key;
  `delete_assignment` racing a submission deletes it.
* `load()` of the panel ignores `requestSeq`; the answer to a save marks newer edits as
  saved; the autosave before a generation asks for the question shown by then; a
  late rubric is listed under another question.

Pages

* The branch for white lists in `visible_condition` does not require `published`: the
  dashboard lists a draft to a student on the white list
  (`audience_service.py:257-264`, against `assignments.py:449`).
* `update_exam` lets `end_at` move after the release of the answers.
* The start of an exam checks and writes in separate statements (`exams.py:554-561`), and
  so does the release of its answers (`exam_service.py:688`): an attempt may begin after
  a withdrawal or a release, and answers may come out after the end was moved or while
  somebody has just begun (`overtaken`).
* A review without a score sets `reviewed_at` and not `score`: gone from the queue of
  the dashboard, `pending_grading` in the submission centre for ever.
* A submission the judge broke down on and that was queued again is "pending" in the
  counts and "failed" in the list.
* `_teacher_pending_exam_release_rows` tests `in_progress`, a status no attempt has.
* An exam under review is still "upcoming"; an attempt in progress past `end_at` is
  not in the to-do list; `_submitted_ids` has no callers.
* `expected_count` of the statistics counts fewer students than the grades page; the
  feedback of the dashboard shows scores of exams without
  `show_score_after_grading`; submissions of module notebooks never appear on the
  teacher's dashboard; the filter "ended" uses `end_at < now` where the status
  "missed" uses `now >= end_at`.

## 6. Not modelled, and what is left

Not modelled: pure I/O (HTTP to the AI service, Docker's own behaviour, file
formats, S3), generated data, schema, notifications and settings written in one
transaction, presentation, rate limits, the score arithmetic of the deterministic
scorer, ordering and paging of lists. `PROJECT.json` lists each part with its reason.
The limit of submissions per student and question (`judge.py:94`, count and insert
in two statements) has no property: its life is longer than one submission.

Left:

1. `SchedulerLease`: the first insertion, its races, renewal.
2. The score arithmetic as operators against reference definitions.
