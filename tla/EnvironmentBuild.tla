-------------------------- MODULE EnvironmentBuild --------------------------
(***************************************************************************)
(* The versions of one environment profile: the administrator's draft,     *)
(* the versions snapshot from it, the build jobs, the Redis list that only *)
(* wakes a worker, and the build workers with their leases                 *)
(* (worker/environment_builder_worker.py, services/environment_service.py, *)
(* services/environment_editor_service.py).                                *)
(*                                                                         *)
(* A worker has one claim at a time, so its name stands for the owner and  *)
(* the lease token of the claim.  "failed" stands for failed and timed_out *)
(* jobs, which every reader treats alike; "raised" is a failed job that    *)
(* run_once failed after an exception had escaped from the builder.        *)
(***************************************************************************)
EXTENDS Integers, Sequences, FiniteSets, SequencesExt

CONSTANTS Workers,
          Versions, Jobs, \* rows that may be created, 1..n each
          Specs, NoSpec,  \* what a draft may ask for; the empty specification
          Locks, NoLock,  \* what the resolver may answer
          Modes,          \* "v2": environment_editor_v2_enabled; "legacy"
          Admins,         \* who may send legacy requests at the same time
          MaxEdits, MaxTroubles, MaxSpent \* bounds of either mode, and of both together

ASSUME BuildAssumption ==
  /\ {Cardinality(Versions), Cardinality(Jobs)} \subseteq Nat
  /\ Versions = 1..Cardinality(Versions) /\ Jobs = 1..Cardinality(Jobs)
  /\ NoSpec \in Specs /\ NoLock \notin Locks
  /\ Modes \subseteq {"v2", "legacy"}
  /\ {MaxEdits, MaxTroubles, MaxSpent} \subseteq [{"v2", "legacy"} -> Nat]

VARIABLES mode,    \* the setting, fixed
          profile, \* status, current (current_version_id)
          draft,   \* state ("none": no row), spec, cand, job, source
          ver,     \* ver[v]: status, spec, lock, image, published
          job,     \* job[j]: status, ver, token, lapsed (lease_until has passed)
          wake,    \* the list of version ids
          push,    \* a version whose committed job is not pushed yet
          tag,     \* tag[j]: what the temporary image of the job holds
          wk,      \* wk[w]: what a worker is doing
          ask,     \* ask[a]: the version of the legacy request that a has had checked,
           \*          and whether it was queued when the session loaded it
          doubled, \* a legacy request was granted in the middle of another build
          spent    \* how much of each bound has been used

rows == <<profile, draft, ver, job>>
vars == <<mode, ask, doubled, profile, draft, ver, job, wake, push, tag, wk, spent>>

NoDraft == [state |-> "none", spec |-> NoSpec, cand |-> 0, job |-> 0, source |-> 0]
NoVersion == [status |-> "none", spec |-> NoSpec, lock |-> NoLock, image |-> NoLock, published |-> FALSE]
NoJob == [status |-> "none", ver |-> 0, token |-> "none", lapsed |-> FALSE]
NoAsk == [ver |-> 0, queued |-> FALSE]
Idle == [pc |-> "idle", job |-> 0, lock |-> NoLock, seen |-> "none", requeue |-> {}, expire |-> {}]

Init == /\ mode \in Modes
        /\ profile = [status |-> "active", current |-> 0]
        /\ draft = IF mode = "v2" THEN [NoDraft EXCEPT !.state = "editing"] ELSE NoDraft
        /\ ver = [v \in Versions |-> NoVersion] /\ job = [j \in Jobs |-> NoJob]
        /\ wake = <<>> /\ push = 0 /\ tag = [j \in Jobs |-> NoLock]
        /\ wk = [w \in Workers |-> Idle]
        /\ ask = [a \in Admins |-> NoAsk] /\ doubled = FALSE
        /\ spent = [edits |-> 0, troubles |-> 0]

Spend(what, max) ==
  /\ spent[what] < max /\ spent.edits + spent.troubles < MaxSpent[mode]
  /\ spent' = [spent EXCEPT ![what] = @ + 1]

Active == {"queued", "building"}
Failed == {"failed", "raised"}
Frozen == {"available", "inactive"}
JobsOf(v) == {j \in Jobs : job[j].ver = v}
ActiveJobs(v) == {j \in JobsOf(v) : job[j].status \in Active}
LatestJob(v) == CHOOSE j \in JobsOf(v) : \A k \in JobsOf(v) : k <= j
NextJob(j) == job[j].status = "none" /\ \A k \in Jobs : job[k].status = "none" => j <= k
NextVersion(v) == ver[v].status = "none" /\ \A u \in Versions : ver[u].status = "none" => v <= u

(* A recovery holds the rows it has updated until it commits.              *)
RowFree(j) == \A w \in Workers : j \notin wk[w].requeue \cup wk[w].expire
Owns(w) == LET j == wk[w].job IN RowFree(j) /\ job[j].status = "building" /\ job[j].token = w

-----------------------------------------------------------------------------
(* The administrator.  Every v2 request locks the profile and the draft.   *)

DraftBusy == \/ draft.state = "building"
             \/ draft.job # 0 /\ job[draft.job].status \in Active

MayCreateDraft == mode = "v2" /\ profile.status = "active" /\ draft.state = "none"
MayEditDraft == draft.state # "none" /\ ~DraftBusy
MayArchive(status) == ~DraftBusy /\ profile.status # status

CreateDraft ==
  /\ MayCreateDraft
  /\ draft' = [NoDraft EXCEPT !.state = "editing", !.source = profile.current,
                              !.spec = IF profile.current = 0 THEN NoSpec ELSE ver[profile.current].spec]
  /\ UNCHANGED <<mode, ask, doubled, profile, ver, job, wake, push, tag, wk, spent>>

SaveDraft(spec) ==
  /\ MayEditDraft /\ draft.spec # spec
  /\ Spend("edits", MaxEdits[mode])
  /\ draft' = [draft EXCEPT !.spec = spec, !.state = "editing", !.cand = 0, !.job = 0]
  /\ UNCHANGED <<mode, ask, doubled, profile, ver, job, wake, push, tag, wk>>

AbandonDraft ==
  /\ MayEditDraft
  /\ Spend("edits", MaxEdits[mode])
  /\ draft' = NoDraft
  /\ UNCHANGED <<mode, ask, doubled, profile, ver, job, wake, push, tag, wk>>

(* A job for version v, whose row becomes row; the push follows the commit.*)
NewAttempt(j, v, row, status) ==
  /\ NextJob(j) /\ push = 0
  /\ job' = [job EXCEPT ![j] = [NoJob EXCEPT !.status = "queued", !.ver = v]]
  /\ ver' = [ver EXCEPT ![v] = [row EXCEPT !.status = status]]
  /\ push' = v

DraftAttempt(j, v) == draft' = [draft EXCEPT !.cand = v, !.job = j, !.state = "building"]

Unchanged(v) == v # 0 /\ draft.spec = ver[v].spec
FailedCandidate(v) ==
  /\ Unchanged(v) /\ job[LatestJob(v)].status \in Failed
  /\ ver[v].status = "failed" /\ draft.state = "failed"

\* NO_ENVIRONMENT_CHANGES
NothingNew == /\ ~FailedCandidate(draft.cand)
              /\ \/ Unchanged(draft.cand) /\ ver[draft.cand].status = "available"
                 \/ Unchanged(draft.source)

MayBuild == profile.status = "active" /\ MayEditDraft /\ ~NothingNew

StartDraftBuild(j) ==
  /\ MayBuild
  /\ LET cand == draft.cand IN
     \/ /\ FailedCandidate(cand)
        /\ NewAttempt(j, cand, ver[cand], "queued") /\ DraftAttempt(j, cand)
     \/ /\ ~FailedCandidate(cand)
        /\ \E v \in Versions : /\ NextVersion(v)
                               /\ NewAttempt(j, v, [NoVersion EXCEPT !.spec = draft.spec], "queued")
                               /\ DraftAttempt(j, v)
  /\ UNCHANGED <<mode, ask, doubled, profile, wake, tag, wk, spent>>

MayRetry(old) ==
  /\ mode = "v2" /\ job[old].status \in Failed
  /\ LET v == job[old].ver IN
     /\ ver[v].status # "available" /\ draft.cand = v /\ draft.state = "failed"
     /\ ~DraftBusy /\ LatestJob(v) = old /\ Unchanged(v)

RetryDraftBuild(j, old) ==
  /\ MayRetry(old)
  /\ LET v == job[old].ver IN
     /\ NewAttempt(j, v, ver[v], "queued") /\ DraftAttempt(j, v)
  /\ UNCHANGED <<mode, ask, doubled, profile, wake, tag, wk, spent>>

UpdateProfile(status) ==
  /\ MayArchive(status)
  /\ Spend("edits", MaxEdits[mode])
  /\ profile' = [profile EXCEPT !.status = status]
  /\ UNCHANGED <<mode, ask, doubled, draft, ver, job, wake, push, tag, wk>>

(* The candidate of the draft, or, without a draft, a version that has     *)
(* been published before.                                                  *)
MayPublish(v) ==
  /\ mode = "v2" /\ profile.status = "active"
  /\ ver[v].status = "available" /\ ver[v].image # NoLock
  /\ \/ draft.cand = v /\ ~DraftBusy
     \/ draft.state = "none" /\ ver[v].published

Publish(v) ==
  /\ MayPublish(v) /\ profile.current # v
  /\ profile' = [profile EXCEPT !.current = v]
  /\ ver' = [ver EXCEPT ![v].published = TRUE]
  /\ draft' = NoDraft
  /\ UNCHANGED <<mode, ask, doubled, job, wake, push, tag, wk, spent>>

CreateProfileVersion(v) ==
  /\ mode = "legacy" /\ profile.status = "active" /\ NextVersion(v)
  /\ ver' = [ver EXCEPT ![v] = [NoVersion EXCEPT !.status = "draft"]]
  /\ UNCHANGED <<mode, ask, doubled, profile, draft, job, wake, push, tag, wk, spent>>

(* The two legacy requests look at the rows and write later, without a     *)
(* lock; the second looks for no other job of the version.                 *)
CheckBuild(a, v) ==
  /\ ver[v].status # "available"
  /\ ask' = [ask EXCEPT ![a] = [ver |-> v, queued |-> ver[v].status = "queued"]]
  /\ mode = "legacy" /\ ask[a] = NoAsk /\ \E j \in Jobs : NextJob(j)
  /\ UNCHANGED <<mode, doubled, rows, wake, push, tag, wk, spent>>

CreateBuildJob(a, v) == /\ ver[v].status # "none" /\ ActiveJobs(v) = {}
                        /\ CheckBuild(a, v)

RetryBuildJob(a, old) == /\ job[old].status \in Failed
                         /\ CheckBuild(a, job[old].ver)

(* The ORM writes the status of the version only if it has loaded another. *)
CommitBuildJob(a, j) ==
  LET v == ask[a].ver  queued == ask[a].queued IN
  /\ mode = "legacy" /\ v # 0
  /\ NewAttempt(j, v, ver[v], IF queued THEN ver[v].status ELSE "queued")
  /\ ask' = [ask EXCEPT ![a] = NoAsk]
  /\ doubled' = (doubled \/ queued \/ ver[v].status \in Frozen \/ ActiveJobs(v) # {})
  /\ UNCHANGED <<mode, profile, draft, wake, tag, wk, spent>>

(* enqueue_build_redis, or its failure: the job stays queued.              *)
Push == /\ push # 0 /\ push' = 0
        /\ wake' = Append(wake, push)
        /\ UNCHANGED <<mode, ask, doubled, rows, tag, wk, spent>>

LosePush == /\ push # 0 /\ push' = 0
            /\ Spend("troubles", MaxTroubles[mode])
            /\ UNCHANGED <<mode, ask, doubled, rows, wake, tag, wk>>

-----------------------------------------------------------------------------
(* The worker: pop, claim, resolve, build, finish or fail.                 *)

(* The queued job with the greatest attempt number; requests that overlap  *)
(* may give the same number to two.                                        *)
Pop(w) ==
  /\ wk[w].pc = "idle" /\ wake # <<>>
  /\ wake' = Tail(wake)
  /\ LET queued == {j \in JobsOf(Head(wake)) : job[j].status = "queued"} IN
     \/ queued = {} /\ UNCHANGED wk
     \/ \E j \in queued : wk' = [wk EXCEPT ![w] = [Idle EXCEPT !.pc = "found", !.job = j]]
  /\ UNCHANGED <<mode, ask, doubled, rows, push, tag, spent>>

Building(v) == IF ver[v].status \in Frozen THEN ver[v].status ELSE "building"

Claim(w) ==
  LET j == wk[w].job  v == job[j].ver IN
  /\ wk[w].pc = "found" /\ RowFree(j)
  /\ IF job[j].status # "queued"
     THEN wk' = [wk EXCEPT ![w] = Idle] /\ UNCHANGED <<ver, job>>
     ELSE /\ job' = [job EXCEPT ![j] = [@ EXCEPT !.status = "building", !.token = w, !.lapsed = FALSE]]
          /\ ver' = [ver EXCEPT ![v].status = Building(v)]
          /\ wk' = [wk EXCEPT ![w] = [Idle EXCEPT
                      !.pc = IF mode = "v2" /\ ver[v].lock = NoLock THEN "resolving" ELSE "building",
                      !.job = j, !.lock = ver[v].lock, !.seen = Building(v)]]
  /\ UNCHANGED <<mode, ask, doubled, profile, draft, wake, push, tag, spent>>

(* Mutant: the lock is stored without the lease.                           *)
ResolveUnowned(w, lock) ==
  /\ wk[w].pc = "resolving"
  /\ ver' = [ver EXCEPT ![job[wk[w].job].ver].lock = lock]
  /\ wk' = [wk EXCEPT ![w].pc = "building", ![w].lock = lock]
  /\ UNCHANGED <<mode, ask, doubled, profile, draft, job, wake, push, tag, spent>>

(* on_resolution_lock: the lock is stored under the lease, before the      *)
(* image is built from it.                                                 *)
Resolve(w, lock) ==
  /\ wk[w].pc = "resolving" /\ Owns(w)
  /\ ver' = [ver EXCEPT ![job[wk[w].job].ver].lock = lock]
  /\ wk' = [wk EXCEPT ![w].pc = "building", ![w].lock = lock]
  /\ UNCHANGED <<mode, ask, doubled, profile, draft, job, wake, push, tag, spent>>

(* docker build under the tag of the job, which two workers may share: a   *)
(* worker that has lost its lease builds on until it notices.              *)
BuildImage(w, result) ==
  /\ wk[w].pc = "building"
  /\ mode = "v2" => result = wk[w].lock
  /\ tag' = [tag EXCEPT ![wk[w].job] = result]
  /\ wk' = [wk EXCEPT ![w].pc = "built"]
  /\ UNCHANGED <<mode, ask, doubled, rows, wake, push, spent>>

Ready(j) == IF draft.cand = job[j].ver /\ draft.job = j
            THEN [draft EXCEPT !.job = 0, !.state = "ready"] ELSE draft

(* Mutant: the result is written without the lease.                        *)
FinishUnowned(w) ==
  LET j == wk[w].job  v == job[j].ver IN
  /\ wk[w].pc = "built" /\ tag[j] # NoLock
  /\ job' = [job EXCEPT ![j] = [@ EXCEPT !.status = "succeeded", !.lapsed = FALSE]]
  /\ ver' = [ver EXCEPT ![v] = [@ EXCEPT !.status = "available", !.image = tag[j]]]
  /\ draft' = IF mode = "v2" THEN Ready(j) ELSE draft
  /\ wk' = [wk EXCEPT ![w] = Idle]
  /\ UNCHANGED <<mode, ask, doubled, profile, wake, push, tag, spent>>

Finish(w) ==
  LET j == wk[w].job  v == job[j].ver IN
  /\ wk[w].pc = "built" /\ Owns(w) /\ tag[j] # NoLock
  /\ job' = [job EXCEPT ![j] = [@ EXCEPT !.status = "succeeded", !.lapsed = FALSE]]
  /\ ver' = [ver EXCEPT ![v] = [@ EXCEPT !.status = "available", !.image = tag[j]]]
  /\ draft' = IF mode = "v2" THEN Ready(j) ELSE draft
  /\ tag' = IF mode = "v2" THEN [tag EXCEPT ![j] = NoLock] ELSE tag
  /\ wk' = [wk EXCEPT ![w] = Idle]
  /\ UNCHANGED <<mode, ask, doubled, profile, wake, push, spent>>

(* Mutant: a failure is written to the job only, as older workers did.     *)
VersionFailedNever(v, seen) == ver

(* _mark_version_failed sees the version as this session loaded it.        *)
VersionFailed(v, seen) == IF seen \in Frozen THEN ver
                          ELSE [ver EXCEPT ![v].status = "failed"]
Released(j) == IF draft.job = j THEN [draft EXCEPT !.job = 0, !.state = "failed"] ELSE draft

(* Mutant: the legacy _fail for a V2 job.                                  *)
FailBuildLegacy(w) ==
  LET j == wk[w].job IN
  /\ wk[w].pc \in {"resolving", "building", "built"} /\ Owns(w)
  /\ job' = [job EXCEPT ![j] = [@ EXCEPT !.status = "failed", !.lapsed = FALSE]]
  /\ ver' = VersionFailed(job[j].ver, wk[w].seen)
  /\ wk' = [wk EXCEPT ![w] = Idle]
  /\ UNCHANGED <<mode, ask, doubled, profile, draft, wake, push, tag, spent>>

FailBuild(w) ==
  LET j == wk[w].job IN
  /\ wk[w].pc \in {"resolving", "building", "built"} /\ Owns(w)
  /\ job' = [job EXCEPT ![j] = [@ EXCEPT !.status = "failed", !.lapsed = FALSE]]
  /\ ver' = VersionFailed(job[j].ver, wk[w].seen)
  /\ draft' = IF mode = "v2" THEN Released(j) ELSE draft
  /\ tag' = [tag EXCEPT ![j] = NoLock]
  /\ wk' = [wk EXCEPT ![w] = Idle]
  /\ UNCHANGED <<mode, ask, doubled, profile, wake, push, spent>>

(* run_once's handler calls the legacy _fail, which knows no draft.        *)
MainFlowRaises(w) ==
  LET j == wk[w].job IN
  /\ wk[w].pc \in {"resolving", "building", "built"} /\ Owns(w)
  /\ Spend("troubles", MaxTroubles[mode])
  /\ job' = [job EXCEPT ![j] = [@ EXCEPT !.status = "raised", !.lapsed = FALSE]]
  /\ ver' = VersionFailed(job[j].ver, wk[w].seen)
  /\ wk' = [wk EXCEPT ![w] = Idle]
  /\ UNCHANGED <<mode, ask, doubled, profile, draft, wake, push, tag>>

(* Any compare-and-swap that misses, or the heartbeat's: LeaseLost, and    *)
(* the temporary image goes, though the new owner may be using it.         *)
LoseLease(w) ==
  /\ wk[w].pc \in {"resolving", "building", "built"}
  /\ RowFree(wk[w].job) /\ ~Owns(w)
  /\ tag' = [tag EXCEPT ![wk[w].job] = NoLock]
  /\ wk' = [wk EXCEPT ![w] = Idle]
  /\ UNCHANGED <<mode, ask, doubled, rows, wake, push, spent>>

(* The heartbeat cannot reach the database: the worker gives up, the row   *)
(* stays as it is.                                                         *)
HeartbeatFails(w) ==
  /\ wk[w].pc \in {"resolving", "building", "built"}
  /\ Spend("troubles", MaxTroubles[mode])
  /\ tag' = [tag EXCEPT ![wk[w].job] = NoLock]
  /\ wk' = [wk EXCEPT ![w] = Idle]
  /\ UNCHANGED <<mode, ask, doubled, rows, wake, push>>

Heartbeat(w) ==
  /\ wk[w].pc \in {"resolving", "building", "built"} /\ Owns(w) /\ job[wk[w].job].lapsed
  /\ job' = [job EXCEPT ![wk[w].job].lapsed = FALSE]
  /\ UNCHANGED <<mode, ask, doubled, profile, draft, ver, wake, push, tag, wk, spent>>

Holder(j) == \E w \in Workers : wk[w].job = j /\ job[j].token = w
                                /\ wk[w].pc \in {"resolving", "building", "built"}

(* lease_until passes: always when nobody renews it, else after a stall.   *)
Lapse(j) ==
  /\ job[j].status = "building" /\ ~job[j].lapsed /\ RowFree(j)
  /\ IF Holder(j) THEN Spend("troubles", MaxTroubles[mode]) ELSE UNCHANGED spent
  /\ job' = [job EXCEPT ![j].lapsed = TRUE]
  /\ UNCHANGED <<mode, ask, doubled, profile, draft, ver, wake, push, tag, wk>>

-----------------------------------------------------------------------------
(* Recovery, every 60 s and at the start of a worker.                      *)

WakedAll(queue, vs) == queue \o SetToSeq({v \in vs : \A i \in DOMAIN queue : queue[i] # v})

Stale == {j \in Jobs : job[j].status = "building" /\ job[j].lapsed /\ RowFree(j)}
Unwoken == {j \in Jobs : job[j].status = "queued" /\ \A i \in DOMAIN wake : wake[i] # job[j].ver}

(* recover_stale_builds pushes the wake-ups before it commits.  A scan     *)
(* that finds nothing to do is left out.                                   *)
RecoverUpdate(w, expire) ==
  /\ wk[w].pc = "idle" /\ Stale \cup Unwoken # {} /\ expire \subseteq Stale
  /\ wk' = [wk EXCEPT ![w] = [Idle EXCEPT !.pc = "recovering",
                                          !.requeue = Stale \ expire, !.expire = expire]]
  /\ wake' = WakedAll(wake, {job[j].ver : j \in Stale \ expire})
  /\ UNCHANGED <<mode, ask, doubled, rows, push, tag, spent>>

(* Mutant: the version takes the status of its job.                        *)
RecoveredVersionAsJob(v, requeue, expire) ==
  IF \E j \in expire : job[j].ver = v THEN [ver[v] EXCEPT !.status = "timed_out"] ELSE ver[v]

RecoveredJob(j, requeue, expire) ==
  CASE j \in requeue -> [job[j] EXCEPT !.status = "queued", !.token = "none", !.lapsed = FALSE]
    [] j \in expire -> [job[j] EXCEPT !.status = "failed", !.token = "none", !.lapsed = FALSE]
    [] OTHER -> job[j]

RecoveredVersion(v, requeue, expire) ==
  IF ver[v].status \in Frozen THEN ver[v]
  ELSE CASE \E j \in expire : job[j].ver = v -> [ver[v] EXCEPT !.status = "failed"]
         [] \E j \in requeue : job[j].ver = v -> [ver[v] EXCEPT !.status = "queued"]
         [] OTHER -> ver[v]

RecoverCommit(w) ==
  LET requeue == wk[w].requeue  expire == wk[w].expire IN
  /\ wk[w].pc = "recovering"
  /\ job' = [j \in Jobs |-> RecoveredJob(j, requeue, expire)]
  /\ ver' = [v \in Versions |-> RecoveredVersion(v, requeue, expire)]
  /\ draft' = IF mode = "v2" /\ draft.job \in expire THEN Released(draft.job) ELSE draft
  /\ wk' = [wk EXCEPT ![w] = [Idle EXCEPT !.pc = "reconciling"]]
  /\ UNCHANGED <<mode, ask, doubled, profile, wake, push, tag, spent>>

(* Mutant: the scan repairs versions and wakes nobody.                     *)
ReconcileSilent(w) ==
  /\ wk[w].pc \in {"boot", "reconciling"}
  /\ wk' = [wk EXCEPT ![w] = Idle]
  /\ UNCHANGED <<mode, ask, doubled, rows, wake, push, tag, spent>>

Drifted(v) == /\ ver[v].status = "queued" /\ ActiveJobs(v) = {}
              /\ JobsOf(v) # {} /\ job[LatestJob(v)].status \in Failed

Reconcile(w) ==
  /\ wk[w].pc \in {"boot", "reconciling"}
  /\ wake' = WakedAll(wake, {job[j].ver : j \in Unwoken})
  /\ ver' = [v \in Versions |-> IF Drifted(v) THEN [ver[v] EXCEPT !.status = "failed"] ELSE ver[v]]
  /\ draft' = IF mode = "v2" /\ draft.cand # 0 /\ Drifted(draft.cand)
              THEN Released(LatestJob(draft.cand)) ELSE draft
  /\ wk' = [wk EXCEPT ![w] = Idle]
  /\ UNCHANGED <<mode, ask, doubled, profile, job, push, tag, spent>>

(* The process dies; its transaction, if one is open, rolls back.          *)
Crash(w) ==
  /\ wk[w].pc # "boot"
  /\ Spend("troubles", MaxTroubles[mode])
  /\ wk' = [wk EXCEPT ![w] = [Idle EXCEPT !.pc = "boot"]]
  /\ UNCHANGED <<mode, ask, doubled, rows, wake, push, tag>>

-----------------------------------------------------------------------------
Editor == \/ CreateDraft \/ AbandonDraft \/ \E spec \in Specs : SaveDraft(spec)
          \/ \E status \in {"active", "inactive"} : UpdateProfile(status)
          \/ \E j \in Jobs : StartDraftBuild(j) \/ \E old \in Jobs : RetryDraftBuild(j, old)
          \/ \E v \in Versions : Publish(v)

Legacy == \/ \E v \in Versions : CreateProfileVersion(v)
          \/ \E a \in Admins : \/ \E v \in Versions : CreateBuildJob(a, v)
                               \/ \E j \in Jobs : RetryBuildJob(a, j) \/ CommitBuildJob(a, j)

Build(w) == \/ Pop(w) \/ Claim(w)
            \/ \E lock \in Locks : Resolve(w, lock) \/ BuildImage(w, lock)
            \/ Finish(w) \/ FailBuild(w) \/ LoseLease(w)

Recover(w) == \E expire \in SUBSET Stale : RecoverUpdate(w, expire)
Repair(w) == RecoverCommit(w) \/ Reconcile(w)

Next == \/ Editor \/ Legacy \/ Push \/ LosePush
        \/ \E j \in Jobs : Lapse(j)
        \/ \E w \in Workers : \/ Build(w) \/ Heartbeat(w) \/ Recover(w) \/ Repair(w)
                              \/ MainFlowRaises(w) \/ HeartbeatFails(w) \/ Crash(w)

(* A worker goes on; its loop comes back to the scan every 60 s, whatever  *)
(* it pops in between; the clock passes the lease of a dead worker.        *)
Fairness == /\ \A w \in Workers : /\ WF_vars(Build(w)) /\ WF_vars(Repair(w))
                                  /\ SF_vars(Recover(w))
            /\ \A j \in Jobs : WF_vars(~Holder(j) /\ Lapse(j))

Spec == Init /\ [][Next]_vars
FairSpec == Spec /\ Fairness

-----------------------------------------------------------------------------
(* A job's statuses are those of the model's documentation (models:1428):  *)
(* no other value is ever written, nor one of a version's into a job.      *)
TypeOK ==
  /\ mode \in Modes /\ push \in Versions \cup {0} /\ wake \in Seq(Versions)
  /\ profile \in [status : {"active", "inactive"}, current : Versions \cup {0}]
  /\ draft \in [state : {"none", "editing", "building", "ready", "failed"}, spec : Specs,
                cand : Versions \cup {0}, job : Jobs \cup {0}, source : Versions \cup {0}]
  /\ ver \in [Versions -> [status : {"none", "draft", "queued", "building", "available", "failed"},
                           spec : Specs, lock : Locks \cup {NoLock}, image : Locks \cup {NoLock},
                           published : BOOLEAN]]
  /\ job \in [Jobs -> [status : {"none", "queued", "building", "succeeded"} \cup Failed,
                       ver : Versions \cup {0}, token : Workers \cup {"none"}, lapsed : BOOLEAN]]
  /\ tag \in [Jobs -> Locks \cup {NoLock}]
  /\ ask \in [Admins -> [ver : Versions \cup {0}, queued : BOOLEAN]]

(* The draft says "building" as long as its job can end and no longer, so  *)
(* that the administrator can always edit or retry in the end; "ready"     *)
(* only for an image built from what the draft asks for.  run_once's       *)
(* handler is the one that leaves a draft behind.                          *)
DraftFollowsJob ==
  /\ draft.state = "building" => /\ draft.job # 0 /\ job[draft.job].ver = draft.cand
                                 /\ job[draft.job].status \in Active \cup {"raised"}
  /\ draft.state = "ready" => /\ ver[draft.cand].status = "available"
                              /\ ver[draft.cand].spec = draft.spec
  /\ draft.state # "building" => \A j \in Jobs : mode = "v2" => job[j].status \notin Active

(* A version that shows queued or building has exactly one job that will   *)
(* settle it, through every lost lease, recovery and retry.                *)
VersionFollowsJobs ==
  \A v \in Versions : /\ ver[v].status \in Active <=> ActiveJobs(v) # {}
                      /\ Cardinality(ActiveJobs(v)) <= 1

(* The three rows that tell the administrator of one build tell the same,  *)
(* whatever is lost, stalls or dies between their separate commits.        *)
RowsAgree == TypeOK /\ DraftFollowsJob /\ VersionFollowsJobs

(* The image of a V2 version was built from the lock that its row holds,   *)
(* though attempts share the temporary tag and a worker that has lost its  *)
(* lease goes on for a while.                                              *)
ImageFromLock ==
  \A v \in Versions : mode = "v2" /\ ver[v].image # NoLock => ver[v].image = ver[v].lock

(* What a reader of the catalogue sees of the versions.                    *)
Images == [v \in Versions |-> IF ver[v].status = "available" THEN ver[v].image ELSE NoLock]
Catalog == INSTANCE EnvironmentCatalog WITH image <- Images, current <- profile.current

(* A version gets its image once and keeps it, and the profile points at   *)
(* one that has an image (EnvironmentCatalog), until a legacy request is   *)
(* granted in the middle of another build of its version.                  *)
CatalogKept == Catalog!Init /\ [][doubled' \/ Catalog!Next]_<<Images, profile.current>>

(* "An immutable version: once available, packages, base image, resources  *)
(* and digest are frozen" (models:1338).                                   *)
DigestFrozen == [][\A v \in Versions : ver[v].image # NoLock => ver'[v].image = ver[v].image]_vars

(* Every job ends, through crashes, lost wake-ups, stalls and requeueing.  *)
BuildEnds == \A j \in Jobs : job[j].status \in Active ~> job[j].status \notin Active
=============================================================================
