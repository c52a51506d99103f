-------------------------- MODULE EnvironmentProofs --------------------------
(***************************************************************************)
(* Theorems about EnvironmentBuild and EnvironmentChoice, for any numbers  *)
(* of workers, versions, jobs, specifications and locks, in either mode,   *)
(* checked by TLAPS, without assumptions.  What they say of a legacy       *)
(* profile ends when a request is granted in the middle of another build of*)
(* its version (doubled): from then on a version may have two active jobs. *)
(***************************************************************************)
EXTENDS EnvironmentChoice, FiniteSetTheorems, TLAPS

VersionStatuses == {"none", "draft", "queued", "building", "available", "failed"}
PCs == {"idle", "found", "resolving", "building", "built", "recovering", "reconciling", "boot"}
Working == {"resolving", "building", "built"}

VersionType == [Versions -> [status : VersionStatuses, spec : Specs, lock : Locks \cup {NoLock},
                             image : Locks \cup {NoLock}, published : BOOLEAN]]
JobType == [Jobs -> [status : {"none", "queued", "building", "succeeded"} \cup Failed,
                     ver : Versions \cup {0}, token : Workers \cup {"none"}, lapsed : BOOLEAN]]
DraftType == [state : {"none", "editing", "building", "ready", "failed"}, spec : Specs,
              cand : Versions \cup {0}, job : Jobs \cup {0}, source : Versions \cup {0}]
ProfileType == [status : {"active", "inactive"}, current : Versions \cup {0}]
TagType == [Jobs -> Locks \cup {NoLock}]
WorkerType == [Workers -> [pc : PCs, job : Jobs \cup {0}, lock : Locks \cup {NoLock},
                           seen : VersionStatuses, requeue : SUBSET Jobs, expire : SUBSET Jobs]]

TypeInv == /\ mode \in Modes /\ push \in Versions \cup {0} /\ wake \in Seq(Versions)
           /\ profile \in ProfileType /\ draft \in DraftType /\ ver \in VersionType
           /\ job \in JobType /\ tag \in TagType /\ wk \in WorkerType

-----------------------------------------------------------------------------
(* The inductive invariant.                                                 *)

\* A job belongs to a version that exists.
JobsReal ==
  \A j \in Jobs :
    /\ job[j].status = "none" => tag[j] = NoLock
    /\ job[j].status # "none" => job[j].ver \in Versions /\ ver[job[j].ver].status # "none"

\* A version has one active job, as long as it shows that it has one.
OneActive ==
  /\ \A j, k \in Jobs : job[j].status \in Active /\ job[k].status \in Active
                          /\ job[j].ver = job[k].ver => j = k
  /\ \A j \in Jobs : job[j].status \in Active => ver[job[j].ver].status \in Active
  /\ \A v \in Versions : ver[v].status \in Active =>
       \E j \in Jobs : job[j].status \in Active /\ job[j].ver = v

\* The image and the status come with one commit, and in V2 from the lock.
ImagesKept ==
  \A v \in Versions : /\ ver[v].status = "available" <=> ver[v].image # NoLock
                      /\ mode = "v2" /\ ver[v].image # NoLock => ver[v].image = ver[v].lock

\* In V2 the draft knows of every active job.
DraftKnows ==
  /\ draft.state = "none" => draft = NoDraft
  /\ mode = "legacy" => draft.state = "none"
  /\ mode = "v2" => \A j \in Jobs : job[j].status \in Active =>
       draft.state = "building" /\ draft.job = j /\ draft.cand = job[j].ver
  /\ draft.state # "building" => draft.job = 0
  /\ draft.state = "building" => /\ draft.job \in Jobs /\ draft.cand \in Versions
                                 /\ draft.cand = job[draft.job].ver
                                 /\ job[draft.job].status \in Active \cup {"raised"}
                                 /\ ver[draft.cand].spec = draft.spec
  /\ draft.state = "ready" => /\ draft.cand \in Versions
                              /\ ver[draft.cand].status = "available"
                              /\ ver[draft.cand].spec = draft.spec

\* What is published has an image.
PublishedKept ==
  /\ profile.current # 0 => ver[profile.current].published
  /\ mode = "legacy" => profile.current = 0
  /\ \A v \in Versions : ver[v].published => ver[v].status = "available" /\ profile.current # 0

\* What a worker knows of its job is so, whether it still owns it or not.
WorkersKnow ==
  \A w \in Workers :
    /\ wk[w].pc \in Working \cup {"found"} => wk[w].job \in Jobs /\ job[wk[w].job].status # "none"
    /\ wk[w].pc \in Working => wk[w].seen = "building"

\* In V2 a lock is stored once, before anything is built from it.
LocksKept ==
  mode = "v2" =>
    /\ \A j \in Jobs : tag[j] # NoLock => tag[j] = ver[job[j].ver].lock
    /\ \A w \in Workers :
         /\ wk[w].pc \in {"building", "built"} =>
              wk[w].lock # NoLock /\ wk[w].lock = ver[job[wk[w].job].ver].lock
         /\ wk[w].pc = "resolving" /\ job[wk[w].job].status = "building"
              /\ job[wk[w].job].token = w => ver[job[wk[w].job].ver].lock = NoLock

\* A recovery holds rows of its own, which nobody moves until it commits.
Held(w) == wk[w].requeue \cup wk[w].expire
RecoveriesHold ==
  /\ \A w \in Workers : /\ wk[w].pc # "recovering" => Held(w) = {}
                        /\ wk[w].requeue \cap wk[w].expire = {}
                        /\ \A j \in Held(w) : job[j].status = "building"
  /\ \A v, w \in Workers : v # w => Held(v) \cap Held(w) = {}

\* A legacy request was checked for a version.
AsksKnow == ask \in [Admins -> [ver : Versions \cup {0}, queued : BOOLEAN]]

Inv == /\ TypeInv /\ JobsReal /\ OneActive /\ ImagesKept /\ DraftKnows /\ PublishedKept
       /\ WorkersKnow /\ LocksKept /\ RecoveriesHold

\* What a task is bound to has an image and, in V2, has been published.
BoundKept ==
  /\ bound \subseteq Versions
  /\ \A v \in bound : Usable(v) /\ (mode = "v2" => ver[v].published)
  /\ CurrentAvailable # 0 => CurrentAvailable \in bound

-----------------------------------------------------------------------------
(* Sets of rows.                                                            *)

LEMMA RowsFinite ==
  /\ Versions \subseteq Nat \ {0} /\ Jobs \subseteq Nat \ {0}
  /\ IsFiniteSet(Versions) /\ IsFiniteSet(Jobs)
<1>1. /\ Versions = 1..Cardinality(Versions) /\ Cardinality(Versions) \in Int
      /\ Jobs = 1..Cardinality(Jobs) /\ Cardinality(Jobs) \in Int
  BY BuildAssumption
<1>2. \A n \in Int : IsFiniteSet(1..n)
  BY FS_Interval
<1>3. QED
  BY <1>1, <1>2

\* The newest of some rows.
LEMMA NewestExists ==
  ASSUME NEW S, S # {}, S \subseteq Nat, IsFiniteSet(S)
  PROVE  \E m \in S : \A k \in S : k <= m
<1> DEFINE Above(m) == {k \in S : k > m}
           Family == {Above(m) : m \in S}
<1>1. Family \subseteq FiniteSubsetsOf(S)
  BY FS_Subset DEF FiniteSubsetsOf
<1>2. PICK A \in Family : \A B \in Family : <<B, A>> \notin StrictSubsetOrdering(S)
  <2>1. Family # {} /\ IsWellFoundedOn(StrictSubsetOrdering(S), FiniteSubsetsOf(S))
    BY FS_StrictSubsetOrderingWellFounded
  <2> HIDE DEF Family
  <2>2. QED
    BY <1>1, <2>1, WFMin
<1>3. PICK m \in S : A = Above(m)
  OBVIOUS
<1>4. ASSUME NEW k \in S, k > m PROVE FALSE
  <2>1. Above(k) \subseteq Above(m) /\ k \in Above(m) /\ k \notin Above(k)
    <3>1. \A n \in S : n \in Nat /\ ~(n > n) /\ (n > k => n > m)
      BY <1>4
    <3>2. QED
      BY <1>4, <3>1
  <2>2. Above(k) \in Family
    OBVIOUS
  <2>3. <<Above(k), Above(m)>> \in StrictSubsetOrdering(S)
    BY <2>1, FS_Subset DEF StrictSubsetOrdering
  <2>4. QED
    BY <1>2, <1>3, <2>2, <2>3
<1>5. \A k \in S : k \in Nat /\ m \in Nat /\ ~(k > m)
  BY <1>4
<1>6. QED
  BY <1>5

LEMMA SetToSeqType ==
  ASSUME NEW S, NEW T, S \subseteq T, IsFiniteSet(S)
  PROVE  SetToSeq(S) \in Seq(T)
<1>1. Cardinality(S) \in Nat /\ ExistsBijection(1..Cardinality(S), S)
  BY FS_CardinalityType
<1>2. \E f \in [1..Cardinality(S) -> S] : IsInjective(f)
  BY <1>1 DEF ExistsBijection, Bijection, Injection, IsInjective
<1>3. SetToSeq(S) \in [1..Cardinality(S) -> S]
  BY <1>2 DEF SetToSeq
<1>4. QED
  BY <1>1, <1>3

LEMMA WakedType ==
  ASSUME NEW queue \in Seq(Versions), NEW vs \in SUBSET Versions
  PROVE  WakedAll(queue, vs) \in Seq(Versions)
<1>1. IsFiniteSet({v \in vs : \A i \in DOMAIN queue : queue[i] # v})
  BY RowsFinite, FS_Subset
<1>2. SetToSeq({v \in vs : \A i \in DOMAIN queue : queue[i] # v}) \in Seq(Versions)
  BY <1>1, SetToSeqType
<1>3. QED
  BY <1>2 DEF WakedAll

-----------------------------------------------------------------------------
(* What the steps leave alone.                                              *)

LEMMA Kinds == /\ Modes \subseteq {"v2", "legacy"} /\ NoSpec \in Specs /\ NoLock \notin Locks
               /\ 0 \notin Versions /\ 0 \notin Jobs
BY BuildAssumption, RowsFinite

\* A step of the administrator that starts no build.
LEMMA EditStep ==
  ASSUME Inv, UNCHANGED <<mode, ver, job, tag, wk, push, wake>>,
         profile' \in ProfileType, draft' \in DraftType, DraftKnows', PublishedKept'
  PROVE  Inv'
BY DEF Inv, TypeInv, JobsReal, OneActive, ImagesKept, WorkersKnow, LocksKept, RecoveriesHold, Active, Held

LEMMA EditSteps ==
  ASSUME Inv,
         \/ CreateDraft \/ AbandonDraft \/ \E spec \in Specs : SaveDraft(spec)
         \/ \E status \in {"active", "inactive"} : UpdateProfile(status)
  PROVE  Inv'
<1> USE DEF Inv
<1>1. profile \in ProfileType /\ draft \in DraftType /\ ver \in VersionType /\ mode \in {"v2", "legacy"}
  BY Kinds DEF TypeInv
<1>2. CASE CreateDraft
  <2>1. draft' \in DraftType
    <3>1. profile.current # 0 => ver[profile.current].spec \in Specs
      BY <1>1 DEF ProfileType, VersionType
    <3>2. QED
      BY <1>1, <1>2, <3>1, Kinds DEF CreateDraft, NoDraft, DraftType, ProfileType
  <2>2. DraftKnows'
    BY <1>1, <1>2 DEF CreateDraft, MayCreateDraft, DraftKnows, NoDraft, Active
  <2>3. PublishedKept'
    BY <1>2 DEF CreateDraft, PublishedKept
  <2>4. QED
    BY <1>1, <1>2, <2>1, <2>2, <2>3, EditStep DEF CreateDraft
<1>3. ASSUME draft.state # "none", ~DraftBusy
      PROVE  mode = "v2" /\ draft.state # "building" /\ \A j \in Jobs : job[j].status \notin Active
  BY <1>1, <1>3 DEF DraftKnows, DraftBusy
<1>4. CASE AbandonDraft
  <2>1. draft' = NoDraft /\ NoDraft \in DraftType
    BY <1>4, Kinds DEF AbandonDraft, NoDraft, DraftType
  <2>2. DraftKnows'
    BY <1>3, <1>4, <2>1 DEF AbandonDraft, MayEditDraft, DraftKnows, NoDraft
  <2>3. PublishedKept'
    BY <1>4 DEF AbandonDraft, PublishedKept
  <2>4. QED
    BY <1>1, <1>4, <2>1, <2>2, <2>3, EditStep DEF AbandonDraft
<1>5. ASSUME NEW spec \in Specs, SaveDraft(spec) PROVE Inv'
  <2>1. draft' \in DraftType /\ draft'.state = "editing" /\ draft'.job = 0
    BY <1>1, <1>5 DEF SaveDraft, DraftType
  <2>2. DraftKnows'
    BY <1>3, <1>5, <2>1 DEF SaveDraft, MayEditDraft, DraftKnows
  <2>3. PublishedKept'
    BY <1>5 DEF SaveDraft, PublishedKept
  <2>4. QED
    BY <1>1, <1>5, <2>1, <2>2, <2>3, EditStep DEF SaveDraft
<1>6. ASSUME NEW status \in {"active", "inactive"}, UpdateProfile(status) PROVE Inv'
  <2>1. profile' \in ProfileType /\ profile'.current = profile.current
    BY <1>1, <1>6 DEF UpdateProfile, ProfileType
  <2>2. PublishedKept' /\ DraftKnows'
    BY <1>6, <2>1 DEF UpdateProfile, PublishedKept, DraftKnows
  <2>3. QED
    BY <1>1, <1>6, <2>1, <2>2, EditStep DEF UpdateProfile
<1>7. QED
  BY <1>2, <1>4, <1>5, <1>6

LEMMA PublishStep ==
  ASSUME Inv, NEW v \in Versions, Publish(v)
  PROVE  Inv'
<1> USE DEF Inv
<1>1. /\ profile \in ProfileType /\ draft \in DraftType /\ ver \in VersionType
      /\ mode \in {"v2", "legacy"} /\ job \in JobType
  BY Kinds DEF TypeInv
<1>2. /\ ver' \in VersionType
      /\ \A u \in Versions : /\ ver'[u].status = ver[u].status /\ ver'[u].spec = ver[u].spec
                             /\ ver'[u].lock = ver[u].lock /\ ver'[u].image = ver[u].image
                             /\ ver'[u].published = IF u = v THEN TRUE ELSE ver[u].published
  BY <1>1 DEF Publish, VersionType
<1>3. profile' \in ProfileType /\ profile'.current = v /\ draft' = NoDraft /\ NoDraft \in DraftType
  BY <1>1, Kinds DEF Publish, ProfileType, NoDraft, DraftType
<1>4. mode = "v2" /\ ver[v].status = "available"
  BY DEF Publish, MayPublish
<1>5. \A j \in Jobs : job[j].status \notin Active
  <2>1. draft.state # "building"
    BY <1>1, Kinds DEF Publish, MayPublish, DraftBusy
  <2>2. QED
    BY <1>4, <2>1 DEF DraftKnows
<1>6. TypeInv'
  BY <1>2, <1>3 DEF TypeInv, Publish
<1>7. JobsReal' /\ OneActive'
  BY <1>2, <1>5 DEF JobsReal, OneActive, Publish, Active
<1>8. ImagesKept' /\ DraftKnows'
  BY <1>2, <1>3, <1>4, <1>5 DEF ImagesKept, DraftKnows, Publish, NoDraft
<1>9. PublishedKept'
  <2>1. ver'[v].published = TRUE /\ \A u \in Versions : u # v => ver'[u].published = ver[u].published
    BY <1>2
  <2>2. \A u \in Versions : ver'[u].published => u = v \/ ver[u].published
    BY <2>1
  <2>3. \A u \in Versions : ver'[u].published => ver'[u].status = "available"
    BY <1>2, <1>4, <2>2 DEF PublishedKept
  <2>4. mode' = "v2" /\ profile'.current # 0
    BY <1>3, <1>4, Kinds DEF Publish
  <2>5. QED
    BY <1>3, <2>1, <2>3, <2>4 DEF PublishedKept
<1>10. WorkersKnow' /\ RecoveriesHold'
  BY DEF WorkersKnow, RecoveriesHold, Held, Publish
<1>11. LocksKept'
  <2>1. \A j \in Jobs : tag[j] # NoLock => job[j].ver \in Versions
    BY DEF JobsReal
  <2>2. \A w \in Workers : wk[w].pc \in Working => job[wk[w].job].ver \in Versions
    BY DEF JobsReal, WorkersKnow
  <2>3. QED
    BY <1>2, <2>1, <2>2 DEF LocksKept, Publish, Working
<1>12. QED
  BY <1>6, <1>7, <1>8, <1>9, <1>10, <1>11

-----------------------------------------------------------------------------
(* A new attempt.                                                           *)

VersionRow == [status : VersionStatuses, spec : Specs, lock : Locks \cup {NoLock},
               image : Locks \cup {NoLock}, published : BOOLEAN]

LEMMA AttemptStep ==
  ASSUME Inv, NEW j \in Jobs, NEW v \in Versions, NEW row \in VersionRow,
         NewAttempt(j, v, row, "queued"), UNCHANGED <<mode, profile, wake, tag, wk>>,
         ver[v].status # "available", \A k \in Jobs : job[k].status \in Active => job[k].ver # v,
         row.image = NoLock, row.published = FALSE,
         ver[v].status # "none" => row.lock = ver[v].lock,
         mode = "v2" => /\ draft.state \notin {"none", "building"} /\ DraftAttempt(j, v)
                        /\ row.spec = draft.spec,
         mode = "legacy" => UNCHANGED draft
  PROVE  Inv'
<1> USE DEF Inv
<1>1. /\ profile \in ProfileType /\ draft \in DraftType /\ ver \in VersionType
      /\ mode \in {"v2", "legacy"} /\ job \in JobType
  BY Kinds DEF TypeInv
<1>2. /\ ver' \in VersionType
      /\ ver'[v].status = "queued" /\ ver'[v].spec = row.spec /\ ver'[v].lock = row.lock
      /\ ver'[v].image = NoLock /\ ver'[v].published = FALSE
      /\ \A u \in Versions : u # v => ver'[u] = ver[u]
  BY <1>1 DEF NewAttempt, VersionType, VersionRow, VersionStatuses
<1>3. /\ job' \in JobType
      /\ job'[j].status = "queued" /\ job'[j].ver = v
      /\ \A k \in Jobs : k # j => job'[k] = job[k]
      /\ job[j].status = "none"
  BY <1>1 DEF NewAttempt, NextJob, NoJob, JobType
<1>4. TypeInv'
  <2>1. draft' \in DraftType
    BY <1>1 DEF DraftAttempt, DraftType
  <2>2. QED
    BY <1>2, <1>3, <2>1 DEF TypeInv, NewAttempt
<1>5. JobsReal'
  BY <1>2, <1>3 DEF JobsReal
<1>6. OneActive'
  <2>1. \A k \in Jobs : job'[k].status \in Active => k = j \/ (job[k].status \in Active /\ job[k].ver # v)
    BY <1>3
  <2>2. \A k \in Jobs : job[k].status \in Active => job[k].ver \in Versions
    BY DEF JobsReal, Active
  <2>3. "queued" \in Active
    BY DEF Active
  <2>4. \A k, l \in Jobs : job'[k].status \in Active /\ job'[l].status \in Active
                           /\ job'[k].ver = job'[l].ver => k = l
    BY <1>3, <2>1 DEF OneActive
  <2>5. \A k \in Jobs : job'[k].status \in Active => ver'[job'[k].ver].status \in Active
    BY <1>2, <1>3, <2>1, <2>2, <2>3 DEF OneActive
  <2>6. \A u \in Versions : ver'[u].status \in Active =>
          \E k \in Jobs : job'[k].status \in Active /\ job'[k].ver = u
    BY <1>2, <1>3, <2>3 DEF OneActive, Active
  <2>7. QED
    BY <2>4, <2>5, <2>6 DEF OneActive
<1>7. ImagesKept'
  BY <1>2 DEF ImagesKept
<1>8. DraftKnows'
  <2>1. CASE mode = "legacy"
    <3>1. mode' = "legacy" /\ draft' = draft /\ draft.state = "none"
      BY <2>1 DEF DraftKnows
    <3>2. draft.job = 0
      BY <3>1 DEF DraftKnows
    <3>3. QED
      BY <3>1, <3>2 DEF DraftKnows
  <2>2. CASE mode = "v2"
    <3>1. /\ draft'.state = "building" /\ draft'.job = j /\ draft'.cand = v /\ draft'.spec = draft.spec
          /\ mode' = "v2"
      BY <1>1, <2>2 DEF DraftAttempt, DraftType
    <3>2. \A k \in Jobs : job[k].status \notin Active
      BY <2>2 DEF DraftKnows
    <3>3. \A k \in Jobs : job'[k].status \in Active => k = j
      BY <1>3, <3>2
    <3>4. job'[j].status \in Active
      BY <1>3 DEF Active
    <3>5. QED
      BY <1>2, <1>3, <2>2, <3>1, <3>3, <3>4 DEF DraftKnows
  <2>3. QED
    BY <1>1, <2>1, <2>2
<1>9. PublishedKept'
  <2>1. \A u \in Versions : ver[u].published => u # v
    BY DEF PublishedKept
  <2>2. \A u \in Versions : ver'[u].published => u # v
    BY <1>2
  <2>3. profile.current \in Versions \cup {0}
    BY <1>1 DEF ProfileType
  <2>4. QED
    BY <1>2, <2>1, <2>2, <2>3 DEF PublishedKept
<1>10. WorkersKnow' /\ RecoveriesHold'
  <2>1. \A k \in Jobs : job[k].status # "none" => job'[k] = job[k]
    BY <1>3
  <2>2. WorkersKnow'
    BY <2>1 DEF WorkersKnow
  <2>3. \A w \in Workers : Held(w) \subseteq Jobs /\ Held(w)' = Held(w)
    BY DEF TypeInv, WorkerType, Held
  <2>4. \A w \in Workers : \A k \in Held(w) : job'[k].status = "building"
    BY <2>1, <2>3 DEF RecoveriesHold
  <2>5. QED
    BY <2>2, <2>3, <2>4 DEF RecoveriesHold
<1>11. LocksKept'
  <2>1. ASSUME NEW k \in Jobs, job[k].status # "none"
        PROVE  k # j /\ job'[k] = job[k] /\ ver'[job[k].ver].lock = ver[job[k].ver].lock
    BY <1>2, <1>3, <2>1 DEF JobsReal
  <2>2. \A k \in Jobs : tag[k] # NoLock => job[k].status # "none"
    BY DEF JobsReal
  <2>3. \A w \in Workers : wk[w].pc \in Working => wk[w].job \in Jobs /\ job[wk[w].job].status # "none"
    BY DEF WorkersKnow
  <2>4. QED
    BY <2>1, <2>2, <2>3 DEF LocksKept, Working
<1>12. QED
  BY <1>4, <1>5, <1>6, <1>7, <1>8, <1>9, <1>10, <1>11

LEMMA AttemptSteps ==
  ASSUME Inv, AsksKnow, ~doubled', NEW j \in Jobs,
         \/ StartDraftBuild(j) \/ \E old \in Jobs : RetryDraftBuild(j, old)
         \/ \E a \in Admins : CommitBuildJob(a, j)
  PROVE  Inv'
<1> USE DEF Inv
<1>1. /\ profile \in ProfileType /\ draft \in DraftType /\ ver \in VersionType
      /\ mode \in {"v2", "legacy"} /\ job \in JobType
  BY Kinds DEF TypeInv
<1>2. \A v \in Versions : ver[v] \in VersionRow
  BY <1>1 DEF VersionType, VersionRow
<1>3. \A v \in Versions : ver[v].status # "available" =>
        ver[v].image = NoLock /\ ver[v].published = FALSE
  BY <1>1 DEF ImagesKept, PublishedKept, VersionType
<1>4. ASSUME NEW v \in Versions, ActiveJobs(v) = {}
      PROVE  \A k \in Jobs : job[k].status \in Active => job[k].ver # v
  BY <1>4 DEF ActiveJobs, JobsOf
<1>5. \A old \in Jobs : job[old].status \in Failed => job[old].ver \in Versions
  BY DEF JobsReal, Failed
<1>6. ASSUME NEW a \in Admins, CommitBuildJob(a, j) PROVE Inv'
  <2> DEFINE v == ask[a].ver
  <2>1. /\ mode = "legacy" /\ v # 0 /\ UNCHANGED <<mode, profile, draft, wake, tag, wk>>
        /\ NewAttempt(j, v, ver[v], IF ask[a].queued THEN ver[v].status ELSE "queued")
        /\ ~ask[a].queued /\ ver[v].status \notin Frozen /\ ActiveJobs(v) = {}
    BY <1>6 DEF CommitBuildJob
  <2>2. v \in Versions
    BY <2>1 DEF AsksKnow
  <2>3. NewAttempt(j, v, ver[v], "queued") /\ ver[v].status # "available"
    BY <2>1 DEF Frozen
  <2> HIDE DEF v
  <2>4. QED
    BY <1>2, <1>3, <1>4, <2>1, <2>2, <2>3, AttemptStep
<1>7. ASSUME draft.state # "none", ~DraftBusy
      PROVE  mode = "v2" /\ draft.state # "building" /\ \A k \in Jobs : job[k].status \notin Active
  BY <1>1, <1>7 DEF DraftKnows, DraftBusy
<1>8. ASSUME NEW old \in Jobs, RetryDraftBuild(j, old) PROVE Inv'
  <2> DEFINE v == job[old].ver
  <2>1. /\ v \in Versions /\ ver[v].status # "available" /\ draft.spec = ver[v].spec
        /\ draft.state = "failed" /\ ~DraftBusy
        /\ NewAttempt(j, v, ver[v], "queued") /\ DraftAttempt(j, v) /\ UNCHANGED <<mode, profile, wake, tag, wk>>
    BY <1>5, <1>8 DEF RetryDraftBuild, MayRetry, Unchanged
  <2>2. mode = "v2" /\ \A k \in Jobs : job[k].status \in Active => job[k].ver # v
    BY <1>7, <2>1
  <2>3. QED
    BY <1>2, <1>3, <2>1, <2>2, AttemptStep
<1>9. CASE StartDraftBuild(j)
  <2>1. draft.state # "none" /\ ~DraftBusy /\ UNCHANGED <<mode, profile, wake, tag, wk>>
    BY <1>9 DEF StartDraftBuild, MayBuild, MayEditDraft
  <2>2. mode = "v2" /\ draft.state # "building" /\ \A k \in Jobs : job[k].status \notin Active
    BY <1>7, <2>1
  <2>3. CASE FailedCandidate(draft.cand) /\ NewAttempt(j, draft.cand, ver[draft.cand], "queued")
             /\ DraftAttempt(j, draft.cand)
    <3>1. draft.cand \in Versions /\ ver[draft.cand].status = "failed"
          /\ draft.spec = ver[draft.cand].spec
      BY <1>1, <2>3 DEF FailedCandidate, Unchanged, DraftType
    <3>2. QED
      BY <1>2, <1>3, <2>1, <2>2, <2>3, <3>1, AttemptStep
  <2>4. ASSUME NEW v \in Versions, NextVersion(v), DraftAttempt(j, v),
               NewAttempt(j, v, [NoVersion EXCEPT !.spec = draft.spec], "queued")
        PROVE  Inv'
    <3> DEFINE row == [NoVersion EXCEPT !.spec = draft.spec]
    <3>1. /\ row \in VersionRow /\ row.image = NoLock /\ row.published = FALSE /\ row.spec = draft.spec
      BY <1>1 DEF VersionRow, NoVersion, DraftType, VersionStatuses
    <3>2. ver[v].status = "none"
      BY <2>4 DEF NextVersion
    <3>3. \A k \in Jobs : job[k].status \in Active => job[k].ver # v
      BY <2>2
    <3> HIDE DEF row
    <3>4. QED
      BY <2>1, <2>2, <2>4, <3>1, <3>2, <3>3, AttemptStep DEF row
  <2>5. QED
    BY <1>9, <2>3, <2>4 DEF StartDraftBuild
<1>10. QED
  BY <1>6, <1>8, <1>9

-----------------------------------------------------------------------------
(* The steps that move no row.                                              *)

WorkerRow == [pc : PCs, job : Jobs \cup {0}, lock : Locks \cup {NoLock},
              seen : VersionStatuses, requeue : SUBSET Jobs, expire : SUBSET Jobs]

\* A worker lets its job go, or has found one.
LEMMA LetGo ==
  ASSUME Inv, NEW w \in Workers, NEW to \in WorkerRow, wk' = [wk EXCEPT ![w] = to],
         to.pc \in {"idle", "found", "reconciling", "boot"}, to.requeue = {}, to.expire = {},
         to.pc = "found" => to.job \in Jobs /\ job[to.job].status # "none",
         UNCHANGED <<mode, profile, draft, ver, job, push>>, wake' \in Seq(Versions),
         tag' \in TagType, \A j \in Jobs : tag'[j] \in {tag[j], NoLock}
  PROVE  Inv'
<1> USE DEF Inv
<1>1. wk' \in WorkerType /\ wk'[w] = to /\ \A u \in Workers : u # w => wk'[u] = wk[u]
  BY DEF TypeInv, WorkerType, WorkerRow
<1>2. TypeInv'
  BY <1>1 DEF TypeInv
<1>3. JobsReal' /\ OneActive' /\ ImagesKept' /\ DraftKnows' /\ PublishedKept'
  BY DEF JobsReal, OneActive, ImagesKept, DraftKnows, PublishedKept, Active
<1>4. WorkersKnow'
  BY <1>1 DEF WorkersKnow, Working
<1>5. LocksKept'
  BY <1>1 DEF LocksKept
<1>6. RecoveriesHold'
  BY <1>1 DEF RecoveriesHold, Held
<1>7. QED
  BY <1>2, <1>3, <1>4, <1>5, <1>6

LEMMA IdleRow == /\ Idle \in WorkerRow
                 /\ \A pc \in PCs : [Idle EXCEPT !.pc = pc] \in WorkerRow
                 /\ \A pc \in PCs, j \in Jobs : [Idle EXCEPT !.pc = pc, !.job = j] \in WorkerRow
BY DEF Idle, WorkerRow, PCs, VersionStatuses

LEMMA LetGoSteps ==
  ASSUME Inv, NEW w \in Workers, Pop(w) \/ LoseLease(w) \/ HeartbeatFails(w) \/ Crash(w)
  PROVE  Inv'
<1> USE DEF Inv
<1>1. wake \in Seq(Versions) /\ tag \in TagType /\ job \in JobType /\ wk \in WorkerType
  BY DEF TypeInv
<1>2. CASE Pop(w)
  <2>1. wake' \in Seq(Versions) /\ wk[w].pc = "idle" /\ UNCHANGED <<mode, profile, draft, ver, job, push, tag>>
    <3>1. /\ wk[w].pc = "idle" /\ UNCHANGED <<mode, profile, draft, ver, job, push, tag>>
          /\ wake # <<>> /\ wake' = Tail(wake)
      BY <1>2 DEF Pop, rows
    <3>2. QED
      BY <1>1, <3>1
  <2>2. CASE UNCHANGED wk
    <3>1. wk' = [wk EXCEPT ![w] = wk[w]] /\ wk[w] \in WorkerRow /\ wk[w].requeue = {} /\ wk[w].expire = {}
      BY <1>1, <2>1, <2>2 DEF WorkerType, WorkerRow, RecoveriesHold, Held
    <3>2. QED
      BY <1>1, <2>1, <3>1, LetGo DEF TagType
  <2>3. ASSUME NEW j \in Jobs, job[j].status = "queued",
               wk' = [wk EXCEPT ![w] = [Idle EXCEPT !.pc = "found", !.job = j]]
        PROVE  Inv'
    <3>1. /\ [Idle EXCEPT !.pc = "found", !.job = j] \in WorkerRow
          /\ [Idle EXCEPT !.pc = "found", !.job = j].pc = "found"
          /\ [Idle EXCEPT !.pc = "found", !.job = j].job = j
          /\ [Idle EXCEPT !.pc = "found", !.job = j].requeue = {}
          /\ [Idle EXCEPT !.pc = "found", !.job = j].expire = {}
      BY IdleRow DEF Idle, PCs
    <3>2. QED
      BY <1>1, <2>1, <2>3, <3>1, LetGo DEF TagType
  <2>4. QED
    BY <1>2, <2>2, <2>3 DEF Pop, JobsOf
<1>3. CASE LoseLease(w) \/ HeartbeatFails(w)
  <2>1. /\ wk' = [wk EXCEPT ![w] = Idle] /\ UNCHANGED <<mode, profile, draft, ver, job, push, wake>>
        /\ tag' = [tag EXCEPT ![wk[w].job] = NoLock]
    BY <1>3 DEF LoseLease, HeartbeatFails, rows
  <2>2. tag' \in TagType /\ \A j \in Jobs : tag'[j] \in {tag[j], NoLock}
    BY <1>1, <2>1 DEF TagType
  <2>3. QED
    BY <1>1, <2>1, <2>2, IdleRow, LetGo DEF Idle
<1>4. CASE Crash(w)
  <2> DEFINE to == [Idle EXCEPT !.pc = "boot"]
  <2>1. wk' = [wk EXCEPT ![w] = to] /\ UNCHANGED <<mode, profile, draft, ver, job, push, wake, tag>>
    BY <1>4 DEF Crash, rows
  <2>2. to \in WorkerRow /\ to.pc = "boot" /\ to.requeue = {} /\ to.expire = {}
    BY IdleRow DEF Idle, PCs
  <2> HIDE DEF to
  <2>3. QED
    BY <1>1, <2>1, <2>2, LetGo DEF TagType
<1>5. QED
  BY <1>2, <1>3, <1>4

LEMMA BuildImageStep ==
  ASSUME Inv, NEW w \in Workers, NEW lock \in Locks, BuildImage(w, lock)
  PROVE  Inv'
<1> USE DEF Inv
<1>1. tag \in TagType /\ job \in JobType /\ wk \in WorkerType
  BY DEF TypeInv
<1>2. wk[w].pc = "building" /\ wk[w].job \in Jobs /\ job[wk[w].job].status # "none"
  BY DEF BuildImage, WorkersKnow, Working
<1>3. /\ wk' \in WorkerType /\ wk'[w] = [wk[w] EXCEPT !.pc = "built"]
      /\ \A u \in Workers : u # w => wk'[u] = wk[u]
  BY <1>1 DEF BuildImage, WorkerType, PCs
<1>4. /\ tag' \in TagType /\ tag'[wk[w].job] = lock
      /\ \A j \in Jobs : j # wk[w].job => tag'[j] = tag[j]
  BY <1>1, <1>2 DEF BuildImage, TagType
<1>5. UNCHANGED <<mode, profile, draft, ver, job, wake, push>>
  BY DEF BuildImage, rows
<1>6. TypeInv'
  BY <1>3, <1>4, <1>5 DEF TypeInv
<1>7. JobsReal' /\ OneActive' /\ ImagesKept' /\ DraftKnows' /\ PublishedKept'
  BY <1>2, <1>4, <1>5 DEF JobsReal, OneActive, ImagesKept, DraftKnows, PublishedKept, Active
<1>8. /\ \A u \in Workers : /\ wk'[u].job = wk[u].job /\ wk'[u].lock = wk[u].lock
                            /\ wk'[u].seen = wk[u].seen
                            /\ wk'[u].requeue = wk[u].requeue /\ wk'[u].expire = wk[u].expire
                            /\ wk'[u].pc = IF u = w THEN "built" ELSE wk[u].pc
  BY <1>1, <1>3 DEF WorkerType
<1>9. WorkersKnow'
  BY <1>2, <1>5, <1>8 DEF WorkersKnow, Working
<1>10. RecoveriesHold'
  BY <1>2, <1>5, <1>8 DEF RecoveriesHold, Held
<1>11. LocksKept'
  BY <1>2, <1>4, <1>5, <1>8 DEF LocksKept, BuildImage
<1>12. QED
  BY <1>6, <1>7, <1>9, <1>10, <1>11

LEMMA RecoverUpdateStep ==
  ASSUME Inv, NEW w \in Workers, Recover(w)
  PROVE  Inv'
<1> USE DEF Inv
<1>1. wake \in Seq(Versions) /\ job \in JobType /\ wk \in WorkerType
  BY DEF TypeInv
<1>2. PICK expire \in SUBSET Stale : RecoverUpdate(w, expire)
  BY DEF Recover
<1>3. Stale \subseteq Jobs /\ \A j \in Stale : job[j].status = "building" /\ RowFree(j)
  BY DEF Stale
<1>4. /\ wk' \in WorkerType /\ wk'[w].pc = "recovering"
      /\ wk'[w].requeue = Stale \ expire /\ wk'[w].expire = expire
      /\ \A u \in Workers : u # w => wk'[u] = wk[u]
  <2> DEFINE to == [Idle EXCEPT !.pc = "recovering", !.requeue = Stale \ expire, !.expire = expire]
  <2>1. wk' = [wk EXCEPT ![w] = to]
    BY <1>2 DEF RecoverUpdate
  <2>2. /\ to \in WorkerRow /\ to.pc = "recovering"
        /\ to.requeue = Stale \ expire /\ to.expire = expire
    BY <1>3 DEF WorkerRow, Idle, PCs, VersionStatuses
  <2> HIDE DEF to
  <2>3. QED
    BY <1>1, <2>1, <2>2 DEF WorkerType, WorkerRow
<1>5. UNCHANGED <<mode, profile, draft, ver, job, push, tag>>
  BY <1>2 DEF RecoverUpdate, rows
<1>6. wake' \in Seq(Versions)
  <2>1. {job[j].ver : j \in Stale \ expire} \in SUBSET Versions
    BY <1>3 DEF JobsReal
  <2>2. QED
    BY <1>1, <1>2, <2>1, WakedType DEF RecoverUpdate
<1>7. TypeInv'
  BY <1>4, <1>5, <1>6 DEF TypeInv
<1>8. JobsReal' /\ OneActive' /\ ImagesKept' /\ DraftKnows' /\ PublishedKept'
  BY <1>5 DEF JobsReal, OneActive, ImagesKept, DraftKnows, PublishedKept, Active
<1>9. WorkersKnow' /\ LocksKept'
  BY <1>4, <1>5 DEF WorkersKnow, LocksKept, Working
<1>10. RecoveriesHold'
  <2>1. Held(w)' \subseteq Stale
    BY <1>4 DEF Held
  <2>2. \A u \in Workers : u # w => Held(u)' = Held(u)
    BY <1>4 DEF Held
  <2>3. \A u \in Workers : Held(u) \cap Stale = {}
    BY <1>3 DEF RowFree, Held
  <2>4. \A u, v \in Workers : u # v => Held(u)' \cap Held(v)' = {}
    BY <2>1, <2>2, <2>3 DEF RecoveriesHold
  <2>5. \A u \in Workers : \A j \in Held(u)' : job'[j].status = "building"
    BY <1>3, <1>5, <2>1, <2>2 DEF RecoveriesHold
  <2>6. \A u \in Workers : /\ wk'[u].pc # "recovering" => Held(u)' = {}
                           /\ wk'[u].requeue \cap wk'[u].expire = {}
    BY <1>4, <2>2 DEF RecoveriesHold
  <2>7. QED
    BY <2>4, <2>5, <2>6 DEF RecoveriesHold
<1>11. QED
  BY <1>7, <1>8, <1>9, <1>10

-----------------------------------------------------------------------------
(* The steps of one row.                                                    *)

LEMMA PushSteps == ASSUME Inv, Push \/ LosePush PROVE Inv'
<1> USE DEF Inv
<1>1. UNCHANGED <<mode, profile, draft, ver, job, tag, wk>> /\ push' = 0
  BY DEF Push, LosePush, rows
<1>2. wake' \in Seq(Versions)
  BY DEF Push, LosePush, TypeInv
<1>3. TypeInv'
  BY <1>1, <1>2 DEF TypeInv
<1>4. QED
  BY <1>1, <1>3 DEF JobsReal, OneActive, ImagesKept, DraftKnows, PublishedKept, WorkersKnow,
                    LocksKept, RecoveriesHold, Held, Active

LEMMA ClockSteps ==
  ASSUME Inv, \/ \E j \in Jobs : Lapse(j)
              \/ \E w \in Workers : Heartbeat(w)
  PROVE  Inv'
<1> USE DEF Inv
<1>1. job \in JobType
  BY DEF TypeInv
<1>2. PICK j \in Jobs, b \in BOOLEAN : job' = [job EXCEPT ![j].lapsed = b]
  BY DEF Lapse, Heartbeat, WorkersKnow, Working
<1>3. UNCHANGED <<mode, profile, draft, ver, wake, push, tag, wk>>
  BY DEF Lapse, Heartbeat
<1>4. /\ job' \in JobType
      /\ \A k \in Jobs : /\ job'[k].status = job[k].status /\ job'[k].ver = job[k].ver
                         /\ job'[k].token = job[k].token
  BY <1>1, <1>2 DEF JobType
<1>5. TypeInv' /\ JobsReal' /\ OneActive' /\ ImagesKept' /\ PublishedKept'
  BY <1>3, <1>4 DEF TypeInv, JobsReal, OneActive, ImagesKept, PublishedKept, Active
<1>6. DraftKnows'
  BY <1>3, <1>4 DEF DraftKnows
<1>7. WorkersKnow' /\ LocksKept'
  <2>1. \A k \in Jobs : tag[k] # NoLock => job[k].status # "none"
    BY DEF JobsReal
  <2>2. \A w \in Workers : wk[w].pc \in Working => wk[w].job \in Jobs
    BY DEF WorkersKnow
  <2>3. QED
    BY <1>3, <1>4, <2>1, <2>2 DEF WorkersKnow, LocksKept, Working
<1>8. RecoveriesHold'
  <2>1. \A w \in Workers : Held(w) \subseteq Jobs /\ Held(w)' = Held(w)
    BY <1>3 DEF TypeInv, WorkerType, Held
  <2>2. QED
    BY <1>3, <1>4, <2>1 DEF RecoveriesHold
<1>9. QED
  BY <1>5, <1>6, <1>7, <1>8

LEMMA CreateVersionStep ==
  ASSUME Inv, NEW v \in Versions, CreateProfileVersion(v)
  PROVE  Inv'
<1> USE DEF Inv
<1>1. ver \in VersionType /\ job \in JobType /\ wk \in WorkerType /\ profile \in ProfileType
  BY DEF TypeInv
<1>2. mode = "legacy" /\ ver[v].status = "none" /\ UNCHANGED <<mode, profile, draft, job, wake, push, tag, wk>>
  BY DEF CreateProfileVersion, NextVersion
<1>3. /\ ver' \in VersionType /\ ver'[v].status = "draft" /\ ver'[v].image = NoLock
      /\ ver'[v].published = FALSE /\ \A u \in Versions : u # v => ver'[u] = ver[u]
  BY <1>1, Kinds DEF CreateProfileVersion, NoVersion, VersionType, VersionStatuses
<1>4. TypeInv' /\ JobsReal'
  BY <1>2, <1>3 DEF TypeInv, JobsReal
<1>5. OneActive'
  BY <1>2, <1>3 DEF OneActive, JobsReal, Active
<1>6. ImagesKept' /\ LocksKept'
  BY <1>2, <1>3 DEF ImagesKept, LocksKept
<1>7. DraftKnows' /\ WorkersKnow' /\ RecoveriesHold'
  BY <1>2 DEF DraftKnows, WorkersKnow, RecoveriesHold, Held
<1>8. PublishedKept'
  <2>1. \A u \in Versions : ver'[u].published => u # v
    BY <1>3
  <2>2. QED
    BY <1>2, <1>3, <2>1 DEF PublishedKept
<1>9. QED
  BY <1>4, <1>5, <1>6, <1>7, <1>8

\* What a worker that owns its job may rely on.
LEMMA Owner ==
  ASSUME Inv, NEW w \in Workers, wk[w].pc \in Working, Owns(w)
  PROVE  LET j == wk[w].job  v == job[j].ver
         IN  /\ j \in Jobs /\ v \in Versions /\ job[j].status = "building" /\ ver[v].status \in Active
             /\ ver[v].image = NoLock /\ ver[v].published = FALSE
             /\ \A k \in Jobs : job[k].status \in Active /\ job[k].ver = v => k = j
             /\ \A u \in Workers : j \notin Held(u)
             /\ wk[w].seen \notin Frozen
<1> DEFINE j == wk[w].job
           v == job[j].ver
<1> USE DEF Inv
<1>1. j \in Jobs /\ job[j].status = "building" /\ wk[w].seen = "building"
  BY DEF Owns, WorkersKnow
<1>2. v \in Versions /\ ver[v].status \in Active
  BY <1>1 DEF JobsReal, OneActive, Active
<1>3. ver[v].image = NoLock
  BY <1>2 DEF ImagesKept, Active
<1>4. ver[v].published = FALSE
  BY <1>2 DEF PublishedKept, Active, TypeInv, VersionType
<1>5. \A k \in Jobs : job[k].status \in Active /\ job[k].ver = v => k = j
  BY <1>1 DEF OneActive, Active
<1>6. \A u \in Workers : j \notin Held(u)
  BY DEF Owns, RowFree, Held
<1>7. QED
  BY <1>1, <1>2, <1>3, <1>4, <1>5, <1>6 DEF Frozen

\* The locks stay as they are where no lock, tag or building job changes.
LEMMA LocksFrame ==
  ASSUME Inv, UNCHANGED mode,
         \A k \in Jobs : job[k].status # "none" => job'[k].ver = job[k].ver,
         \A k \in Jobs : tag'[k] \in {tag[k], NoLock},
         \A u \in Versions : ver[u].status # "none" => ver'[u].lock = ver[u].lock,
         \A u \in Workers : wk'[u].pc \in Working =>
           /\ wk'[u] = wk[u]
           /\ job'[wk[u].job].status = "building" =>
                /\ job[wk[u].job].status = "building"
                /\ job'[wk[u].job].token = job[wk[u].job].token
  PROVE  LocksKept'
<1> USE DEF Inv
<1>1. ASSUME NEW k \in Jobs, job[k].status # "none"
      PROVE  ver'[job'[k].ver].lock = ver[job[k].ver].lock
  BY <1>1 DEF JobsReal
<1>2. ASSUME mode = "v2", NEW k \in Jobs, tag'[k] # NoLock
      PROVE  tag'[k] = ver'[job'[k].ver].lock
  <2>1. tag'[k] = tag[k] /\ tag[k] # NoLock
    BY <1>2
  <2>2. job[k].status # "none"
    BY <2>1 DEF JobsReal
  <2>3. tag[k] = ver[job[k].ver].lock
    BY <1>2, <2>1 DEF LocksKept
  <2>4. QED
    BY <1>1, <2>1, <2>2, <2>3
<1>3. ASSUME mode = "v2", NEW u \in Workers, wk'[u].pc \in Working
      PROVE  /\ wk'[u].pc \in {"building", "built"} =>
                  wk'[u].lock # NoLock /\ wk'[u].lock = ver'[job'[wk'[u].job].ver].lock
             /\ wk'[u].pc = "resolving" /\ job'[wk'[u].job].status = "building"
                  /\ job'[wk'[u].job].token = u => ver'[job'[wk'[u].job].ver].lock = NoLock
  <2>1. wk'[u] = wk[u] /\ wk[u].pc \in Working
    BY <1>3
  <2>2. wk[u].job \in Jobs /\ job[wk[u].job].status # "none"
    BY <2>1 DEF WorkersKnow
  <2>3. ver'[job'[wk[u].job].ver].lock = ver[job[wk[u].job].ver].lock
    BY <1>1, <2>2
  <2>4. job'[wk[u].job].status = "building" =>
          job[wk[u].job].status = "building" /\ job'[wk[u].job].token = job[wk[u].job].token
    BY <1>3
  <2>5. QED
    BY <1>3, <2>1, <2>3, <2>4 DEF LocksKept
<1>4. QED
  BY <1>2, <1>3 DEF LocksKept, Working

\* A job ends, and its version and its draft with it.
Ended(w, s) ==
  LET j == wk[w].job  v == job[j].ver
  IN  /\ job' \in JobType /\ job'[j].status = s /\ job'[j].ver = v
      /\ \A k \in Jobs : k # j => job'[k] = job[k]
      /\ wk' = [wk EXCEPT ![w] = Idle] /\ UNCHANGED <<mode, profile, wake, push>>
      /\ tag' \in TagType /\ \A k \in Jobs : tag'[k] \in {tag[k], NoLock}
      /\ ver' \in VersionType /\ \A u \in Versions : u # v => ver'[u] = ver[u]
      /\ ver'[v].spec = ver[v].spec /\ ver'[v].lock = ver[v].lock
      /\ ver'[v].published = ver[v].published
      /\ IF s = "succeeded"
         THEN /\ ver'[v].status = "available" /\ ver'[v].image = tag[j]
              /\ wk[w].pc = "built" /\ tag[j] # NoLock
         ELSE ver'[v].status = "failed" /\ ver'[v].image = ver[v].image
      /\ \/ (mode = "legacy" \/ s = "raised") /\ draft' = draft
         \/ /\ mode = "v2" /\ s # "raised" /\ draft' \in DraftType /\ draft'.job = 0
            /\ draft'.cand = draft.cand /\ draft'.spec = draft.spec
            /\ draft'.state = IF s = "succeeded" THEN "ready" ELSE "failed"

LEMMA EndStep ==
  ASSUME Inv, NEW w \in Workers, wk[w].pc \in Working, Owns(w),
         NEW s \in {"succeeded"} \cup Failed, Ended(w, s)
  PROVE  Inv'
<1> DEFINE j == wk[w].job
           v == job[j].ver
<1>1. /\ j = wk[w].job /\ v = job[j].ver
      /\ j \in Jobs /\ v \in Versions /\ job[j].status = "building" /\ ver[v].status \in Active
      /\ ver[v].image = NoLock /\ ver[v].published = FALSE
      /\ \A k \in Jobs : job[k].status \in Active /\ job[k].ver = v => k = j
      /\ \A u \in Workers : j \notin Held(u)
  BY Owner
<1>2. /\ job' \in JobType /\ job'[j].status = s /\ job'[j].ver = v
      /\ \A k \in Jobs : k # j => job'[k] = job[k]
      /\ wk' = [wk EXCEPT ![w] = Idle] /\ UNCHANGED <<mode, profile, wake, push>>
      /\ tag' \in TagType /\ \A k \in Jobs : tag'[k] \in {tag[k], NoLock}
  BY DEF Ended
<1>3. /\ ver' \in VersionType /\ \A u \in Versions : u # v => ver'[u] = ver[u]
      /\ ver'[v].spec = ver[v].spec /\ ver'[v].lock = ver[v].lock
      /\ ver'[v].published = ver[v].published
      /\ s = "succeeded" => /\ ver'[v].status = "available" /\ ver'[v].image = tag[j]
                            /\ wk[w].pc = "built" /\ tag[j] # NoLock
      /\ s # "succeeded" => ver'[v].status = "failed" /\ ver'[v].image = ver[v].image
  BY DEF Ended
<1>4. \/ (mode = "legacy" \/ s = "raised") /\ draft' = draft
      \/ /\ mode = "v2" /\ draft' \in DraftType /\ draft'.job = 0
         /\ draft'.cand = draft.cand /\ draft'.spec = draft.spec
         /\ \/ s = "succeeded" /\ draft'.state = "ready"
            \/ s = "failed" /\ draft'.state = "failed"
  BY DEF Ended, Failed
<1> HIDE DEF j, v
<1>5. /\ draft \in DraftType /\ ver \in VersionType /\ mode \in {"v2", "legacy"}
      /\ job \in JobType /\ wk \in WorkerType /\ tag \in TagType
  BY Kinds DEF Inv, TypeInv
<1>6. /\ s \notin Active /\ s # "none" /\ s # "building"
      /\ ver'[v].status \in {"available", "failed"}
  BY <1>3 DEF Failed, Active
<1>7. /\ wk' \in WorkerType /\ wk'[w] = Idle /\ \A u \in Workers : u # w => wk'[u] = wk[u]
  <2>1. Idle \in WorkerRow
    BY DEF Idle, WorkerRow, PCs, VersionStatuses
  <2>2. wk' = [wk EXCEPT ![w] = Idle]
    BY <1>2
  <2>3. QED
    BY <1>5, <2>1, <2>2 DEF WorkerType, WorkerRow
<1>8. TypeInv'
  BY <1>2, <1>3, <1>4, <1>7 DEF Inv, TypeInv
<1>9. JobsReal'
  BY <1>1, <1>2, <1>3, <1>6 DEF Inv, JobsReal
<1>10. OneActive'
  <2>1. \A k \in Jobs : job'[k].status \in Active => /\ k # j /\ job'[k] = job[k] /\ job[k].ver # v
    BY <1>1, <1>2, <1>6
  <2>2. \A k \in Jobs : job[k].status \in Active => job[k].ver \in Versions
    BY DEF Inv, JobsReal, Active
  <2>3. \A u \in Versions : ver'[u].status \in Active => u # v
    BY <1>6 DEF Active
  <2>4. \A k, l \in Jobs : job'[k].status \in Active /\ job'[l].status \in Active
                           /\ job'[k].ver = job'[l].ver => k = l
    BY <2>1 DEF Inv, OneActive
  <2>5. \A k \in Jobs : job'[k].status \in Active => ver'[job'[k].ver].status \in Active
    BY <1>3, <2>1, <2>2 DEF Inv, OneActive
  <2>6. ASSUME NEW u \in Versions, ver'[u].status \in Active
        PROVE  \E k \in Jobs : job'[k].status \in Active /\ job'[k].ver = u
    <3>1. u # v /\ ver[u].status \in Active
      BY <1>3, <2>3, <2>6
    <3>2. PICK k \in Jobs : job[k].status \in Active /\ job[k].ver = u
      BY <3>1 DEF Inv, OneActive
    <3>3. job'[k] = job[k]
      BY <1>1, <1>2, <3>1, <3>2
    <3>4. QED
      BY <3>2, <3>3
  <2>7. QED
    BY <2>4, <2>5, <2>6 DEF OneActive
<1>11. ImagesKept'
  <2>1. mode = "v2" /\ tag[j] # NoLock => tag[j] = ver[v].lock
    BY <1>1 DEF Inv, LocksKept
  <2>2. /\ ver'[v].status = "available" <=> ver'[v].image # NoLock
        /\ mode = "v2" /\ ver'[v].image # NoLock => ver'[v].image = ver'[v].lock
    BY <1>1, <1>3, <1>6, <2>1
  <2>3. QED
    BY <1>2, <1>3, <2>2 DEF Inv, ImagesKept
<1>12. DraftKnows'
  <2>1. CASE mode = "legacy"
    <3>1. mode' = "legacy" /\ draft' = draft /\ draft.state = "none"
      BY <1>2, <1>4, <2>1 DEF Inv, DraftKnows
    <3>2. draft.job = 0
      BY <3>1 DEF Inv, DraftKnows
    <3>3. QED
      BY <3>1, <3>2 DEF Inv, DraftKnows
  <2>2. CASE mode = "v2"
    <3>1. /\ draft.state = "building" /\ draft.job = j /\ draft.cand = v
          /\ \A k \in Jobs : job[k].status \in Active => k = j
      BY <1>1, <2>2 DEF Inv, DraftKnows, Active
    <3>2. ver[v].spec = draft.spec
      BY <3>1 DEF Inv, DraftKnows
    <3>3. \A k \in Jobs : job'[k].status \notin Active
      BY <1>2, <1>6, <3>1
    <3>4. CASE s = "raised"
      <4>1. draft' = draft
        BY <1>4, <3>4
      <4>2. ver'[v].spec = draft.spec /\ job'[j].status = "raised" /\ job'[j].ver = v
        BY <1>2, <1>3, <3>2, <3>4
      <4>3. QED
        BY <1>1, <1>2, <2>2, <3>1, <3>3, <4>1, <4>2 DEF DraftKnows
    <3>5. CASE s = "succeeded"
      <4>1. /\ draft'.job = 0 /\ draft'.cand = v /\ draft'.spec = draft.spec
            /\ draft'.state = "ready" /\ ver'[v].spec = draft.spec /\ ver'[v].status = "available"
        BY <1>3, <1>4, <2>2, <3>1, <3>2, <3>5
      <4>2. QED
        BY <1>1, <1>2, <2>2, <3>3, <4>1 DEF DraftKnows
    <3>6. CASE s = "failed"
      <4>1. draft'.job = 0 /\ draft'.state = "failed" /\ mode' = "v2"
        BY <1>2, <1>4, <2>2, <3>6
      <4>2. QED
        BY <3>3, <4>1 DEF DraftKnows
    <3>7. QED
      BY <3>4, <3>5, <3>6 DEF Failed
  <2>3. QED
    BY <1>5, <2>1, <2>2
<1>13. PublishedKept'
  <2>1. \A u \in Versions : u # v => ver'[u].published = ver[u].published /\ ver'[u].status = ver[u].status
    BY <1>3
  <2>2. ver'[v].published = FALSE
    BY <1>1, <1>3
  <2>3. \A u \in Versions : ver'[u].published => u # v /\ ver[u].published
    BY <2>1, <2>2
  <2>4. \A u \in Versions : ver'[u].published => ver'[u].status = "available" /\ profile'.current # 0
    BY <1>2, <2>1, <2>3 DEF Inv, PublishedKept
  <2>5. profile.current # 0 => profile.current \in Versions /\ ver[profile.current].published
    BY DEF Inv, TypeInv, ProfileType, PublishedKept
  <2>6. profile.current # 0 => ver'[profile.current].published
    BY <1>1, <2>1, <2>5
  <2>7. mode = "legacy" => profile.current = 0
    BY DEF Inv, PublishedKept
  <2>8. QED
    BY <1>2, <2>4, <2>6, <2>7 DEF PublishedKept
<1>14. WorkersKnow'
  <2>1. \A k \in Jobs : job[k].status # "none" => job'[k].status # "none"
    BY <1>2, <1>6
  <2>2. QED
    BY <1>7, <2>1 DEF Inv, WorkersKnow, Idle, Working
<1>15. LocksKept'
  <2>1. \A k \in Jobs : job'[k].ver = job[k].ver
    BY <1>1, <1>2
  <2>2. \A u \in Versions : ver'[u].lock = ver[u].lock
    BY <1>1, <1>3
  <2>3. \A u \in Workers : wk'[u].pc \in Working =>
          wk'[u] = wk[u] /\ wk[u].job \in Jobs
    BY <1>7 DEF Inv, Idle, Working, WorkersKnow
  <2>4. \A k \in Jobs : job'[k].status = "building" => job'[k] = job[k]
    BY <1>2, <1>6
  <2>5. QED
    BY <1>2, <2>1, <2>2, <2>3, <2>4, LocksFrame
<1>16. RecoveriesHold'
  <2>1. Held(w)' = {} /\ wk'[w].requeue \cap wk'[w].expire = {}
    BY <1>7 DEF Held, Idle
  <2>2. \A u \in Workers : u # w => Held(u)' = Held(u)
    BY <1>7 DEF Held
  <2>3. \A u \in Workers : Held(u) \subseteq Jobs
    BY <1>5 DEF WorkerType, Held
  <2>4. \A u \in Workers : \A k \in Held(u) : job'[k] = job[k]
    BY <1>1, <1>2, <2>3
  <2>5. QED
    BY <1>7, <2>1, <2>2, <2>3, <2>4 DEF Inv, RecoveriesHold
<1>17. QED
  BY <1>8, <1>9, <1>10, <1>11, <1>12, <1>13, <1>14, <1>15, <1>16 DEF Inv

LEMMA EndSteps ==
  ASSUME Inv, NEW w \in Workers, Finish(w) \/ FailBuild(w) \/ MainFlowRaises(w)
  PROVE  Inv'
<1> USE DEF Inv
<1> DEFINE j == wk[w].job
           v == job[j].ver
<1>1. /\ draft \in DraftType /\ ver \in VersionType /\ mode \in {"v2", "legacy"}
      /\ job \in JobType /\ tag \in TagType
  BY Kinds DEF TypeInv
<1>2. wk[w].pc \in Working /\ Owns(w) /\ wk' = [wk EXCEPT ![w] = Idle] /\ UNCHANGED <<mode, profile, wake, push>>
  BY DEF Finish, FailBuild, MainFlowRaises, Working
<1>3. j \in Jobs /\ v \in Versions /\ wk[w].seen \notin Frozen
  BY <1>2, Owner
<1>4. ASSUME NEW s \in {"succeeded"} \cup Failed,
             job' = [job EXCEPT ![j] = [job[j] EXCEPT !.status = s, !.lapsed = FALSE]]
      PROVE  job' \in JobType /\ job'[j].status = s /\ job'[j].ver = v
             /\ \A k \in Jobs : k # j => job'[k] = job[k]
  BY <1>1, <1>3, <1>4 DEF JobType
<1>5. ASSUME ver' = [ver EXCEPT ![v].status = "failed"]
      PROVE  /\ ver' \in VersionType /\ \A u \in Versions : u # v => ver'[u] = ver[u]
             /\ ver'[v].spec = ver[v].spec /\ ver'[v].lock = ver[v].lock
             /\ ver'[v].published = ver[v].published
             /\ ver'[v].status = "failed" /\ ver'[v].image = ver[v].image
  BY <1>1, <1>3, <1>5 DEF VersionType, VersionStatuses
<1>6. mode = "v2" => draft.job = j /\ draft.cand = v
  <2>1. job[j].status \in Active
    BY <1>2 DEF Owns, Active
  <2>2. QED
    BY <1>3, <2>1 DEF DraftKnows
<1>7. CASE Finish(w)
  <2>1. job' = [job EXCEPT ![j] = [job[j] EXCEPT !.status = "succeeded", !.lapsed = FALSE]]
    BY <1>7 DEF Finish
  <2>2. ver' = [ver EXCEPT ![v] = [ver[v] EXCEPT !.status = "available", !.image = tag[j]]]
    BY <1>7 DEF Finish
  <2>3. wk[w].pc = "built" /\ tag[j] # NoLock
    BY <1>7 DEF Finish
  <2> DEFINE row == [ver[v] EXCEPT !.status = "available", !.image = tag[j]]
  <2>9. row \in VersionRow /\ row.spec = ver[v].spec /\ row.lock = ver[v].lock
        /\ row.published = ver[v].published /\ row.status = "available" /\ row.image = tag[j]
    <3>1. ver[v] \in VersionRow /\ tag[j] \in Locks \cup {NoLock}
      BY <1>1, <1>3 DEF VersionType, VersionRow, TagType
    <3> HIDE DEF v, j
    <3>2. QED
      BY <3>1 DEF VersionRow, VersionStatuses
  <2>10. ver' = [ver EXCEPT ![v] = row]
    BY <2>2
  <2> HIDE DEF row
  <2>4. /\ ver' \in VersionType /\ \A u \in Versions : u # v => ver'[u] = ver[u]
        /\ ver'[v].spec = ver[v].spec /\ ver'[v].lock = ver[v].lock
        /\ ver'[v].published = ver[v].published
        /\ ver'[v].status = "available" /\ ver'[v].image = tag[j]
    BY <1>1, <1>3, <2>9, <2>10 DEF VersionType, VersionRow
  <2>5. \/ mode = "legacy" /\ draft' = draft
        \/ /\ mode = "v2" /\ draft' \in DraftType /\ draft'.job = 0
           /\ draft'.cand = draft.cand /\ draft'.spec = draft.spec /\ draft'.state = "ready"
    BY <1>1, <1>6, <1>7 DEF Finish, Ready, DraftType
  <2>6. tag' \in TagType /\ \A k \in Jobs : tag'[k] \in {tag[k], NoLock}
    BY <1>1, <1>7 DEF Finish, TagType
  <2>11. /\ job' \in JobType /\ job'[j].status = "succeeded" /\ job'[j].ver = v
         /\ \A k \in Jobs : k # j => job'[k] = job[k]
    BY <1>4, <2>1 DEF Failed
  <2>7. Ended(w, "succeeded")
    BY <1>2, <2>3, <2>4, <2>5, <2>6, <2>11 DEF Ended
  <2>8. QED
    BY <1>2, <2>7, EndStep
<1>8. CASE FailBuild(w)
  <2>1. job' = [job EXCEPT ![j] = [job[j] EXCEPT !.status = "failed", !.lapsed = FALSE]]
    BY <1>8 DEF FailBuild
  <2>2. ver' = [ver EXCEPT ![v].status = "failed"]
    BY <1>3, <1>8 DEF FailBuild, VersionFailed
  <2>3. \/ mode = "legacy" /\ draft' = draft
        \/ /\ mode = "v2" /\ draft' \in DraftType /\ draft'.job = 0
           /\ draft'.cand = draft.cand /\ draft'.spec = draft.spec /\ draft'.state = "failed"
    BY <1>1, <1>6, <1>8 DEF FailBuild, Released, DraftType
  <2>4. tag' \in TagType /\ \A k \in Jobs : tag'[k] \in {tag[k], NoLock}
    BY <1>1, <1>8 DEF FailBuild, TagType
  <2>5. "failed" \in {"succeeded"} \cup Failed
    BY DEF Failed
  <2>11. /\ job' \in JobType /\ job'[j].status = "failed" /\ job'[j].ver = v
         /\ \A k \in Jobs : k # j => job'[k] = job[k]
    BY <1>4, <2>1 DEF Failed
  <2>12. /\ ver' \in VersionType /\ \A u \in Versions : u # v => ver'[u] = ver[u]
         /\ ver'[v].spec = ver[v].spec /\ ver'[v].lock = ver[v].lock
         /\ ver'[v].published = ver[v].published
         /\ ver'[v].status = "failed" /\ ver'[v].image = ver[v].image
    BY <1>5, <2>2
  <2>6. Ended(w, "failed")
    BY <1>2, <2>3, <2>4, <2>5, <2>11, <2>12 DEF Ended
  <2>7. QED
    BY <1>2, <2>5, <2>6, EndStep
<1>9. CASE MainFlowRaises(w)
  <2>1. job' = [job EXCEPT ![j] = [job[j] EXCEPT !.status = "raised", !.lapsed = FALSE]]
    BY <1>9 DEF MainFlowRaises
  <2>2. ver' = [ver EXCEPT ![v].status = "failed"]
    BY <1>3, <1>9 DEF MainFlowRaises, VersionFailed
  <2>3. draft' = draft /\ tag' = tag
    BY <1>9 DEF MainFlowRaises
  <2>4. "raised" \in {"succeeded"} \cup Failed
    BY DEF Failed
  <2>5. tag' \in TagType /\ \A k \in Jobs : tag'[k] \in {tag[k], NoLock}
    BY <1>1, <2>3
  <2>11. /\ job' \in JobType /\ job'[j].status = "raised" /\ job'[j].ver = v
         /\ \A k \in Jobs : k # j => job'[k] = job[k]
    BY <1>4, <2>1 DEF Failed
  <2>12. /\ ver' \in VersionType /\ \A u \in Versions : u # v => ver'[u] = ver[u]
         /\ ver'[v].spec = ver[v].spec /\ ver'[v].lock = ver[v].lock
         /\ ver'[v].published = ver[v].published
         /\ ver'[v].status = "failed" /\ ver'[v].image = ver[v].image
    BY <1>5, <2>2
  <2>6. Ended(w, "raised")
    BY <1>2, <2>3, <2>4, <2>5, <2>11, <2>12 DEF Ended
  <2>7. QED
    BY <1>2, <2>4, <2>6, EndStep
<1>10. QED
  BY <1>7, <1>8, <1>9
-----------------------------------------------------------------------------
(* Claim, resolution, recovery.                                             *)

LEMMA ClaimStep ==
  ASSUME Inv, NEW w \in Workers, Claim(w)
  PROVE  Inv'
<1> DEFINE j == wk[w].job
           v == job[j].ver
<1>1. /\ draft \in DraftType /\ ver \in VersionType /\ mode \in {"v2", "legacy"}
      /\ job \in JobType /\ tag \in TagType /\ wk \in WorkerType /\ wake \in Seq(Versions)
  BY Kinds DEF Inv, TypeInv
<1>2. wk[w].pc = "found" /\ j \in Jobs /\ UNCHANGED <<mode, profile, draft, wake, push, tag>>
  BY DEF Claim, Inv, WorkersKnow
<1>3. CASE job[j].status # "queued"
  <2>1. wk' = [wk EXCEPT ![w] = Idle] /\ UNCHANGED <<ver, job>>
    BY <1>3 DEF Claim
  <2>2. Idle \in WorkerRow /\ Idle.pc = "idle" /\ Idle.requeue = {} /\ Idle.expire = {}
    BY DEF Idle, WorkerRow, PCs, VersionStatuses
  <2>3. QED
    BY <1>1, <1>2, <2>1, <2>2, LetGo
<1>4. CASE job[j].status = "queued"
  <2> DEFINE pc == IF mode = "v2" /\ ver[v].lock = NoLock THEN "resolving" ELSE "building"
             to == [Idle EXCEPT !.pc = pc, !.job = j, !.lock = ver[v].lock, !.seen = Building(v)]
             row == [job[j] EXCEPT !.status = "building", !.token = w, !.lapsed = FALSE]
  <2>1. v \in Versions /\ ver[v].status \in Active
    BY <1>2, <1>4 DEF Inv, JobsReal, OneActive, Active
  <2>2. Building(v) = "building" /\ ver[v].lock \in Locks \cup {NoLock}
    BY <1>1, <2>1 DEF Building, Active, Frozen, VersionType
  <2>3. job' = [job EXCEPT ![j] = row] /\ wk' = [wk EXCEPT ![w] = to]
        /\ ver' = [ver EXCEPT ![v].status = "building"]
    BY <1>4, <2>2 DEF Claim
  <2>4. /\ to \in WorkerRow /\ to.pc = pc /\ to.job = j /\ to.lock = ver[v].lock /\ to.seen = "building"
        /\ to.requeue = {} /\ to.expire = {}
    <3> HIDE DEF v, j
    <3>1. QED
      BY <1>2, <2>2 DEF Idle, WorkerRow, PCs, VersionStatuses
  <2> HIDE DEF to
  <2>5. wk' \in WorkerType /\ wk'[w] = to /\ \A u \in Workers : u # w => wk'[u] = wk[u]
    BY <1>1, <2>3, <2>4 DEF WorkerType, WorkerRow
  <2>6. /\ job' \in JobType /\ job'[j].status = "building" /\ job'[j].ver = v /\ job'[j].token = w
        /\ \A k \in Jobs : k # j => job'[k] = job[k]
    <3> DEFINE R == [status : {"none", "queued", "building", "succeeded"} \cup Failed,
                     ver : Versions \cup {0}, token : Workers \cup {"none"}, lapsed : BOOLEAN]
    <3>1. job \in [Jobs -> R] /\ job[j] \in R
      BY <1>1, <1>2 DEF JobType
    <3>2. row \in R /\ row.status = "building" /\ row.token = w /\ row.ver = job[j].ver
      <4> HIDE DEF j
      <4>1. QED
        BY <3>1
    <3> HIDE DEF j, row, R
    <3>3. job' \in [Jobs -> R] /\ job'[j] = row /\ \A k \in Jobs : k # j => job'[k] = job[k]
      BY <1>2, <2>3, <3>1, <3>2
    <3>4. QED
      BY <3>2, <3>3 DEF JobType, R, v
  <2>7. /\ ver' \in VersionType /\ ver'[v].status = "building"
        /\ \A u \in Versions : /\ ver'[u].lock = ver[u].lock /\ ver'[u].image = ver[u].image
                               /\ ver'[u].spec = ver[u].spec /\ ver'[u].published = ver[u].published
                               /\ u # v => ver'[u].status = ver[u].status
    <3> HIDE DEF v
    <3>1. QED
      BY <1>1, <2>1, <2>3 DEF VersionType, VersionStatuses
  <2>0. /\ v = job[j].ver /\ job[j].status = "queued"
        /\ pc = IF mode = "v2" /\ ver[v].lock = NoLock THEN "resolving" ELSE "building"
    BY <1>4
  <2> HIDE DEF v, j, row, pc
  <2>8. TypeInv'
    BY <1>2, <2>5, <2>6, <2>7 DEF Inv, TypeInv
  <2>9. /\ \A k \in Jobs : job'[k].ver = job[k].ver
        /\ \A k \in Jobs : job'[k].status \in Active <=> job[k].status \in Active
        /\ \A k \in Jobs : job'[k].status = "none" <=> job[k].status = "none"
        /\ \A u \in Versions : ver'[u].status \in Active <=> ver[u].status \in Active
        /\ \A u \in Versions : ver'[u].status = "available" <=> ver[u].status = "available"
        /\ \A u \in Versions : ver'[u].status = "none" <=> ver[u].status = "none"
    <3>1. /\ \A k \in Jobs : job'[k].ver = job[k].ver
          /\ \A k \in Jobs : job'[k].status \in Active <=> job[k].status \in Active
          /\ \A k \in Jobs : job'[k].status = "none" <=> job[k].status = "none"
      BY <2>0, <2>6 DEF Active
    <3>2. /\ \A u \in Versions : ver'[u].status \in Active <=> ver[u].status \in Active
          /\ \A u \in Versions : ver'[u].status = "available" <=> ver[u].status = "available"
          /\ \A u \in Versions : ver'[u].status = "none" <=> ver[u].status = "none"
      BY <2>1, <2>7 DEF Active
    <3>3. QED
      BY <3>1, <3>2
  <2>10. JobsReal'
    BY <1>2, <2>9 DEF Inv, JobsReal
  <2>11. OneActive'
    <3>1. \A k \in Jobs : job[k].status \in Active => job[k].ver \in Versions
      BY DEF Inv, JobsReal, Active
    <3>2. QED
      BY <2>9, <3>1 DEF Inv, OneActive
  <2>12. ImagesKept'
    <3>1. \A u \in Versions : ver'[u].status = "available" <=> ver'[u].image # NoLock
      BY <2>7, <2>9 DEF Inv, ImagesKept
    <3>2. ASSUME NEW u \in Versions, mode = "v2", ver'[u].image # NoLock
          PROVE  ver'[u].image = ver'[u].lock
      BY <2>7, <3>2 DEF Inv, ImagesKept
    <3>3. QED
      BY <1>2, <3>1, <3>2 DEF ImagesKept
  <2>13. DraftKnows'
    <3>1. \A k \in Jobs : job[k].status = "raised" => job'[k].status = "raised"
      BY <1>4, <2>6
    <3>2. /\ \A k \in Jobs : job'[k].status \in Active => job[k].status \in Active
          /\ \A k \in Jobs : job[k].status \in Active => job'[k].status \in Active
          /\ \A k \in Jobs : job'[k].ver = job[k].ver
      BY <2>9
    <3>3. /\ \A u \in Versions : ver'[u].spec = ver[u].spec
          /\ \A u \in Versions : ver[u].status = "available" => ver'[u].status = "available"
      BY <2>7, <2>9
    <3>4. QED
      BY <1>2, <3>1, <3>2, <3>3 DEF Inv, DraftKnows
  <2>14. PublishedKept'
    <3>1. profile.current # 0 => profile.current \in Versions
      BY DEF Inv, TypeInv, ProfileType
    <3>2. /\ \A u \in Versions : ver'[u].published = ver[u].published
          /\ \A u \in Versions : ver[u].status = "available" => ver'[u].status = "available"
      BY <2>7, <2>9
    <3>3. QED
      BY <1>2, <3>1, <3>2 DEF Inv, PublishedKept
  <2>15. WorkersKnow'
    BY <1>2, <2>4, <2>5, <2>6, <2>9 DEF Inv, WorkersKnow, Working
  <2>16. LocksKept'
    <3>1. ASSUME NEW k \in Jobs, job[k].status # "none"
          PROVE  ver'[job'[k].ver].lock = ver[job[k].ver].lock
      <4>1. job[k].ver \in Versions /\ job'[k].ver = job[k].ver
        BY <2>9, <3>1 DEF Inv, JobsReal
      <4>2. QED
        BY <2>7, <4>1
    <3>2. ASSUME mode = "v2", NEW k \in Jobs, tag[k] # NoLock
          PROVE  tag[k] = ver'[job'[k].ver].lock
      BY <3>1, <3>2 DEF Inv, JobsReal, LocksKept
    <3>3. mode = "v2" => /\ pc = "resolving" => ver'[job'[j].ver].lock = NoLock
                         /\ pc # "resolving" => to.lock # NoLock /\ to.lock = ver'[job'[j].ver].lock
      BY <2>0, <2>1, <2>4, <2>6, <2>7
    <3>4. ASSUME mode = "v2", NEW u \in Workers, u # w, wk[u].pc \in {"building", "built"}
          PROVE  wk[u].lock # NoLock /\ wk[u].lock = ver'[job'[wk[u].job].ver].lock
      <4>1. wk[u].job \in Jobs /\ job[wk[u].job].status # "none"
        BY <3>4 DEF Inv, WorkersKnow, Working
      <4>2. QED
        BY <3>1, <3>4, <4>1 DEF Inv, LocksKept
    <3>5. ASSUME mode = "v2", NEW u \in Workers, u # w, wk[u].pc = "resolving",
                 job'[wk[u].job].status = "building", job'[wk[u].job].token = u
          PROVE  ver'[job'[wk[u].job].ver].lock = NoLock
      <4>1. wk[u].job \in Jobs /\ job[wk[u].job].status # "none"
        BY <3>5 DEF Inv, WorkersKnow, Working
      <4>2. wk[u].job # j
        BY <2>6, <3>5
      <4>3. job'[wk[u].job] = job[wk[u].job]
        BY <2>6, <4>1, <4>2
      <4>4. QED
        BY <3>1, <3>5, <4>1, <4>3 DEF Inv, LocksKept
    <3>6. pc \in {"resolving", "building"}
      BY <2>0
    <3>7. \A u \in Workers : u = w => /\ wk'[u].pc = pc /\ wk'[u].job = j /\ wk'[u].lock = to.lock
      BY <2>4, <2>5
    <3>8. QED
      BY <1>2, <2>5, <3>2, <3>3, <3>4, <3>5, <3>6, <3>7 DEF LocksKept
  <2>17. RecoveriesHold'
    <3>1. Held(w)' = {} /\ wk'[w].requeue \cap wk'[w].expire = {}
      BY <2>4, <2>5 DEF Held
    <3>2. \A u \in Workers : u # w => Held(u)' = Held(u)
      BY <2>5 DEF Held
    <3>3. \A u \in Workers : Held(u) \subseteq Jobs
      BY <1>1 DEF WorkerType, Held
    <3>4. \A u \in Workers : \A k \in Held(u) : job'[k].status = "building"
      BY <2>0, <2>6, <3>3 DEF Inv, RecoveriesHold
    <3>5. QED
      BY <2>5, <3>1, <3>2, <3>4 DEF Inv, RecoveriesHold
  <2>18. QED
    BY <2>8, <2>10, <2>11, <2>12, <2>13, <2>14, <2>15, <2>16, <2>17 DEF Inv
<1>5. QED
  BY <1>3, <1>4

LEMMA ResolveStep ==
  ASSUME Inv, NEW w \in Workers, NEW lock \in Locks, Resolve(w, lock)
  PROVE  Inv'
<1> DEFINE j == wk[w].job
           v == job[j].ver
<1>1. /\ ver \in VersionType /\ wk \in WorkerType /\ mode \in {"v2", "legacy"} /\ lock # NoLock
  BY Kinds DEF Inv, TypeInv
<1>2. /\ wk[w].pc = "resolving" /\ Owns(w) /\ UNCHANGED <<mode, profile, draft, job, wake, push, tag>>
      /\ ver' = [ver EXCEPT ![v].lock = lock]
      /\ wk' = [wk EXCEPT ![w].pc = "building", ![w].lock = lock]
  BY DEF Resolve
<1>3. /\ j = wk[w].job /\ v = job[j].ver
      /\ j \in Jobs /\ v \in Versions /\ ver[v].image = NoLock
      /\ \A k \in Jobs : job[k].status \in Active /\ job[k].ver = v => k = j
      /\ job[j].status = "building" /\ job[j].token = w
  BY <1>2, Owner DEF Working, Owns
<1>4. mode = "v2" => ver[v].lock = NoLock
  BY <1>2, <1>3 DEF Inv, LocksKept
<1>5. /\ ver' \in VersionType /\ ver'[v].lock = lock
      /\ \A u \in Versions : /\ ver'[u].image = ver[u].image /\ ver'[u].status = ver[u].status
                             /\ ver'[u].spec = ver[u].spec /\ ver'[u].published = ver[u].published
                             /\ u # v => ver'[u].lock = ver[u].lock
  BY <1>1, <1>2, <1>3 DEF VersionType
<1>6. /\ wk' \in WorkerType /\ wk'[w].pc = "building" /\ wk'[w].lock = lock
      /\ \A u \in Workers : /\ wk'[u].job = wk[u].job /\ wk'[u].seen = wk[u].seen
                            /\ wk'[u].requeue = wk[u].requeue /\ wk'[u].expire = wk[u].expire
                            /\ u # w => wk'[u] = wk[u]
  BY <1>1, <1>2 DEF WorkerType, WorkerRow, PCs
<1> HIDE DEF j, v
<1>7. TypeInv'
  BY <1>2, <1>5, <1>6 DEF Inv, TypeInv
<1>8. JobsReal' /\ OneActive'
  BY <1>2, <1>5 DEF Inv, JobsReal, OneActive, Active
<1>9. ImagesKept'
  <2>1. \A u \in Versions : ver'[u].status = "available" <=> ver'[u].image # NoLock
    BY <1>5 DEF Inv, ImagesKept
  <2>2. ASSUME NEW u \in Versions, mode = "v2", ver'[u].image # NoLock
        PROVE  ver'[u].image = ver'[u].lock
    <3>1. u # v
      BY <1>3, <1>5, <2>2
    <3>2. ver'[u].image = ver[u].image /\ ver'[u].lock = ver[u].lock
      BY <1>5, <3>1
    <3>3. QED
      BY <2>2, <3>2 DEF Inv, ImagesKept
  <2>3. QED
    BY <1>2, <2>1, <2>2 DEF ImagesKept
<1>10. DraftKnows'
  BY <1>2, <1>5 DEF Inv, DraftKnows
<1>11. PublishedKept'
  <2>1. profile.current # 0 => profile.current \in Versions
    BY DEF Inv, TypeInv, ProfileType
  <2>2. QED
    BY <1>2, <1>5, <2>1 DEF Inv, PublishedKept
<1>12. WorkersKnow'
  <2>1. \A u \in Workers : wk'[u].pc \in Working \cup {"found"} => wk[u].pc \in Working \cup {"found"}
    BY <1>2, <1>6 DEF Working
  <2>2. \A u \in Workers : wk'[u].pc \in Working => wk[u].pc \in Working
    BY <1>2, <1>6 DEF Working
  <2>3. QED
    BY <1>2, <1>6, <2>1, <2>2 DEF Inv, WorkersKnow
<1>13. RecoveriesHold'
  <2>1. \A u \in Workers : /\ Held(u)' = Held(u) /\ wk'[u].requeue \cap wk'[u].expire = {}
                           /\ wk'[u].pc # "recovering" => wk[u].pc # "recovering"
    BY <1>2, <1>6 DEF Inv, RecoveriesHold, Held
  <2>2. QED
    BY <1>2, <2>1 DEF Inv, RecoveriesHold
<1>14. LocksKept'
  <2>1. ASSUME NEW k \in Jobs, job[k].status # "none", job[k].ver # v
        PROVE  ver'[job[k].ver].lock = ver[job[k].ver].lock
    <3>1. job[k].ver \in Versions
      BY <2>1 DEF Inv, JobsReal
    <3>2. QED
      BY <1>5, <2>1, <3>1
  <2>2. ASSUME mode = "v2", NEW k \in Jobs, tag[k] # NoLock
        PROVE  tag[k] = ver'[job[k].ver].lock
    <3>1. job[k].status # "none" /\ tag[k] = ver[job[k].ver].lock
      BY <2>2 DEF Inv, JobsReal, LocksKept
    <3>2. job[k].ver # v
      BY <1>4, <2>2, <3>1
    <3>3. QED
      BY <2>1, <3>1, <3>2
  <2>3. ASSUME mode = "v2", NEW u \in Workers, u # w, wk[u].pc \in {"building", "built"}
        PROVE  wk[u].lock # NoLock /\ wk[u].lock = ver'[job[wk[u].job].ver].lock
    <3>1. /\ wk[u].job \in Jobs /\ job[wk[u].job].status # "none"
          /\ wk[u].lock # NoLock /\ wk[u].lock = ver[job[wk[u].job].ver].lock
      BY <2>3 DEF Inv, WorkersKnow, Working, LocksKept
    <3>2. job[wk[u].job].ver # v
      BY <1>4, <2>3, <3>1
    <3>3. QED
      BY <2>1, <3>1, <3>2
  <2>4. ASSUME mode = "v2", NEW u \in Workers, u # w, wk[u].pc = "resolving",
               job[wk[u].job].status = "building", job[wk[u].job].token = u
        PROVE  ver'[job[wk[u].job].ver].lock = NoLock
    <3>1. /\ wk[u].job \in Jobs /\ job[wk[u].job].status # "none"
          /\ ver[job[wk[u].job].ver].lock = NoLock
      BY <2>4 DEF Inv, WorkersKnow, Working, LocksKept
    <3>2. job[wk[u].job].ver # v
      BY <1>3, <2>4, <3>1 DEF Active
    <3>3. QED
      BY <2>1, <3>1, <3>2
  <2>5. /\ wk'[w].pc = "building" /\ wk'[w].lock # NoLock
        /\ wk'[w].lock = ver'[job[wk'[w].job].ver].lock
    BY <1>1, <1>3, <1>5, <1>6
  <2>6. ASSUME mode = "v2", NEW u \in Workers
        PROVE  /\ wk'[u].pc \in {"building", "built"} =>
                    wk'[u].lock # NoLock /\ wk'[u].lock = ver'[job[wk'[u].job].ver].lock
               /\ wk'[u].pc = "resolving" /\ job[wk'[u].job].status = "building"
                    /\ job[wk'[u].job].token = u => ver'[job[wk'[u].job].ver].lock = NoLock
    <3>1. CASE u = w
      BY <2>5, <3>1
    <3>2. CASE u # w
      BY <1>6, <2>3, <2>4, <2>6, <3>2
    <3>3. QED
      BY <3>1, <3>2
  <2>7. QED
    BY <1>2, <2>2, <2>6 DEF LocksKept
<1>15. QED
  BY <1>7, <1>8, <1>9, <1>10, <1>11, <1>12, <1>13, <1>14 DEF Inv
LEMMA RecoverCommitStep ==
  ASSUME Inv, NEW w \in Workers, RecoverCommit(w)
  PROVE  Inv'
<1> DEFINE R == wk[w].requeue
           E == wk[w].expire
<1>1. /\ draft \in DraftType /\ ver \in VersionType /\ mode \in {"v2", "legacy"}
      /\ job \in JobType /\ tag \in TagType /\ wk \in WorkerType
      /\ profile.current \in Versions \cup {0}
  BY Kinds DEF Inv, TypeInv, ProfileType
<1>2. /\ R \subseteq Jobs /\ E \subseteq Jobs /\ R \cap E = {}
      /\ \A k \in R \cup E : job[k].status = "building"
      /\ \A u \in Workers : u # w => Held(u) \cap (R \cup E) = {}
  BY <1>1 DEF Inv, RecoveriesHold, Held, WorkerType
<1>3. \A k \in R \cup E : job[k].ver \in Versions /\ ver[job[k].ver].status \in Active
  BY <1>2 DEF Inv, JobsReal, OneActive, Active
<1>4. /\ UNCHANGED <<mode, profile, wake, push, tag>>
      /\ job' = [j \in Jobs |-> RecoveredJob(j, R, E)]
      /\ ver' = [v \in Versions |-> RecoveredVersion(v, R, E)]
      /\ draft' = IF mode = "v2" /\ draft.job \in E THEN Released(draft.job) ELSE draft
      /\ wk' = [wk EXCEPT ![w] = [Idle EXCEPT !.pc = "reconciling"]]
  BY DEF RecoverCommit
<1> HIDE DEF R, E
<1>5. ASSUME NEW k \in Jobs
      PROVE  /\ job'[k].ver = job[k].ver
             /\ k \in R => job'[k].status = "queued"
             /\ k \in E => job'[k].status = "failed"
             /\ k \notin R \cup E => job'[k] = job[k]
             /\ job'[k] \in [status : {"none", "queued", "building", "succeeded"} \cup Failed,
                             ver : Versions \cup {0}, token : Workers \cup {"none"}, lapsed : BOOLEAN]
  <2>1. job'[k] = RecoveredJob(k, R, E)
    BY <1>4
  <2>2. job[k] \in [status : {"none", "queued", "building", "succeeded"} \cup Failed,
                    ver : Versions \cup {0}, token : Workers \cup {"none"}, lapsed : BOOLEAN]
    BY <1>1 DEF JobType
  <2>3. CASE k \in R
    <3>1. k \notin E
      BY <1>2, <2>3
    <3>2. job'[k] = [job[k] EXCEPT !.status = "queued", !.token = "none", !.lapsed = FALSE]
      BY <2>1, <2>3, <3>1 DEF RecoveredJob
    <3>3. QED
      BY <2>2, <2>3, <3>1, <3>2
  <2>4. CASE k \notin R /\ k \in E
    BY <2>1, <2>2, <2>4 DEF RecoveredJob, Failed
  <2>5. CASE k \notin R /\ k \notin E
    BY <2>1, <2>2, <2>5 DEF RecoveredJob
  <2>6. QED
    BY <1>2, <2>3, <2>4, <2>5
<1>6. ASSUME NEW v \in Versions
      PROVE  /\ ver'[v].spec = ver[v].spec /\ ver'[v].lock = ver[v].lock
             /\ ver'[v].image = ver[v].image /\ ver'[v].published = ver[v].published
             /\ ver'[v] \in VersionRow
             /\ \/ /\ ver'[v].status = "failed" /\ ver[v].status \in Active
                   /\ \E k \in E : job[k].ver = v
                \/ /\ ver'[v].status = "queued" /\ ver[v].status \in Active
                   /\ \E k \in R : job[k].ver = v
                \/ /\ ver'[v].status = ver[v].status
                   /\ \A k \in E : job[k].ver # v
  <2>1. ver'[v] = RecoveredVersion(v, R, E) /\ ver[v] \in VersionRow
    BY <1>1, <1>4 DEF VersionType, VersionRow
  <2>2. CASE ver[v].status \in Frozen
    <3>1. \A k \in E : job[k].ver # v
      BY <1>3, <2>2 DEF Frozen, Active
    <3>2. QED
      BY <2>1, <2>2, <3>1 DEF RecoveredVersion
  <2>3. CASE ver[v].status \notin Frozen /\ \E k \in E : job[k].ver = v
    <3>0. \A k \in R : job[k].ver # v
      BY <1>2, <2>3 DEF Inv, OneActive, Active
    <3>1. ver'[v] = [ver[v] EXCEPT !.status = "failed"]
      BY <2>1, <2>3, <3>0 DEF RecoveredVersion
    <3>2. ver[v].status \in Active
      BY <1>3, <2>3
    <3>3. QED
      BY <2>1, <2>3, <3>1, <3>2 DEF VersionRow, VersionStatuses
  <2>4. CASE ver[v].status \notin Frozen /\ (\A k \in E : job[k].ver # v) /\ \E k \in R : job[k].ver = v
    <3>1. ver'[v] = [ver[v] EXCEPT !.status = "queued"]
      BY <2>1, <2>4 DEF RecoveredVersion
    <3>2. ver[v].status \in Active
      BY <1>3, <2>4
    <3>3. QED
      BY <2>1, <2>4, <3>1, <3>2 DEF VersionRow, VersionStatuses
  <2>5. CASE /\ ver[v].status \notin Frozen
             /\ \A k \in E : job[k].ver # v
             /\ \A k \in R : job[k].ver # v
    BY <2>1, <2>5 DEF RecoveredVersion
  <2>6. QED
    BY <2>2, <2>3, <2>4, <2>5
<1>7. job' \in JobType /\ ver' \in VersionType
  BY <1>4, <1>5, <1>6 DEF JobType, VersionType, VersionRow
<1>8. draft' \in DraftType
  BY <1>1, <1>4 DEF Released, DraftType
<1>9. /\ wk' \in WorkerType /\ wk'[w].pc = "reconciling"
      /\ wk'[w].requeue = {} /\ wk'[w].expire = {}
      /\ \A u \in Workers : u # w => wk'[u] = wk[u]
  <2> DEFINE to == [Idle EXCEPT !.pc = "reconciling"]
  <2>1. to \in WorkerRow /\ to.pc = "reconciling" /\ to.requeue = {} /\ to.expire = {}
    BY DEF Idle, WorkerRow, PCs, VersionStatuses
  <2> HIDE DEF to
  <2>2. wk' = [wk EXCEPT ![w] = to]
    BY <1>4 DEF to
  <2>3. QED
    BY <1>1, <2>1, <2>2 DEF WorkerType, WorkerRow
<1>10. TypeInv'
  BY <1>4, <1>7, <1>8, <1>9 DEF Inv, TypeInv
<1>11. /\ \A k \in Jobs : job'[k].status = "none" => job[k].status = "none"
       /\ \A k \in Jobs : job[k].status = "none" => job'[k].status = "none"
  BY <1>2, <1>5
<1>12. JobsReal'
  <2>1. \A v \in Versions : ver[v].status # "none" => ver'[v].status # "none"
    BY <1>6
  <2>2. QED
    BY <1>4, <1>5, <1>11, <2>1 DEF Inv, JobsReal
<1>13. \A k \in Jobs : job'[k].status \in Active => job[k].status \in Active /\ k \notin E
  <2>1. \A k \in R : job[k].status \in Active
    BY <1>2 DEF Active
  <2>2. QED
    BY <1>2, <1>5, <2>1 DEF Active
<1>14. \A k \in Jobs : job[k].status \in Active /\ k \notin E => job'[k].status \in Active
  BY <1>5 DEF Active
<1>15. OneActive'
  <2>1. \A k, l \in Jobs : job'[k].status \in Active /\ job'[l].status \in Active
                             /\ job'[k].ver = job'[l].ver => k = l
    BY <1>5, <1>13 DEF Inv, OneActive
  <2>2. ASSUME NEW k \in Jobs, job'[k].status \in Active
        PROVE  ver'[job'[k].ver].status \in Active
    <3>1. job[k].status \in Active /\ k \notin E /\ job[k].ver \in Versions /\ job'[k].ver = job[k].ver
      BY <1>5, <1>13, <2>2 DEF Inv, JobsReal, Active
    <3>2. ver[job[k].ver].status \in Active
      BY <3>1 DEF Inv, OneActive
    <3>3. \A l \in E : job[l].ver # job[k].ver
      BY <1>2, <3>1 DEF Inv, OneActive, Active
    <3>4. ver'[job[k].ver].status = "queued" \/ ver'[job[k].ver].status = ver[job[k].ver].status
      BY <1>6, <3>1, <3>3
    <3>5. QED
      BY <3>1, <3>2, <3>4 DEF Active
  <2>3. ASSUME NEW v \in Versions, ver'[v].status \in Active
        PROVE  \E k \in Jobs : job'[k].status \in Active /\ job'[k].ver = v
    <3>1. ver[v].status \in Active /\ ((\E k \in R : job[k].ver = v) \/ \A k \in E : job[k].ver # v)
      BY <1>6, <2>3 DEF Active
    <3>2. CASE \E k \in R : job[k].ver = v
      BY <1>2, <1>5, <3>2 DEF Active
    <3>3. CASE \A k \in E : job[k].ver # v
      <4>1. PICK k \in Jobs : job[k].status \in Active /\ job[k].ver = v
        BY <3>1 DEF Inv, OneActive
      <4>2. job'[k].status \in Active /\ job'[k].ver = v
        BY <1>5, <1>14, <3>3, <4>1
      <4>3. QED
        BY <4>2
    <3>4. QED
      BY <3>1, <3>2, <3>3
  <2>4. QED
    BY <2>1, <2>2, <2>3 DEF OneActive
<1>16. \A v \in Versions : /\ ver[v].status = "available" => ver'[v].status = "available"
                           /\ ver'[v].status = "available" => ver[v].status = "available"
  BY <1>6 DEF Active
<1>17. ImagesKept'
  <2>1. \A v \in Versions : ver'[v].status = "available" <=> ver'[v].image # NoLock
    BY <1>6, <1>16 DEF Inv, ImagesKept
  <2>2. \A v \in Versions : mode = "v2" /\ ver'[v].image # NoLock => ver'[v].image = ver'[v].lock
    BY <1>6 DEF Inv, ImagesKept
  <2>3. QED
    BY <1>4, <2>1, <2>2 DEF ImagesKept
<1>18. PublishedKept'
  <2>1. \A v \in Versions : ver'[v].published = ver[v].published
    BY <1>6
  <2>2. QED
    BY <1>1, <1>4, <1>16, <2>1 DEF Inv, PublishedKept
<1>19. DraftKnows'
  <2>1. \A v \in Versions : ver'[v].spec = ver[v].spec
    BY <1>6
  <2>2. CASE mode = "v2" /\ draft.job \in E
    <3>1. draft.job \in Jobs /\ job[draft.job].status \in Active
      BY <1>2, <2>2 DEF Active
    <3>2. \A k \in Jobs : job[k].status \in Active => k = draft.job
      BY <2>2 DEF Inv, DraftKnows
    <3>3. \A k \in Jobs : job'[k].status \notin Active
      BY <1>13, <2>2, <3>2
    <3>4. draft'.job = 0 /\ draft'.state = "failed" /\ mode' = "v2"
      BY <1>1, <1>4, <2>2 DEF Released, DraftType
    <3>5. QED
      BY <3>3, <3>4 DEF DraftKnows
  <2>3. CASE ~(mode = "v2" /\ draft.job \in E)
    <3>1. draft' = draft /\ mode' = mode
      BY <1>4, <2>3
    <3>2. \A k \in Jobs : job'[k].status \in Active => job[k].status \in Active /\ job'[k].ver = job[k].ver
      BY <1>5, <1>13
    <3>3. draft.state = "building" =>
            job'[draft.job].status \in Active \cup {"raised"} /\ job'[draft.job].ver = job[draft.job].ver
      <4>1. SUFFICES ASSUME draft.state = "building"
                     PROVE  job'[draft.job].status \in Active \cup {"raised"}
                            /\ job'[draft.job].ver = job[draft.job].ver
        OBVIOUS
      <4>2. /\ mode = "v2" /\ draft.job \in Jobs /\ draft.job \notin E
            /\ job[draft.job].status \in Active \cup {"raised"}
        BY <1>1, <2>3, <4>1 DEF Inv, DraftKnows
      <4>3. CASE job[draft.job].status \in Active
        BY <1>5, <1>14, <4>2, <4>3
      <4>4. CASE job[draft.job].status = "raised"
        BY <1>2, <1>5, <4>2, <4>4
      <4>5. QED
        BY <4>2, <4>3, <4>4
    <3>4. QED
      BY <1>16, <2>1, <3>1, <3>2, <3>3 DEF Inv, DraftKnows
  <2>4. QED
    BY <2>2, <2>3
<1>20. WorkersKnow'
  BY <1>9, <1>11 DEF Inv, WorkersKnow, Working
<1>21. LocksKept'
  <2>1. \A k \in Jobs : job'[k].ver = job[k].ver /\ tag'[k] \in {tag[k], NoLock}
    BY <1>4, <1>5
  <2>2. \A v \in Versions : ver'[v].lock = ver[v].lock
    BY <1>6
  <2>3. \A k \in Jobs : job'[k].status = "building" => job'[k] = job[k]
    BY <1>5
  <2>4. \A u \in Workers : wk'[u].pc \in Working => wk'[u] = wk[u] /\ wk[u].job \in Jobs
    BY <1>9 DEF Inv, Working, WorkersKnow
  <2>5. QED
    BY <1>4, <2>1, <2>2, <2>3, <2>4, LocksFrame
<1>22. RecoveriesHold'
  <2>1. Held(w)' = {} /\ wk'[w].requeue \cap wk'[w].expire = {}
    BY <1>9 DEF Held
  <2>2. \A u \in Workers : u # w => Held(u)' = Held(u) /\ wk'[u] = wk[u]
    BY <1>9 DEF Held
  <2>3. \A u \in Workers : Held(u) \subseteq Jobs
    BY <1>1 DEF WorkerType, Held
  <2>4. ASSUME NEW u \in Workers, u # w, NEW k \in Held(u) PROVE job'[k].status = "building"
    <3>1. k \in Jobs /\ k \notin R \cup E /\ job[k].status = "building"
      BY <1>2, <2>3, <2>4 DEF Inv, RecoveriesHold
    <3>2. QED
      BY <1>5, <3>1
  <2>5. QED
    BY <2>1, <2>2, <2>4 DEF Inv, RecoveriesHold
<1>23. QED
  BY <1>10, <1>12, <1>15, <1>17, <1>18, <1>19, <1>20, <1>21, <1>22 DEF Inv

\* The scan finds no version that has drifted from its jobs.
LEMMA NeverDrifted == Inv => \A v \in Versions : ~Drifted(v)
BY DEF Inv, OneActive, Drifted, ActiveJobs, JobsOf, Active

LEMMA ReconcileStep ==
  ASSUME Inv, NEW w \in Workers, Reconcile(w)
  PROVE  Inv'
<1>1. /\ draft \in DraftType /\ ver \in VersionType /\ tag \in TagType
      /\ wake \in Seq(Versions)
  BY DEF Inv, TypeInv
<1>2. ver' = ver
  BY <1>1, NeverDrifted DEF Reconcile, VersionType
<1>3. draft' = draft
  <2>1. draft.cand # 0 => ~Drifted(draft.cand)
    BY <1>1, NeverDrifted DEF DraftType
  <2>2. QED
    BY <2>1 DEF Reconcile
<1>4. wake' \in Seq(Versions)
  <2>1. {job[j].ver : j \in Unwoken} \in SUBSET Versions
    BY DEF Unwoken, Inv, JobsReal
  <2>2. QED
    BY <1>1, <2>1, WakedType DEF Reconcile
<1>5. wk' = [wk EXCEPT ![w] = Idle] /\ UNCHANGED <<mode, profile, job, push, tag>>
  BY DEF Reconcile
<1>6. Idle \in WorkerRow /\ Idle.pc = "idle" /\ Idle.requeue = {} /\ Idle.expire = {}
  BY DEF Idle, WorkerRow, PCs, VersionStatuses
<1>7. tag' \in TagType /\ \A j \in Jobs : tag'[j] \in {tag[j], NoLock}
  BY <1>1, <1>5
<1>8. QED
  BY <1>2, <1>3, <1>4, <1>5, <1>6, <1>7, LetGo

-----------------------------------------------------------------------------
(* The invariant.                                                           *)

LEMMA InvInit == Init => Inv
<1> SUFFICES ASSUME Init PROVE Inv
  OBVIOUS
<1>1. /\ NoVersion \in VersionRow /\ NoDraft \in DraftType
      /\ [NoDraft EXCEPT !.state = "editing"] \in DraftType
      /\ NoJob \in [status : {"none", "queued", "building", "succeeded"} \cup Failed,
                    ver : Versions \cup {0}, token : Workers \cup {"none"}, lapsed : BOOLEAN]
  BY Kinds DEF NoVersion, NoDraft, NoJob, VersionRow, VersionStatuses, DraftType
<1>2. Idle \in WorkerRow
  BY DEF Idle, WorkerRow, PCs, VersionStatuses
<1>3. /\ ver \in VersionType /\ job \in JobType /\ tag \in TagType /\ wk \in WorkerType
      /\ draft \in DraftType /\ mode \in {"v2", "legacy"}
  BY <1>1, <1>2, Kinds DEF Init, VersionType, VersionRow, JobType, TagType, WorkerType, WorkerRow
<1>4. profile \in ProfileType /\ wake \in Seq(Versions)
  BY DEF Init, ProfileType
<1>5. TypeInv
  BY <1>3, <1>4 DEF Init, TypeInv
<1>6. /\ \A j \in Jobs : job[j].status = "none"
      /\ \A v \in Versions : ver[v] = NoVersion
      /\ \A w \in Workers : wk[w] = Idle
      /\ \A j \in Jobs : tag[j] = NoLock
      /\ profile.current = 0
  BY DEF Init, NoJob
<1>7. JobsReal /\ OneActive
  BY <1>6 DEF JobsReal, OneActive, NoVersion, Active
<1>8. ImagesKept /\ PublishedKept
  BY <1>6 DEF ImagesKept, PublishedKept, NoVersion
<1>9. draft.job = 0 /\ draft.state = IF mode = "v2" THEN "editing" ELSE "none"
  BY DEF Init, NoDraft
<1>10. draft.state = "none" => draft = NoDraft
  BY <1>9 DEF Init
<1>11. DraftKnows
  BY <1>3, <1>6, <1>9, <1>10 DEF DraftKnows, Active
<1>12. WorkersKnow /\ LocksKept /\ RecoveriesHold
  BY <1>6 DEF WorkersKnow, LocksKept, RecoveriesHold, Held, Idle, Working
<1>13. QED
  BY <1>5, <1>7, <1>8, <1>11, <1>12 DEF Inv

\* The two legacy requests before they write.
ChecksOnly == \E a \in Admins : \/ \E v \in Versions : CreateBuildJob(a, v)
                               \/ \E old \in Jobs : RetryBuildJob(a, old)

LEMMA InvStep ==
  ASSUME Inv, AsksKnow, ~doubled', [Next]_vars
  PROVE  Inv'
<1>0. ASSUME UNCHANGED <<mode, rows, wake, push, tag, wk>> PROVE Inv'
  BY <1>0 DEF rows, Inv, TypeInv, JobsReal, OneActive, ImagesKept, DraftKnows, PublishedKept,
              WorkersKnow, LocksKept, RecoveriesHold, Held, Active
<1>1. CASE Editor
  BY <1>1, EditSteps, AttemptSteps, PublishStep DEF Editor
<1>2. CASE Legacy
  <2>1. CASE ChecksOnly
    BY <1>0, <2>1 DEF ChecksOnly, CreateBuildJob, RetryBuildJob, CheckBuild
  <2>2. QED
    BY <1>2, <2>1, CreateVersionStep, AttemptSteps DEF Legacy, ChecksOnly
<1>3. CASE Push \/ LosePush
  BY <1>3, PushSteps
<1>4. CASE \E j \in Jobs : Lapse(j)
  BY <1>4, ClockSteps
<1>5. ASSUME NEW w \in Workers, Build(w) PROVE Inv'
  BY <1>5, LetGoSteps, ClaimStep, ResolveStep, BuildImageStep, EndSteps DEF Build
<1>6. ASSUME NEW w \in Workers, Heartbeat(w) \/ Recover(w) \/ Repair(w) PROVE Inv'
  BY <1>6, ClockSteps, RecoverUpdateStep, RecoverCommitStep, ReconcileStep DEF Repair
<1>7. ASSUME NEW w \in Workers, MainFlowRaises(w) \/ HeartbeatFails(w) \/ Crash(w) PROVE Inv'
  BY <1>7, EndSteps, LetGoSteps
<1>8. CASE UNCHANGED vars
  BY <1>0, <1>8 DEF vars, rows
<1>9. QED
  BY <1>1, <1>2, <1>3, <1>4, <1>5, <1>6, <1>7, <1>8 DEF Next

\* Only legacy requests touch what they leave behind.
LEMMA AskStep ==
  ASSUME [Next]_vars
  PROVE  /\ mode' = mode /\ (doubled => doubled') /\ (doubled' => doubled \/ mode = "legacy")
         /\ \/ UNCHANGED ask \/ ChecksOnly
            \/ \E a \in Admins : ask' = [ask EXCEPT ![a] = NoAsk]
<1>1. CASE UNCHANGED <<mode, ask, doubled>>
  BY <1>1
<1>2. CASE Legacy
  <2>1. ASSUME NEW v \in Versions, CreateProfileVersion(v) PROVE UNCHANGED <<mode, ask, doubled>>
    BY <2>1 DEF CreateProfileVersion
  <2>2. CASE ChecksOnly
    BY <2>2 DEF ChecksOnly, CreateBuildJob, RetryBuildJob, CheckBuild
  <2>3. ASSUME NEW a \in Admins, NEW j \in Jobs, CommitBuildJob(a, j)
        PROVE  /\ mode' = mode /\ mode = "legacy" /\ (doubled => doubled')
               /\ ask' = [ask EXCEPT ![a] = NoAsk]
    BY <2>3 DEF CommitBuildJob
  <2>4. QED
    BY <1>1, <1>2, <2>1, <2>2, <2>3 DEF Legacy, ChecksOnly
<1>3. CASE Editor
  <2>1. ASSUME NEW j \in Jobs, StartDraftBuild(j) \/ \E old \in Jobs : RetryDraftBuild(j, old)
        PROVE  UNCHANGED <<mode, ask, doubled>>
    BY <2>1 DEF StartDraftBuild, RetryDraftBuild
  <2>2. QED
    BY <1>1, <1>3, <2>1 DEF Editor, CreateDraft, AbandonDraft, SaveDraft, UpdateProfile, Publish
<1>4. CASE Push \/ LosePush \/ \E j \in Jobs : Lapse(j)
  BY <1>1, <1>4 DEF Push, LosePush, Lapse
<1>5. ASSUME NEW w \in Workers, Build(w) PROVE UNCHANGED <<mode, ask, doubled>>
  BY <1>5 DEF Build, Pop, Claim, Resolve, BuildImage, Finish, FailBuild, LoseLease
<1>6. ASSUME NEW w \in Workers, \/ Heartbeat(w) \/ Recover(w) \/ Repair(w)
                                \/ MainFlowRaises(w) \/ HeartbeatFails(w) \/ Crash(w)
      PROVE  UNCHANGED <<mode, ask, doubled>>
  BY <1>6 DEF Heartbeat, Recover, RecoverUpdate, Repair, RecoverCommit, Reconcile,
              MainFlowRaises, HeartbeatFails, Crash
<1>7. QED
  BY <1>1, <1>2, <1>3, <1>4, <1>5, <1>6 DEF Next, vars

LEMMA AsksStep ==
  ASSUME Inv, AsksKnow, [Next]_vars
  PROVE  AsksKnow'
<1>1. CASE UNCHANGED ask
  BY <1>1 DEF AsksKnow
<1>2. ASSUME NEW a \in Admins, ask' = [ask EXCEPT ![a] = NoAsk] PROVE AsksKnow'
  BY <1>2 DEF AsksKnow, NoAsk
<1>3. ASSUME NEW a \in Admins, NEW v \in Versions, CheckBuild(a, v) PROVE AsksKnow'
  <2>1. ask' = [ask EXCEPT ![a] = [ver |-> v, queued |-> ver[v].status = "queued"]]
    BY <1>3 DEF CheckBuild
  <2>2. (ver[v].status = "queued") \in BOOLEAN
    OBVIOUS
  <2>3. QED
    BY <2>1, <2>2 DEF AsksKnow
<1>4. \A old \in Jobs : job[old].status \in Failed => job[old].ver \in Versions
  BY DEF Inv, JobsReal, Failed
<1>5. CASE ChecksOnly
  BY <1>3, <1>4, <1>5 DEF ChecksOnly, CreateBuildJob, RetryBuildJob
<1>6. QED
  BY <1>1, <1>2, <1>5, AskStep

\* The invariant, its premises and where it ends.
Whole == /\ doubled => mode = "legacy"
         /\ doubled \/ (Inv /\ AsksKnow)

LEMMA WholeHolds == Spec => []Whole
<1>1. Init => Whole
  <2>1. Init => AsksKnow /\ ~doubled
    BY DEF Init, AsksKnow, NoAsk
  <2>2. QED
    BY <2>1, InvInit DEF Whole
<1>2. Whole /\ [Next]_vars => Whole'
  <2>1. SUFFICES ASSUME Whole, [Next]_vars PROVE Whole'
    OBVIOUS
  <2>2. mode' = mode /\ (doubled => doubled') /\ (doubled' => doubled \/ mode = "legacy")
    BY <2>1, AskStep
  <2>3. ASSUME ~doubled' PROVE Inv' /\ AsksKnow'
    <3>1. Inv /\ AsksKnow
      BY <2>1, <2>2, <2>3 DEF Whole
    <3>2. QED
      BY <2>1, <2>3, <3>1, InvStep, AsksStep
  <2>4. QED
    BY <2>1, <2>2, <2>3 DEF Whole
<1>3. QED
  BY <1>1, <1>2, PTL DEF Spec

(* In any build, whatever is lost, stalls, dies or is requeued: a version  *)
(* that shows an active build has exactly one, the draft knows of it, what *)
(* was built has its image for good, and a worker that has lost its lease  *)
(* knows nothing of another version.  Only a legacy request that is granted*)
(* in the middle of another build of its version can end this.             *)
THEOREM BuildsInvariant == Spec => [](doubled \/ Inv)
<1>1. Whole => doubled \/ Inv
  BY DEF Whole
<1>2. QED
  BY <1>1, WholeHolds, PTL

(* The image of a V2 version was built from the lock that its row holds,   *)
(* though attempts and their former owners share one temporary tag.        *)
THEOREM ImagesFromLocks == Spec => []ImageFromLock
<1>1. Whole => ImageFromLock
  BY DEF Whole, Inv, ImagesKept, ImageFromLock
<1>2. QED
  BY <1>1, WholeHolds, PTL
-----------------------------------------------------------------------------
(* The catalogue of the images.                                             *)

\* The two steps that move an image or what is published, and all the others.
Kept == /\ mode' = mode /\ profile'.current = profile.current
        /\ \A v \in Versions : /\ ver'[v].image = ver[v].image
                               /\ ver'[v].published = ver[v].published

LEMMA NewAttemptKeeps ==
  ASSUME Inv, NEW j \in Jobs, NEW v \in Versions, NEW row,
         NewAttempt(j, v, row, "queued"), UNCHANGED <<mode, profile>>,
         row.image = ver[v].image, row.published = ver[v].published
  PROVE  Kept
<1>1. ver \in VersionType
  BY DEF Inv, TypeInv
<1>2. ver' = [ver EXCEPT ![v] = [row EXCEPT !.status = "queued"]]
  BY DEF NewAttempt
<1>3. \A u \in Versions : u # v => ver'[u] = ver[u]
  BY <1>1, <1>2 DEF VersionType
<1>4. ver'[v] = [row EXCEPT !.status = "queued"]
  BY <1>1, <1>2 DEF VersionType
<1>5. ver'[v].image = row.image /\ ver'[v].published = row.published
  BY <1>4
<1>6. QED
  BY <1>3, <1>5 DEF Kept

LEMMA AttemptsKeep ==
  ASSUME Inv, AsksKnow, ~doubled', NEW j \in Jobs,
         \/ StartDraftBuild(j) \/ \E old \in Jobs : RetryDraftBuild(j, old)
         \/ \E a \in Admins : CommitBuildJob(a, j)
  PROVE  Kept
<1>1. \A v \in Versions : ver[v].status = "none" =>
        ver[v].image = NoLock /\ ver[v].published = FALSE
  BY DEF Inv, TypeInv, ImagesKept, PublishedKept, VersionType
<1>2. \A old \in Jobs : job[old].status \in Failed => job[old].ver \in Versions
  BY DEF Inv, JobsReal, Failed
<1>3. ASSUME NEW a \in Admins, CommitBuildJob(a, j) PROVE Kept
  <2>1. /\ ask[a].ver \in Versions /\ UNCHANGED <<mode, profile>>
        /\ NewAttempt(j, ask[a].ver, ver[ask[a].ver], "queued")
    BY <1>3 DEF CommitBuildJob, AsksKnow
  <2>2. QED
    BY <2>1, NewAttemptKeeps
<1>5. ASSUME NEW old \in Jobs, RetryDraftBuild(j, old) PROVE Kept
  BY <1>2, <1>5, NewAttemptKeeps DEF RetryDraftBuild, MayRetry
<1>6. CASE StartDraftBuild(j)
  <2>1. UNCHANGED <<mode, profile>>
    BY <1>6 DEF StartDraftBuild
  <2>2. CASE FailedCandidate(draft.cand) /\ NewAttempt(j, draft.cand, ver[draft.cand], "queued")
    <3>1. draft.cand \in Versions
      BY <2>2 DEF FailedCandidate, Unchanged, Inv, TypeInv, DraftType
    <3>2. QED
      BY <2>1, <2>2, <3>1, NewAttemptKeeps
  <2>3. ASSUME NEW v \in Versions, NextVersion(v),
               NewAttempt(j, v, [NoVersion EXCEPT !.spec = draft.spec], "queued")
        PROVE  Kept
    <3> DEFINE row == [NoVersion EXCEPT !.spec = draft.spec]
    <3>1. row.image = NoLock /\ row.published = FALSE
      BY DEF NoVersion
    <3>2. ver[v].image = NoLock /\ ver[v].published = FALSE
      BY <1>1, <2>3 DEF NextVersion
    <3>3. NewAttempt(j, v, row, "queued")
      BY <2>3
    <3> HIDE DEF row
    <3>4. QED
      BY <2>1, <3>1, <3>2, <3>3, NewAttemptKeeps
  <2>4. QED
    BY <1>6, <2>2, <2>3 DEF StartDraftBuild
<1>7. QED
  BY <1>3, <1>5, <1>6

LEMMA ImageSteps ==
  ASSUME Inv, AsksKnow, ~doubled', [Next]_vars
  PROVE  Kept \/ (\E w \in Workers : Finish(w)) \/ (\E v \in Versions : Publish(v))
<1>1. /\ ver \in VersionType /\ profile \in ProfileType
      /\ \A v \in Versions : ver[v].status = "none" => ver[v].image = NoLock /\ ver[v].published = FALSE
  BY DEF Inv, TypeInv, ImagesKept, PublishedKept, VersionType
<1>2. UNCHANGED <<mode, ver, profile>> => Kept
  BY DEF Kept
<1>3. CASE Editor
  <2>1. ASSUME NEW status \in {"active", "inactive"}, UpdateProfile(status) PROVE Kept
    <3>1. profile'.current = profile.current /\ UNCHANGED <<mode, ver>>
      BY <1>1, <2>1 DEF UpdateProfile, ProfileType
    <3>2. QED
      BY <3>1 DEF Kept
  <2>2. CASE CreateDraft \/ AbandonDraft \/ \E spec \in Specs : SaveDraft(spec)
    BY <1>2, <2>2 DEF CreateDraft, AbandonDraft, SaveDraft
  <2>3. QED
    BY <1>3, <2>1, <2>2, AttemptsKeep DEF Editor
<1>4. CASE Legacy
  <2>1. ASSUME NEW v \in Versions, CreateProfileVersion(v) PROVE Kept
    <3>1. ver[v].image = NoLock /\ ver[v].published = FALSE
      BY <1>1, <2>1 DEF CreateProfileVersion, NextVersion
    <3>2. /\ ver'[v].image = NoLock /\ ver'[v].published = FALSE
          /\ \A u \in Versions : u # v => ver'[u] = ver[u]
      BY <1>1, <2>1 DEF CreateProfileVersion, NoVersion, VersionType
    <3>3. UNCHANGED <<mode, profile>>
      BY <2>1 DEF CreateProfileVersion
    <3>4. QED
      BY <3>1, <3>2, <3>3 DEF Kept
  <2>2. CASE ChecksOnly
    BY <1>2, <2>2 DEF ChecksOnly, CreateBuildJob, RetryBuildJob, CheckBuild, rows
  <2>3. QED
    BY <1>4, <2>1, <2>2, AttemptsKeep DEF Legacy, ChecksOnly
<1>5. CASE Push \/ LosePush \/ \E j \in Jobs : Lapse(j)
  BY <1>2, <1>5 DEF Push, LosePush, Lapse, rows
<1>6. ASSUME NEW w \in Workers, \/ Pop(w) \/ LoseLease(w) \/ Heartbeat(w) \/ Recover(w)
                                \/ HeartbeatFails(w) \/ Crash(w)
                                \/ \E lock \in Locks : BuildImage(w, lock)
      PROVE  Kept
  BY <1>2, <1>6 DEF Pop, LoseLease, Heartbeat, Recover, RecoverUpdate, HeartbeatFails, Crash,
                    BuildImage, rows
<1>7. ASSUME NEW v \in Versions, NEW status, ver' = [ver EXCEPT ![v].status = status],
             UNCHANGED <<mode, profile>>
      PROVE  Kept
  BY <1>1, <1>7 DEF Kept, VersionType
<1>8. ASSUME NEW w \in Workers, Claim(w) PROVE Kept
  <2>1. CASE UNCHANGED ver
    BY <1>2, <1>8, <2>1 DEF Claim
  <2>2. CASE job[wk[w].job].status = "queued" /\ wk[w].pc = "found"
    <3>1. wk[w].job \in Jobs /\ job[wk[w].job].ver \in Versions
      BY <2>2 DEF Inv, WorkersKnow, JobsReal
    <3>2. QED
      BY <1>7, <1>8, <2>2, <3>1 DEF Claim
  <2>3. QED
    BY <1>8, <2>1, <2>2 DEF Claim
<1>9. ASSUME NEW w \in Workers, NEW lock \in Locks, Resolve(w, lock) PROVE Kept
  <2>1. UNCHANGED <<mode, profile>> /\ ver' = [ver EXCEPT ![job[wk[w].job].ver].lock = lock]
    BY <1>9 DEF Resolve
  <2>2. QED
    BY <1>1, <2>1 DEF Kept, VersionType
<1>10. ASSUME NEW w \in Workers, FailBuild(w) \/ MainFlowRaises(w) PROVE Kept
  <2>1. wk[w].pc \in Working /\ Owns(w) /\ UNCHANGED <<mode, profile>>
    BY <1>10 DEF FailBuild, MainFlowRaises, Working
  <2>2. job[wk[w].job].ver \in Versions /\ wk[w].seen \notin Frozen
    BY <2>1, Owner
  <2>3. ver' = [ver EXCEPT ![job[wk[w].job].ver].status = "failed"]
    BY <1>10, <2>2 DEF FailBuild, MainFlowRaises, VersionFailed
  <2>4. QED
    BY <1>7, <2>1, <2>2, <2>3
<1>11. ASSUME NEW w \in Workers, Repair(w) PROVE Kept
  <2>1. CASE Reconcile(w)
    <3>1. ver' = ver
      BY <1>1, <2>1, NeverDrifted DEF Reconcile, VersionType
    <3>2. QED
      BY <1>2, <2>1, <3>1 DEF Reconcile
  <2>2. CASE RecoverCommit(w)
    <3>1. /\ UNCHANGED <<mode, profile>>
          /\ ver' = [v \in Versions |-> RecoveredVersion(v, wk[w].requeue, wk[w].expire)]
      BY <2>2 DEF RecoverCommit
    <3>2. \A v \in Versions : \/ ver'[v] = ver[v]
                              \/ ver'[v] = [ver[v] EXCEPT !.status = "failed"]
                              \/ ver'[v] = [ver[v] EXCEPT !.status = "queued"]
      <4>1. SUFFICES ASSUME NEW v \in Versions
                     PROVE  \/ ver'[v] = ver[v]
                            \/ ver'[v] = [ver[v] EXCEPT !.status = "failed"]
                            \/ ver'[v] = [ver[v] EXCEPT !.status = "queued"]
        OBVIOUS
      <4>2. ver'[v] = RecoveredVersion(v, wk[w].requeue, wk[w].expire)
        BY <3>1
      <4>3. QED
        BY <4>2 DEF RecoveredVersion
    <3>3. QED
      BY <1>1, <3>1, <3>2 DEF Kept, VersionType
  <2>3. QED
    BY <1>11, <2>1, <2>2 DEF Repair
<1>12. CASE UNCHANGED vars
  BY <1>2, <1>12 DEF vars
<1>13. QED
  BY <1>3, <1>4, <1>5, <1>6, <1>8, <1>9, <1>10, <1>11, <1>12 DEF Next, Build

\* What the two steps do.
LEMMA FinishKeeps ==
  ASSUME Inv, NEW w \in Workers, Finish(w)
  PROVE  /\ mode' = mode /\ profile' = profile
         /\ \E v \in Versions : /\ ver[v].image = NoLock /\ ver'[v].image \in Locks
                                /\ ver'[v].published = ver[v].published
                                /\ \A u \in Versions : u # v => ver'[u] = ver[u]
<1> DEFINE j == wk[w].job
           v == job[j].ver
<1>1. /\ wk[w].pc = "built" /\ Owns(w) /\ tag[j] # NoLock /\ UNCHANGED <<mode, profile>>
      /\ ver' = [ver EXCEPT ![v] = [ver[v] EXCEPT !.status = "available", !.image = tag[j]]]
  BY DEF Finish
<1>2. j \in Jobs /\ v \in Versions /\ ver[v].image = NoLock
  BY <1>1, Owner DEF Working
<1>3. ver \in VersionType /\ tag[j] \in Locks
  BY <1>1, <1>2 DEF Inv, TypeInv, TagType
<1>4. \A u \in Versions : u # v => ver'[u] = ver[u]
  BY <1>1, <1>3 DEF VersionType
<1>5. ver[v] \in VersionRow
  BY <1>2, <1>3 DEF VersionType, VersionRow
<1>6. ver'[v] = [ver[v] EXCEPT !.status = "available", !.image = tag[j]]
  BY <1>1, <1>2, <1>3 DEF VersionType
<1> HIDE DEF v, j
<1>7. ver'[v].image = tag[j] /\ ver'[v].published = ver[v].published
  BY <1>5, <1>6 DEF VersionRow
<1>8. QED
  BY <1>1, <1>2, <1>3, <1>4, <1>7

LEMMA PublishKeeps ==
  ASSUME Inv, NEW v \in Versions, Publish(v)
  PROVE  /\ mode' = mode /\ profile'.current = v /\ ver[v].image # NoLock
         /\ \A u \in Versions : /\ ver'[u].image = ver[u].image
                                /\ ver[u].published => ver'[u].published
<1>1. ver \in VersionType /\ profile \in ProfileType
  BY DEF Inv, TypeInv
<1>2. /\ ver' = [ver EXCEPT ![v].published = TRUE] /\ ver[v].image # NoLock /\ mode' = mode
      /\ profile' = [profile EXCEPT !.current = v]
  BY DEF Publish, MayPublish
<1>3. /\ ver'[v].image = ver[v].image /\ ver'[v].published
      /\ \A u \in Versions : u # v => ver'[u] = ver[u]
  BY <1>1, <1>2 DEF VersionType
<1>4. profile'.current = v
  BY <1>1, <1>2 DEF ProfileType
<1>5. QED
  BY <1>2, <1>3, <1>4

(* What builds, publications and roll-backs do to the images is what the   *)
(* catalogue allows: a version gets its image once, and what is published  *)
(* has one, until a legacy request is granted in the middle of another     *)
(* build of its version.                                                   *)
THEOREM CatalogFollowed == Spec => CatalogKept
<1>1. Init => Catalog!Init
  BY DEF Init, Catalog!Init, Images, NoVersion
<1>2. ASSUME Inv, Inv', AsksKnow, ~doubled', [Next]_vars
      PROVE  [Catalog!Next]_<<Images, profile.current>>
  <2>1. /\ Images = [v \in Versions |-> ver[v].image]
        /\ Images' = [v \in Versions |-> ver'[v].image]
    BY <1>2 DEF Inv, ImagesKept, Images
  <2>2. CASE Kept
    BY <2>1, <2>2 DEF Kept
  <2>3. ASSUME NEW w \in Workers, Finish(w) PROVE Catalog!Next
    <3>1. PICK v \in Versions : /\ ver[v].image = NoLock /\ ver'[v].image \in Locks
                                /\ \A u \in Versions : u # v => ver'[u] = ver[u]
      BY <1>2, <2>3, FinishKeeps
    <3>2. profile'.current = profile.current
      BY <1>2, <2>3, FinishKeeps
    <3>3. Images[v] = NoLock /\ Images' = [Images EXCEPT ![v] = ver'[v].image]
      BY <2>1, <3>1
    <3>4. Catalog!Built(v, ver'[v].image)
      BY <3>2, <3>3 DEF Catalog!Built
    <3>5. QED
      BY <3>1, <3>4 DEF Catalog!Next
  <2>4. ASSUME NEW v \in Versions, Publish(v) PROVE Catalog!Next
    <3>1. /\ profile'.current = v /\ ver[v].image # NoLock
          /\ \A u \in Versions : ver'[u].image = ver[u].image
      BY <1>2, <2>4, PublishKeeps
    <3>2. Images[v] # NoLock /\ Images' = Images
      BY <2>1, <3>1
    <3>3. Catalog!Published(v)
      BY <3>1, <3>2 DEF Catalog!Published
    <3>4. QED
      BY <3>3 DEF Catalog!Next
  <2>5. QED
    BY <1>2, <2>2, <2>3, <2>4, ImageSteps
<1>3. ASSUME Whole, Whole', [Next]_vars
      PROVE  [doubled' \/ Catalog!Next]_<<Images, profile.current>>
  <2>1. CASE doubled'
    BY <2>1
  <2>2. CASE ~doubled'
    <3>1. ~doubled
      BY <1>3, <2>2, AskStep
    <3>2. QED
      BY <1>2, <1>3, <2>2, <3>1 DEF Whole
  <2>3. QED
    BY <2>1, <2>2
<1>4. QED
  BY <1>1, <1>3, WholeHolds, PTL DEF Spec, CatalogKept
-----------------------------------------------------------------------------
(* What is offered, bound and shown.                                        *)

LEMMA LatestIsUsable ==
  ASSUME Inv, LatestUsable # 0
  PROVE  LatestUsable \in Versions /\ Usable(LatestUsable)
<1> DEFINE usable == {v \in Versions : ver[v].status = "available"}
<1>1. usable # {}
  BY DEF LatestUsable
<1>2. usable \subseteq Nat /\ IsFiniteSet(usable)
  BY RowsFinite, FS_Subset
<1>3. \E m \in usable : \A k \in usable : k <= m
  BY <1>1, <1>2, NewestExists
<1>4. LatestUsable \in usable
  BY <1>1, <1>3 DEF LatestUsable
<1>5. QED
  BY <1>4 DEF Usable, Inv, ImagesKept

\* Who does not choose gets a version with an image, in V2 a published one.
LEMMA CurrentIsUsable ==
  ASSUME Inv, CurrentAvailable # 0
  PROVE  /\ CurrentAvailable \in Versions /\ Usable(CurrentAvailable)
         /\ mode = "v2" => ver[CurrentAvailable].published
<1>1. profile.current \in Versions \cup {0}
  BY DEF Inv, TypeInv, ProfileType
<1>2. CASE profile.current # 0
  BY <1>1, <1>2 DEF CurrentAvailable, Inv, PublishedKept
<1>3. CASE profile.current = 0
  BY <1>3, LatestIsUsable DEF CurrentAvailable
<1>4. QED
  BY <1>2, <1>3

LEMMA GivenIsUsable ==
  ASSUME Inv, NEW v \in Given
  PROVE  v \in Versions /\ Usable(v) /\ (mode = "v2" => ver[v].published)
<1>1. v \in Versions /\ 0 \notin Versions
  BY Kinds DEF Given
<1>2. CASE v = CurrentAvailable
  BY <1>1, <1>2, CurrentIsUsable
<1>3. CASE Selectable(v)
  BY <1>1, <1>3 DEF Selectable, Inv, PublishedKept
<1>4. QED
  BY <1>2, <1>3 DEF Given

GivenSound == /\ \A v \in Given : /\ v \in Versions /\ Usable(v)
                                  /\ mode = "v2" => ver[v].published
              /\ CurrentAvailable # 0 => CurrentAvailable \in Given

LEMMA GivenKept == Inv => GivenSound
BY GivenIsUsable, CurrentIsUsable DEF Given, GivenSound

LEMMA BoundInit == ChoiceInit => BoundKept
<1> SUFFICES ASSUME ChoiceInit PROVE BoundKept
  OBVIOUS
<1>1. bound = {} /\ profile.current = 0 /\ \A v \in Versions : ver[v].status = "none"
  BY DEF ChoiceInit, Init, NoVersion
<1>2. LatestUsable = 0
  BY <1>1 DEF LatestUsable
<1>3. CurrentAvailable = 0
  BY <1>1, <1>2 DEF CurrentAvailable
<1>4. QED
  BY <1>1, <1>3 DEF BoundKept

\* A version with an image keeps it, a published one stays published.
LEMMA UsableStays ==
  ASSUME Inv, Inv', AsksKnow, ~doubled', [Next]_vars, NEW v \in Versions, Usable(v)
  PROVE  /\ mode' = mode /\ Usable(v)'
         /\ ver[v].published => ver'[v].published
<1>1. ver'[v].image = ver[v].image /\ mode' = mode /\ (ver[v].published => ver'[v].published)
  <2>1. CASE Kept
    BY <2>1 DEF Kept
  <2>2. CASE \E w \in Workers : Finish(w)
    BY <2>2, FinishKeeps DEF Usable
  <2>3. CASE \E u \in Versions : Publish(u)
    BY <2>3, PublishKeeps
  <2>4. QED
    BY <2>1, <2>2, <2>3, ImageSteps
<1>2. ver'[v].status = "available" /\ ver'[v].image # NoLock
  BY <1>1 DEF Usable, Inv, ImagesKept
<1>3. QED
  BY <1>1, <1>2 DEF Usable

LEMMA BoundStep ==
  ASSUME Inv, Inv', AsksKnow, ~doubled', BoundKept, [ChoiceNext]_choiceVars
  PROVE  BoundKept'
<1>1. CASE UNCHANGED choiceVars
  BY <1>1 DEF choiceVars, vars, BoundKept, Usable, CurrentAvailable, LatestUsable
<1>2. CASE ChoiceNext
  <2>1. [Next]_vars /\ bound' = bound \cup Given'
    BY <1>2 DEF ChoiceNext
  <2>2. /\ \A v \in Given' : /\ v \in Versions /\ Usable(v)'
                             /\ mode' = "v2" => ver'[v].published
        /\ CurrentAvailable' # 0 => CurrentAvailable' \in Given'
    <3>1. GivenSound'
      BY GivenKept, PTL
    <3>2. QED
      BY <3>1 DEF GivenSound
  <2>3. \A v \in bound : v \in Versions /\ Usable(v)' /\ (mode' = "v2" => ver'[v].published)
    BY <2>1, UsableStays DEF BoundKept
  <2>4. QED
    BY <2>1, <2>2, <2>3 DEF BoundKept
<1>3. QED
  BY <1>1, <1>2

LEMMA ChoiceImpliesSpec == ChoiceSpec => Spec
<1>1. ChoiceInit => Init
  BY DEF ChoiceInit
<1>2. [ChoiceNext]_choiceVars => [Next]_vars
  BY DEF ChoiceNext, choiceVars
<1>3. QED
  BY <1>1, <1>2, PTL DEF ChoiceSpec, Spec

-----------------------------------------------------------------------------
(* The parts of BuildsSound.                                                *)

LEMMA RowsAgreeHolds == Inv /\ AsksKnow => RowsAgree
<1> SUFFICES ASSUME Inv, AsksKnow PROVE RowsAgree
  OBVIOUS
<1>1. TypeOK
  BY DEF AsksKnow, Inv, TypeInv, TypeOK, ProfileType, DraftType, VersionType, JobType, TagType, VersionStatuses
<1>2. DraftFollowsJob
  <2>1. mode \in {"v2", "legacy"}
    BY Kinds DEF Inv, TypeInv
  <2>2. draft.state # "building" => \A j \in Jobs : mode = "v2" => job[j].status \notin Active
    BY DEF Inv, DraftKnows
  <2>3. draft.state = "building" => /\ draft.job # 0 /\ job[draft.job].ver = draft.cand
                                    /\ job[draft.job].status \in Active \cup {"raised"}
    BY Kinds DEF Inv, DraftKnows
  <2>4. draft.state = "ready" => /\ ver[draft.cand].status = "available"
                                 /\ ver[draft.cand].spec = draft.spec
    BY DEF Inv, DraftKnows
  <2>5. QED
    BY <2>2, <2>3, <2>4 DEF DraftFollowsJob
<1>3. VersionFollowsJobs
  <2>1. SUFFICES ASSUME NEW v \in Versions
                 PROVE  /\ ver[v].status \in Active <=> ActiveJobs(v) # {}
                        /\ Cardinality(ActiveJobs(v)) <= 1
    BY DEF VersionFollowsJobs
  <2>2. ver[v].status \in Active <=> ActiveJobs(v) # {}
    BY DEF Inv, OneActive, ActiveJobs, JobsOf
  <2>3. \A j, k \in ActiveJobs(v) : j = k
    BY DEF Inv, OneActive, ActiveJobs, JobsOf
  <2>4. CASE ActiveJobs(v) = {}
    <3>1. Cardinality(ActiveJobs(v)) = 0
      BY <2>4, FS_EmptySet
    <3>2. QED
      BY <2>2, <3>1
  <2>5. CASE ActiveJobs(v) # {}
    <3>1. PICK j : j \in ActiveJobs(v)
      BY <2>5
    <3>2. ActiveJobs(v) = {j}
      BY <2>3, <3>1
    <3>3. Cardinality(ActiveJobs(v)) = 1
      BY <3>2, FS_Singleton
    <3>4. QED
      BY <2>2, <3>3
  <2>6. QED
    BY <2>4, <2>5
<1>4. QED
  BY <1>1, <1>2, <1>3 DEF RowsAgree

LEMMA OffersHold == Inv /\ BoundKept => OffersAccepted
<1> SUFFICES ASSUME Inv, BoundKept PROVE OffersAccepted
  OBVIOUS
<1>1. profile.current \in Versions \cup {0} /\ 0 \notin Versions /\ mode \in {"v2", "legacy"}
  BY Kinds DEF Inv, TypeInv, ProfileType
<1>2. CASE mode = "v2"
  <2>1. Offered = CurrentOptions
    BY <1>2 DEF Offered
  <2>2. \A v \in Offered : Selectable(v)
    BY <1>1, <2>1 DEF CurrentOptions, Selectable
  <2>3. \A v \in Versions : Selectable(v) => v \in Offered
    BY <1>2, <2>1 DEF CurrentOptions, Selectable
  <2>4. CurrentAvailable # 0 /\ profile.status = "active" => Offered = {CurrentAvailable}
    <3>1. SUFFICES ASSUME CurrentAvailable # 0, profile.status = "active"
                   PROVE  Offered = {CurrentAvailable}
      OBVIOUS
    <3>2. profile.current # 0 /\ Usable(profile.current) /\ CurrentAvailable = profile.current
      BY <1>2, <3>1 DEF CurrentAvailable
    <3>3. QED
      BY <1>1, <2>1, <3>1, <3>2 DEF CurrentOptions
  <2>5. QED
    BY <2>2, <2>3, <2>4 DEF OffersAccepted, BoundKept
<1>3. CASE mode = "legacy"
  <2>1. Offered = Options /\ profile.current = 0
    BY <1>3 DEF Offered, Inv, PublishedKept
  <2>2. \A v \in Offered : Selectable(v)
    BY <1>3, <2>1, CurrentIsUsable DEF Options, Selectable
  <2>3. CurrentAvailable # 0 /\ profile.status = "active" => Offered = {CurrentAvailable}
    BY <2>1 DEF Options
  <2>4. QED
    BY <1>3, <2>2, <2>3 DEF OffersAccepted, BoundKept
<1>4. QED
  BY <1>1, <1>2, <1>3

LEMMA BindingsKept == Inv /\ BoundKept => BindingsHold
<1> SUFFICES ASSUME Inv, BoundKept, NEW v \in bound
             PROVE  /\ RunImage(v) # NoLock /\ \A u \in bound : MayIssue(v, u)
                    /\ Summary(v) = RunImage(v)
                    /\ mode = "v2" => OptionOf(v) = Summary(v)
  BY DEF BindingsHold
<1>1. v \in Versions /\ \A u \in bound : Usable(u)
  BY DEF BoundKept
<1>2. RunImage(v) = ver[v].image /\ ver[v].image # NoLock
  BY <1>1 DEF RunImage, Runnable, Usable
<1>3. \A u \in bound : MayIssue(v, u)
  BY <1>1 DEF MayIssue, Runnable
<1>4. Packages(v) = ver[v].image
  BY <1>1, <1>2 DEF Packages, Inv, ImagesKept
<1>5. mode = "v2" => OptionOf(v) = Summary(v)
  BY <1>1 DEF OptionOf, Summary, BoundKept
<1>6. QED
  BY <1>1, <1>2, <1>3, <1>4, <1>5 DEF Summary

LEMMA ButtonsKept == Inv => ButtonsWork
<1> SUFFICES ASSUME Inv, mode = "v2" PROVE ButtonsWork
  BY DEF ButtonsWork
<1>1. /\ draft \in DraftType /\ profile \in ProfileType /\ 0 \notin Versions /\ 0 \notin Jobs
      /\ ver \in VersionType /\ job \in JobType
  BY Kinds DEF Inv, TypeInv
<1>2. draft.state # "building" => draft.job = 0
  BY DEF Inv, DraftKnows
<1>3. draft.state = "none" => draft.cand = 0
  BY DEF Inv, DraftKnows, NoDraft
<1>4. Buttons.create <=> MayCreateDraft
  BY DEF Buttons, MayCreateDraft
<1>5. Buttons.edit <=> profile.status = "active" /\ MayEditDraft
  BY DEF Buttons, MayEditDraft
<1>6. Buttons.build /\ ~NothingNew <=> MayBuild
  <2>1. draft.state = "ready" => NothingNew
    BY <1>1 DEF Inv, DraftKnows, NothingNew, FailedCandidate, Unchanged
  <2>2. draft.state \in {"none", "editing", "building", "ready", "failed"}
    BY <1>1 DEF DraftType
  <2>3. Buttons.build <=> /\ profile.status = "active" /\ draft.state # "none" /\ ~DraftBusy
                          /\ draft.state \in {"editing", "failed"}
    BY DEF Buttons
  <2>4. draft.state = "building" => DraftBusy
    BY DEF DraftBusy
  <2>5. QED
    BY <2>1, <2>2, <2>3, <2>4 DEF MayBuild, MayEditDraft
<1>7. ASSUME NEW j \in Jobs PROVE MayRetry(j) <=> Buttons.retry /\ j = CandidateJob
  <2>1. Buttons.retry <=> CanRetryBuild(CandidateJob)
    BY DEF Buttons
  <2>2. ASSUME MayRetry(j) PROVE CanRetryBuild(j) /\ j = CandidateJob
    <3>1. /\ job[j].status \in Failed /\ ver[job[j].ver].status # "available"
          /\ draft.cand = job[j].ver /\ draft.state = "failed" /\ LatestJob(job[j].ver) = j
          /\ draft.spec = ver[job[j].ver].spec /\ draft.cand # 0
      BY <2>2 DEF MayRetry, Unchanged
    <3>2. j \in JobsOf(draft.cand)
      BY <3>1 DEF JobsOf
    <3>3. CandidateJob = j
      BY <3>1, <3>2 DEF CandidateJob
    <3>4. QED
      BY <1>1, <1>2, <3>1, <3>3 DEF CanRetryBuild
  <2>3. ASSUME CanRetryBuild(j), j = CandidateJob PROVE MayRetry(j)
    <3>1. draft.cand # 0 /\ draft.state = "failed" /\ draft.job = 0
      BY <1>1, <1>2, <2>3 DEF CandidateJob, CanRetryBuild
    <3>2. ~DraftBusy
      BY <3>1 DEF DraftBusy
    <3>3. QED
      BY <2>3, <3>1, <3>2 DEF MayRetry, CanRetryBuild, Unchanged
  <2>4. QED
    BY <2>1, <2>2, <2>3
<1>8. Buttons.publish <=> draft.cand # 0 /\ MayPublish(draft.cand)
  BY <1>3 DEF Buttons, MayPublish, Usable
<1>9. Buttons.rollback <=> draft.state = "none" /\ \E v \in Versions \ {profile.current} : MayPublish(v)
  <2>1. draft.state = "none" => \A v \in Versions :
          MayPublish(v) <=> profile.status = "active" /\ Usable(v) /\ ver[v].published
    BY <1>1, <1>3 DEF MayPublish, Usable
  <2>2. \A v \in Versions : ver[v].published => profile.current # 0
    BY DEF Inv, PublishedKept
  <2>3. Buttons.rollback <=> /\ profile.status = "active" /\ draft.state = "none" /\ profile.current # 0
                             /\ \E v \in Versions \ {profile.current} : Usable(v) /\ ver[v].published
    BY DEF Buttons
  <2>4. QED
    BY <2>1, <2>2, <2>3
<1>10. (Buttons.archive <=> MayArchive("inactive")) /\ (Buttons.restore <=> MayArchive("active"))
  <2>1. profile.status \in {"active", "inactive"}
    BY <1>1 DEF ProfileType
  <2>2. QED
    BY <2>1 DEF Buttons, MayArchive
<1>11. QED
  BY <1>4, <1>5, <1>6, <1>7, <1>8, <1>9, <1>10 DEF ButtonsWork

(* However many builds, retries, publications, roll-backs and archivings   *)
(* there are: the rows of a build tell the same story, what is offered is  *)
(* accepted, what was bound goes on running and is shown with the packages *)
(* of its image, and a button is live exactly when its request would be    *)
(* accepted.                                                               *)
THEOREM ChoicesSound == ChoiceSpec => []BuildsSound
<1> DEFINE Chosen == doubled \/ BoundKept
<1>1. ChoiceInit => Chosen
  BY BoundInit
<1>2. Whole /\ Whole' /\ Chosen /\ [ChoiceNext]_choiceVars => Chosen'
  <2>1. [ChoiceNext]_choiceVars => [Next]_vars
    BY DEF ChoiceNext, choiceVars
  <2>2. ASSUME Whole, Whole', Chosen, [ChoiceNext]_choiceVars, ~doubled' PROVE BoundKept'
    <3>1. ~doubled
      BY <2>1, <2>2, AskStep
    <3>2. Inv /\ Inv' /\ AsksKnow /\ BoundKept
      BY <2>2, <3>1 DEF Whole
    <3>3. QED
      BY <2>2, <3>2, BoundStep
  <2>3. QED
    BY <2>2
<1>3. Whole /\ Chosen => BuildsSound
  BY RowsAgreeHolds, OffersHold, BindingsKept, ButtonsKept DEF BuildsSound, Whole
<1>4. ChoiceSpec => []Whole
  BY ChoiceImpliesSpec, WholeHolds, PTL
<1>5. QED
  BY <1>1, <1>2, <1>3, <1>4, PTL DEF ChoiceSpec
=============================================================================
