---------------------------- MODULE ImageBuilder ----------------------------
(***************************************************************************)
(* How the image of one environment version is made: what a build worker   *)
(* asks of the Docker daemon and of the registry between its claim and the *)
(* end of the job (process_v2_build and process_build, with                *)
(* environment_builder_v2.py and environment_builder.py).                  *)
(*                                                                         *)
(* The daemon outlives the workers and knows containers and images by      *)
(* names that several attempts share: those of a job its temporary tag,    *)
(* those of a version the containers' names and the registry's tag.  An    *)
(* attempt makes one image, which has its number.  EnvironmentBuild has    *)
(* the jobs, drafts and wake-ups around this.  Logs, Dockerfiles, proxies  *)
(* and the contents of locks and reports are left out.                     *)
(***************************************************************************)
EXTENDS Naturals, FiniteSets, Functions

CONSTANTS Attempts,    \* claims of the version's jobs, 1..n
          Resolved,    \* locks the resolver may find
          MaxUpsets    \* bound on stalls, deaths and failures

ASSUME ImageAssumption ==
  /\ IsFiniteSet(Attempts) /\ Attempts = 1..Cardinality(Attempts)
  /\ MaxUpsets \in Nat /\ "none" \notin Resolved

VARIABLES route,    \* "v2" or "legacy": EnvironmentBuildJob.build_mode
          build,    \* the job: number, status, who holds the lease
          release,  \* the version: status, image_digest, resolution_lock
          try,      \* try[a]: what an attempt is doing
          named,    \* the container that runs under a name, by its attempt
          temp,     \* the image under the temporary tag of each job
          label,    \* the image under the tags of the registry and of the official image
          images,   \* images the daemon has
          pushed,   \* images the registry has
          tested,   \* images that passed the validation
          madeFrom, \* the lock each image was built from
          upsets,   \* how many so far
          mixed,    \* two attempts have been at work at once
          littered  \* a worker died, or a clean-up failed

imageVars == <<route, build, release, try, named, temp, label, images, pushed, tested, madeFrom,
               upsets, mixed, littered>>

Names == {"resolve", "validate"}
NotBegun == [pc |-> "none", job |-> 0, lock |-> "none", ref |-> 0, lost |-> FALSE]

ImageInit ==
  /\ route \in {"v2", "legacy"}
  /\ build = [n |-> 1, status |-> "queued", holder |-> 0]
  /\ release = [status |-> "draft", image |-> 0, lock |-> "none"]
  /\ try = [a \in Attempts |-> NotBegun]
  /\ named = [n \in Names |-> 0]
  /\ temp = [j \in Attempts |-> 0]
  /\ label = [t \in {"repository", "official"} |-> 0]
  /\ images = {} /\ pushed = {} /\ tested = {}
  /\ madeFrom = [a \in Attempts |-> "none"]
  /\ upsets = 0 /\ mixed = FALSE /\ littered = FALSE

At(a, pc) == try[a].pc = pc
Go(a, pc) == try' = [try EXCEPT ![a].pc = pc]
Temp(a) == temp[try[a].job]
Upset == upsets < MaxUpsets /\ upsets' = upsets + 1
Ended == {"none", "gone"}

\* _touch_job_lease and the other guarded updates.
Holds(a) == build.status = "building" /\ build.holder = a

daemon == <<named, temp, label, images, pushed>>
records == <<route, build, release>>
notes == <<tested, madeFrom, mixed, littered>>
Only(a, pc) == Go(a, pc) /\ UNCHANGED <<records, daemon, notes, upsets>>

-----------------------------------------------------------------------------
(* The job around it.                                                      *)

\* claim_build_job
ClaimBuild(a) ==
  /\ At(a, "none") /\ (\A b \in Attempts : b < a => try[b].pc # "none") /\ build.status = "queued"
  /\ build' = [build EXCEPT !.status = "building", !.holder = a]
  /\ try' = [try EXCEPT ![a] = [NotBegun EXCEPT !.pc = "preflight", !.job = build.n]]
  /\ mixed' = (mixed \/ \E b \in Attempts : try[b].pc \notin Ended)
  /\ UNCHANGED <<route, release, daemon, tested, madeFrom, littered, upsets>>

\* recover_stale_builds, after a worker stalled for longer than its lease, or died.
Recovered ==
  /\ build.status = "building"
  /\ \/ At(build.holder, "gone") /\ UNCHANGED upsets
     \/ ~At(build.holder, "gone") /\ Upset
  /\ build' = [build EXCEPT !.status = "queued", !.holder = 0]
  /\ UNCHANGED <<route, release, try, daemon, notes>>

\* LeaseGuard._run finds the lease gone and kills what the worker waits for.
LeaseGone(a) ==
  /\ try[a].pc \notin Ended /\ ~Holds(a) /\ ~try[a].lost
  /\ try' = [try EXCEPT ![a].lost = TRUE]
  /\ UNCHANGED <<records, daemon, notes, upsets>>

\* A failed job is retried: another job for the same version.
RetryBuild ==
  /\ build.status = "failed" /\ build.n < Cardinality(Attempts)
  /\ build' = [n |-> build.n + 1, status |-> "queued", holder |-> 0]
  /\ release' = [release EXCEPT !.status = "building"]
  /\ UNCHANGED <<route, try, daemon, notes, upsets>>

WorkerDies(a) ==
  /\ try[a].pc \notin Ended /\ Upset
  /\ Go(a, "gone") /\ littered' = TRUE
  /\ UNCHANGED <<records, daemon, tested, madeFrom, mixed>>

\* docker image rm --force tag: an image goes with its last tag.
Untagged(image, tags) == images \ ({image} \ (Range(tags) \cup Range(label)))

\* LeaseLost, at the start of a phase or after a subprocess.
Leave(a, pc) == At(a, pc) /\ (try[a].lost \/ ~Holds(a)) /\ Only(a, "clean")
Aborted(a, pc) == At(a, pc) /\ try[a].lost /\ Only(a, "clean")

\* V2BuildFailure, BuildFailure, in whichever step.
BuildFailure(a, pc) == At(a, pc) /\ Upset /\ Go(a, "fail") /\ UNCHANGED <<records, daemon, notes>>
PreflightFails(a) == BuildFailure(a, "preflight")
Unconfigured(a) == route = "v2" /\ \E pc \in {"resolve", "build"} : BuildFailure(a, pc)
LegacyFails(a) == route = "legacy" /\ \E pc \in {"build", "smoke"} : BuildFailure(a, pc)
RegistryFails(a) == \E pc \in {"tag", "push", "digest", "pull"} : BuildFailure(a, pc)

-----------------------------------------------------------------------------
(* Containers that the daemon knows by name (v2).                          *)

\* _run_capture of docker run --name: the name must be free.
RunNamed(a, name, pc) ==
  IF named[name] # 0 THEN Only(a, "fail")
  ELSE /\ named' = [named EXCEPT ![name] = a] /\ Go(a, pc)
       /\ UNCHANGED <<records, temp, label, images, pushed, notes, upsets>>

\* --rm, when the container ends; its worker may have been killed or be gone.
Vacated(a, name) == named' = [named EXCEPT ![name] = IF @ = a THEN 0 ELSE @]
ContainerEnds(name) ==
  /\ named[name] # 0 /\ try[named[name]].pc \notin {"resolving", "validating"}
  /\ named' = [named EXCEPT ![name] = 0]
  /\ UNCHANGED <<records, try, temp, label, images, pushed, notes, upsets>>

\* V2BuildTimeout: _cleanup_named_container, whoever runs under the name.
RunTimesOut(a, name, pc) ==
  /\ At(a, pc) /\ Upset /\ Go(a, "fail")
  /\ named' = [named EXCEPT ![name] = 0]
  /\ UNCHANGED <<records, temp, label, images, pushed, notes>>

\* The container fails, or what it reports is no lock, or not what was asked for.
Unusable(a, name, pc) ==
  /\ At(a, pc) /\ Upset /\ Go(a, "fail") /\ Vacated(a, name)
  /\ UNCHANGED <<records, temp, label, images, pushed, notes>>
NoLock(a) == Unusable(a, "resolve", "resolving")
NotValid(a) == Unusable(a, "validate", "validating")

-----------------------------------------------------------------------------
(* The phases: preflight, resolution, build.                               *)

\* Fingerprint, manifest, persisted lock, _validate_preflight.
Preflight(a) ==
  /\ At(a, "preflight") /\ Holds(a)
  /\ try' = [try EXCEPT ![a].lock = release.lock,
       ![a].pc = IF route = "v2" /\ release.lock = "none" THEN "resolve" ELSE "build"]
  /\ UNCHANGED <<records, daemon, notes, upsets>>

\* _resolve_in_base_image
StartResolve(a) == At(a, "resolve") /\ RunNamed(a, "resolve", "resolving")

KeepLock(a, lock) == /\ release' = [release EXCEPT !.lock = lock]
                 /\ try' = [try EXCEPT ![a].lock = lock, ![a].pc = "build"]

\* Mutant: what was resolved is stored without a look at the lease.
PersistAnyway(a) ==
  /\ At(a, "resolving") /\ ~try[a].lost
  /\ Vacated(a, "resolve")
  /\ \E lock \in Resolved : KeepLock(a, lock)
  /\ UNCHANGED <<route, build, temp, label, images, pushed, notes, upsets>>

\* The report becomes a lock, and persist_resolution_lock stores it: what was
\* resolved after the lease was lost is dropped.
Persist(a) ==
  /\ At(a, "resolving") /\ ~try[a].lost
  /\ Vacated(a, "resolve")
  /\ IF Holds(a) THEN \E lock \in Resolved : KeepLock(a, lock)
                 ELSE Go(a, "clean") /\ UNCHANGED release
  /\ UNCHANGED <<route, build, temp, label, images, pushed, notes, upsets>>

\* What the Dockerfile installs, with --require-hashes: the attempt's lock.
Rendered(a) == try[a].lock

\* The lease was looked at before docker build, not when the image takes the tag.
Makes(a, lock, pc) ==
  /\ At(a, "build") /\ ~try[a].lost
  /\ images' = images \cup {a} /\ temp' = [temp EXCEPT ![try[a].job] = a]
  /\ madeFrom' = [madeFrom EXCEPT ![a] = lock]
  /\ Go(a, pc)
  /\ UNCHANGED <<records, named, label, pushed, tested, mixed, littered, upsets>>

\* _run_docker_build and _docker_build: the new image takes the job's tag.
DockerBuild(a) == route = "v2" /\ Makes(a, Rendered(a), "validate")
LegacyBuild(a) == route = "legacy" /\ Makes(a, "none", "smoke")

\* V2 out of time: the tag is removed, whosever it is.
BuildTimesOut(a) ==
  /\ At(a, "build") /\ route = "v2" /\ Upset /\ Go(a, "fail")
  /\ temp' = [temp EXCEPT ![try[a].job] = 0] /\ images' = Untagged(Temp(a), temp')
  /\ UNCHANGED <<records, named, label, pushed, notes>>

-----------------------------------------------------------------------------
(* Validation and publication, v2.                                         *)

\* _validate_image: the container runs the image that has the tag now.
StartValidate(a) ==
  /\ At(a, "validate") /\ Holds(a)
  /\ IF Temp(a) = 0 \/ named["validate"] # 0 THEN Only(a, "fail")
     ELSE /\ named' = [named EXCEPT !["validate"] = a]
          /\ try' = [try EXCEPT ![a].pc = "validating", ![a].ref = Temp(a)]
          /\ UNCHANGED <<records, temp, label, images, pushed, notes, upsets>>
Validated(a) ==
  /\ At(a, "validating") /\ ~try[a].lost
  /\ Vacated(a, "validate") /\ tested' = tested \cup {try[a].ref} /\ Go(a, "tag")
  /\ UNCHANGED <<records, temp, label, images, pushed, madeFrom, mixed, littered, upsets>>

\* _publish_image_to_registry: tag, push, read the digest, pull it.
TagForRegistry(a) ==
  /\ At(a, "tag") /\ ~try[a].lost
  /\ IF Temp(a) = 0 THEN Only(a, "fail")
     ELSE /\ label' = [label EXCEPT !["repository"] = Temp(a)] /\ Go(a, "push")
          /\ UNCHANGED <<records, named, temp, images, pushed, notes, upsets>>
PushImage(a) ==
  /\ At(a, "push") /\ ~try[a].lost
  /\ pushed' = pushed \cup {label["repository"]} /\ Go(a, "digest")
  /\ UNCHANGED <<records, named, temp, label, images, notes, upsets>>
ReadDigest(a) ==
  /\ At(a, "digest") /\ ~try[a].lost
  /\ IF label["repository"] \notin pushed THEN Only(a, "fail")
     ELSE /\ try' = [try EXCEPT ![a].pc = "pull", ![a].ref = label["repository"]]
          /\ UNCHANGED <<records, daemon, notes, upsets>>
PullImage(a) ==
  /\ At(a, "pull") /\ ~try[a].lost
  /\ images' = images \cup {try[a].ref} /\ Go(a, "finish")
  /\ UNCHANGED <<records, named, temp, label, pushed, notes, upsets>>

-----------------------------------------------------------------------------
(* The legacy route: the image is checked and named by its local id.       *)

\* _run_smoke
Smoke(a) ==
  /\ At(a, "smoke") /\ ~try[a].lost
  /\ IF Temp(a) = 0 THEN Only(a, "fail")
     ELSE /\ tested' = tested \cup {Temp(a)} /\ Go(a, "inspect")
          /\ UNCHANGED <<records, daemon, madeFrom, mixed, littered, upsets>>

\* _docker_inspect_id
InspectId(a) ==
  /\ At(a, "inspect")
  /\ IF Temp(a) = 0 THEN Only(a, "fail")
     ELSE /\ try' = [try EXCEPT ![a].pc = "finish", ![a].ref = Temp(a)]
          /\ UNCHANGED <<records, daemon, notes, upsets>>

\* _tag_official_image, which may fail: the digest is what is run.
TagOfficial(a) ==
  /\ At(a, "official") /\ Go(a, "gone")
  /\ label' = [label EXCEPT !["official"] = IF Temp(a) = 0 THEN @ ELSE Temp(a)]
  /\ UNCHANGED <<records, named, temp, images, pushed, notes, upsets>>

-----------------------------------------------------------------------------
(* The end of an attempt.                                                  *)

Succeed(a) ==
  /\ At(a, "finish")
  /\ IF ~Holds(a) THEN Only(a, "clean")
     ELSE /\ build' = [build EXCEPT !.status = "succeeded"]
          /\ release' = [release EXCEPT !.status = "available", !.image = try[a].ref]
          /\ Go(a, IF route = "v2" THEN "clean" ELSE "official")
          /\ UNCHANGED <<route, daemon, notes, upsets>>

\* _fail_v2, _fail
MarkFailed(a) ==
  /\ At(a, "fail") /\ Go(a, "clean")
  /\ IF ~Holds(a) THEN UNCHANGED <<build, release>>
     ELSE /\ build' = [build EXCEPT !.status = "failed"]
          /\ release' = [release EXCEPT !.status = "failed"]
  /\ UNCHANGED <<route, daemon, notes, upsets>>

\* _cleanup_temp_image
CleanUpTemp(a) ==
  /\ At(a, "clean") /\ Go(a, "gone")
  /\ temp' = [temp EXCEPT ![try[a].job] = 0]
  /\ images' = Untagged(Temp(a), temp')
  /\ UNCHANGED <<records, named, label, pushed, notes, upsets>>
CleanUpFails(a) ==
  /\ At(a, "clean") /\ Upset /\ Go(a, "gone") /\ littered' = TRUE
  /\ UNCHANGED <<records, daemon, tested, madeFrom, mixed>>

Phase(a) ==
  \/ Preflight(a) \/ StartResolve(a) \/ Persist(a) \/ DockerBuild(a) \/ LegacyBuild(a)
  \/ StartValidate(a) \/ Validated(a) \/ TagForRegistry(a) \/ PushImage(a) \/ ReadDigest(a)
  \/ PullImage(a) \/ Smoke(a) \/ InspectId(a) \/ TagOfficial(a)
  \/ Succeed(a) \/ MarkFailed(a) \/ CleanUpTemp(a)
  \/ \E pc \in {"preflight", "resolve", "build", "validate"} : Leave(a, pc)
  \/ \E pc \in {"resolving", "validating", "tag", "push", "digest", "pull", "smoke"} :
       Aborted(a, pc)

Trouble(a) ==
  \/ WorkerDies(a) \/ CleanUpFails(a) \/ LeaseGone(a)
  \/ RunTimesOut(a, "resolve", "resolving") \/ RunTimesOut(a, "validate", "validating")
  \/ NoLock(a) \/ NotValid(a) \/ BuildTimesOut(a)
  \/ PreflightFails(a) \/ Unconfigured(a) \/ LegacyFails(a) \/ RegistryFails(a)

ImageNext ==
  \/ \E a \in Attempts : ClaimBuild(a) \/ Phase(a) \/ Trouble(a)
  \/ Recovered \/ RetryBuild \/ \E n \in Names : ContainerEnds(n)

-----------------------------------------------------------------------------
(* Every image was built from the lock that the version keeps, attempts    *)
(* after the first one included, however workers stall and take over.      *)
BuiltFromLock == route = "v2" => \A i \in Attempts :
  madeFrom[i] # "none" => madeFrom[i] = release.lock

(* An available version of the v2 editor is in the registry; a legacy one  *)
(* is on the host, as long as no two attempts were at work at once: the    *)
(* clean-up of the one that lost its lease removes the image of the other. *)
(* Then the image is also the one that was validated.                      *)
Runnable == release.status = "available" =>
  /\ route = "v2" => release.image \in pushed
  /\ ~mixed => release.image \in images \cap tested

(* No temporary image is left behind, on whichever way an attempt ended,   *)
(* but for that of a legacy version that has become available.             *)
NothingLeft ==
  ~littered /\ (\A a \in Attempts : try[a].pc \in Ended) =>
    \A j \in Attempts : temp[j] # 0 => route = "legacy" /\ release.status = "available"

ImageSound == BuiltFromLock /\ Runnable /\ NothingLeft
=============================================================================
