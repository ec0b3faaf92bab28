# Verification of the video generation service

TLA+ models of the video-generation core of this repository
(`src/invokeai/app/services/video/video_service.py` and the code around it):
TLC model checks them on small instances, and TLAPS proves theorems about them
for every value of the constants.

## 1. Inventory

### Components and their state

| Component | Source | State it keeps | Operations |
|---|---|---|---|
| Job scheduler & worker | `video_service.py` 57-121, 328-421, 460-607, 719-796 | `video_jobs` rows (status, cancel_requested, output_video_id, progress, error, timestamps); in memory: `_queue`, `_stop_event`, `_worker_thread`, `_active_processes` under `_process_lock` | `start`, `stop`, `create_job`, `cancel_job`, `get_job`, `list_jobs`, `_run_worker`, `_process_job`, `_is_cancel_requested`, `_mark_job_*`, `_update_job_progress`, `_cleanup_temp` |
| Encoder driver | `video_service.py` 609-717, 737-746 | temp directory `<temp>/<job_id>`, the ffmpeg process | `_prepare_keyframes`, `_encode_video`, `_resolve_ffmpeg_executable`, `_ensure_free_space` |
| Profile service | `video_service.py` 127-299, 798-835 | `video_profiles`, `video_profile_references` | `create_profile`, `update_profile`, `delete_profile`, `set_profile_references`, `get_profile`, `list_profiles`, `_validate_profile_mode` |
| Asset service | `video_service.py` 423-458 | `video_assets` rows, mp4 files under outputs | `list_assets`, `get_asset`, `get_asset_path` |
| Persistence schema | `migration_27.py` | the four tables, foreign keys (CASCADE / SET NULL) | migration 26 → 27 |
| HTTP facade | `api/routers/videos.py`, `video_profiles.py` | none | one `async def` handler per endpoint |
| Domain model | `schemas.py`, `video/__init__.py` | none (records, enums) | — |
| Locale scripts | `frontend/web/scripts/*.py` | files | unrelated to the service |

### How they interact

* HTTP handlers call the services synchronously. Every router function is
  `async def` and calls the blocking service without awaiting, so **handlers run
  one at a time on the event loop**. Each handler is still a sequence of
  separate SQL transactions, and the worker thread can run between any two of them.
* `create_job` inserts a `waiting` row and then puts the id on the in-memory
  queue. The single `VideoWorker` thread takes ids off the queue and runs
  `_process_job`. That function re-reads the row, checks `cancel_requested`,
  runs the pre-flight checks and writes `running`. It then prepares keyframes,
  writes `encoding`, spawns ffmpeg and polls it, and finally writes `completed`
  together with a `video_assets` row, or `cancelled`, or `error`.
* `cancel_job` reads the job in one transaction. In a second transaction it
  sets `cancel_requested`; if the status it read was `waiting`, it also marks the
  job `cancelled` and removes the job's temp directory. It then looks the job up
  in `_active_processes` and terminates its ffmpeg process.
* `start` recovers after a restart: one transaction turns `running` and
  `encoding` rows into `error` and re-enqueues the `waiting` ones. `stop` sets
  the stop event, terminates the processes in the map and waits 5 s for the
  worker to finish.

### What is hard

* Interleaving of the worker thread with handler transactions. The worker's
  UPDATEs have no condition on the current status, and `cancel_job` acts on a
  status it read in an earlier transaction.
* Two paths to cancellation: the durable flag, which the worker polls, and the
  process map, where `cancel_job` kills ffmpeg directly.
* Crashes and graceful stops at any point. The queue, the map and the worker are
  lost; rows, temp directories and orphaned ffmpeg processes survive.
* Failures at every step: pre-flight checks, keyframe copy, spawn, non-zero exit.

### What makes each component correct

* Scheduler: while the service is up, a row is `running`/`encoding` only if the
  worker is running that job. No `waiting` job is forgotten. Every job terminates,
  and it terminates once. `output_video_id` is set exactly for `completed` jobs,
  and a terminal row has `ended_at`. A job cancelled while encoding ends
  `cancelled`. An asset exists only for a successful encode.
* Profile service: the mode/consent rule holds for every profile.
  `set_references` is all-or-nothing. Deleting a profile leaves no references
  and no jobs behind.
* Asset service: `get_asset_path` never returns a path outside the outputs directory.
* Encoder driver: between 2 and 24 keyframes, and each one comes from the intended reference.

The hazards these properties aim at are listed, each at its source line, under
`hazards` in `PROJECT.json`.

## 2. Modules

| Module | Models | Checked by |
|---|---|---|
| `VideoJobs` | scheduler, worker, `create_job`/`cancel_job`, ffmpeg processes, `start`/`stop`/crash | `MCVideoJobs` runs; `VideoJobs_proofs` |
| `Keyframes` | the `_prepare_keyframes` loop and the input frame rate of `_encode_video` | `MCKeyframes` runs; `Keyframes_proofs` |
| `KeyframePreparation` | what keyframe preparation promises (spec 4.5), as one atomic step; `Keyframes` refines it | `keyframes_safety`; `Keyframes_proofs` |
| `ReferenceLists` | `Without(s, x)`, the list `s` without the entries equal to `x` (the filters of `set_profile_references` and of the image cascade) | through `VideoProfiles`; `ReferenceLists_proofs` |
| `VideoProfiles` | profile handlers, the reference cascades, the image store, the consent setting | `MCVideoProfiles`; `VideoProfiles_proofs` |
| `VideoSystem` | `VideoJobs` and `VideoProfiles` composed over the shared database | `MCVideoSystem`; `VideoSystem_proofs` |

Still open: an abstract one-job lifecycle with `VideoJobs` mapped to it by
`INSTANCE ... WITH`. The refinement only holds on paths without the stale-cancel
race (findings 1 and 2), so the abstract spec must allow those steps, or the
theorem must be restricted to a sub-specification. The keyframe loop, where
no such race exists, is shown to implement its abstract specification
(section 4), by TLC and by a proof (section 7).

## 3. VideoJobs: the model

`VideoJobs.tla` models one transaction (or one uninterrupted stretch of Python
between two suspension points) as one action.

| Variable | Code |
|---|---|
| `status`, `cancelReq`, `output`, `ended` | `video_jobs.status`, `.cancel_requested`, `.output_video_id IS NOT NULL`, `.ended_at IS NOT NULL` |
| `assets` | jobs that have a `video_assets` row |
| `queued` | `_queue`. Ids are enqueued once, in `created_at` order, so the FIFO is the set dequeued smallest-first. Job k is the k-th job created |
| `wpc`, `wjob` | where the worker thread is in `_run_worker`/`_process_job`/`_encode_video`, and which job it holds |
| `active` | keys of `_active_processes` |
| `proc` | each job's ffmpeg process: running, exited 0, exited non-zero, terminated |
| `temp` | existing `<temp>/<job_id>` directories |
| `stopEvent`, `svc` | `_stop_event`, and whether the process is down, running, or stopping |
| `apc`, `ajob`, `astale` | the handler in progress, its job, and the status `cancel_job` read |

Actions, in code order:

* `Start` is `start`. `Stop` is `stop`. `Exit` is the end of the process after
  the join. `Crash` is an abrupt kill. Both of the last two lose the in-memory state.
* `CreateJob` and `CreateJobEnqueue` are `create_job`'s insert and `put`.
* `CancelJob`, `CancelJobCommit` and `CancelJobSignal` are `cancel_job`'s three stages.
* The worker actions, in order: `WorkerLoop` (stop check), `WorkerTimeout`,
  `WorkerDequeue` (get and re-read), `WorkerCheckCancel`, `WorkerStart`
  (pre-flight and the `running` UPDATE), `WorkerKeyframes`, `WorkerEncoding`,
  `WorkerSpawn`, `WorkerPoll` (the end of the poll loop and the finally clause),
  `WorkerFinalCheck`, `WorkerComplete`, `WorkerMarkCancelled`, `WorkerMarkError`.
* `ProcExit` is ffmpeg finishing on its own.

Every worker UPDATE goes through `RowUpdate`: `UPDATE ... WHERE id = ?` on a row
that `delete_profile`'s cascade has removed changes nothing. `CancelRequested` is
`_is_cancel_requested`, which answers True when the row is gone. In `VideoJobs`
alone no row is ever removed; the composition below removes rows.

Abstracted data: progress values, error text, timestamps other than `ended_at`,
and the request payload. No property distinguishes them. The pre-flight checks
and keyframe preparation are modelled as a nondeterministic success or failure.
A disk that fills is enabled by the constant `DiskCanFail`.

### Runs (`MCVideoJobs.tla`)

| Run | Bounds | Result |
|---|---|---|
| `jobs_safety`: `TypeOK`, `RunningIsSupervised`, `AssetFromSuccessfulEncode` | 3 jobs, 2 halts, disk may fail | pass, 2.9 M states |
| `jobs_live`: `WaitingIsScheduled`, `EveryJobTerminates` (FairSpec) | 2 jobs, 1 halt, disk never fails | pass |
| `stale_cancel_output`: `OutputIffCompleted` | 2 jobs, 1 halt | violated |
| `terminal_overwritten`: `TerminalIsFinal` | 2 jobs, 1 halt | violated |
| `cancel_reported_error`: `CancelledEncodeNotError` | 2 jobs, no halt | violated |
| `diskfull_drops_job`: `WaitingIsScheduled` | disk may fail | violated |
| `encoder_outlives_stop`: `NoEncoderOutlivesStop` | 2 jobs, 1 halt | violated |

Why these bounds: three jobs let one job run while a second waits behind it and
a third is created meanwhile. Two halts let a stop and a crash both happen, with
a restart in between. The liveness run uses two jobs and one halt to keep the
search for fair cycles small. Every race found needs only one job.

Fairness (`Fairness` in VideoJobs):

* The worker thread is weakly fair. It is a daemon thread that never blocks for
  long: `get` times out after 0.5 s and polls sleep 0.25 s.
* A handler already running finishes its remaining transactions.
* ffmpeg exits: its input is finite, and `-t` bounds the output.
* A stopping process ends: the join has a 5 s timeout.
* The host restarts a service that is down. This is an operational assumption.

Clients, `stop` and crashes get no fairness. Halts are bounded by `MaxHalts`, so
runs eventually stay up.

### Findings

1. **Stale status in `cancel_job`** (line 401): `cancel_job` can mark a
   `completed` job `cancelled`, which leaves `output_video_id` set and an asset
   row behind.
2. **Unconditional worker UPDATEs** (line 500): a job that `cancel_job`
   cancelled while it was `waiting` is moved back to `running` by a worker that
   had already read it as `waiting`.
3. **Cancel during encoding reported as error** (line 689): `cancel_job` kills
   ffmpeg itself, and the worker then reads the non-zero exit code. This is the
   spec's own scenario S3.
4. **Pre-flight exceptions drop the job** (line 494): a full disk leaves the job
   `waiting` and off the queue until the next restart. A profile that fails the
   consent rule at that point (see VideoSystem) takes the same path.
5. **An encoder outlives `stop()`** (line 108): `stop()` terminates the
   processes in the map when it takes its snapshot. A worker still preparing
   keyframes spawns ffmpeg after that. The join times out, and the process ends
   with that encoder running.

Also seen, not kept as runs:

* `start()` writes `error` without `ended_at`
(line 70, against spec 8.2).
* A `cancel_job` that lands between the worker's final `_is_cancel_requested`
  (line 547) and the completion transaction returns 204, and the job still
  completes. This is not a finding: spec 5 makes cancellation cooperative, and
  its last observation point is after the encoder exits and before the job is
  marked completed.

## 4. Keyframes: the encoder driver's arithmetic

`Keyframes.tla` models `_prepare_keyframes` (lines 609-634) one loop iteration
per step. The variables are the inputs (`dur`, `nrefs`, `strict`, and the
reference files that are `missing`), the loop index `idx`, and `frames`, the
reference copied to each keyframe written so far. `Init` picks any input; an
empty reference list raises before the loop. `CopyKeyframe`, `MissingSource`
(the `VideoValidationError` for a missing file) and `Return` are the three ways
through one iteration. `KeyframeCount`, `SourceIndex` and `InputFps` are the
expressions of lines 622, 627 and 647. `InputFps` is the `.4f` rate in
ten-thousandths.

`SpecKeyframes` is spec 4.5 written independently of the code: clamp the
duration to 2..24, take reference `i mod N`, or reference 0 under strict lock.

| Run | Bounds | Result |
|---|---|---|
| `keyframes_safety`: `TypeOK`, `KeyframesFollowReferences`, `ImplementsPreparation` | durations 1..30 (the schema's range), 0..3 references | pass |
| `keyframe_short_video`: `InputCoversDuration` | same | violated |

`KeyframePreparation.tla` is the abstract specification: from the same
inputs, one step either returns `Rule(d, N, s)` (the clamp and round robin of
spec 4.5) or, when a reference the rule needs is missing, raises. It says
nothing of the order of the copies. `Keyframes` maps onto it as
`Prep == INSTANCE KeyframePreparation WITH outcome <- ..., keyframes <- ...`:
`copy` is `pending`, `done` is `returned` with `frames`, `failed` is
`invalid` with no keyframes. `ImplementsPreparation == Prep!Spec` is checked
as a `PROPERTY`. Under the mapping, a copy is a stutter, `MissingSource` is
`Fail` and `Return` is `Prepare`. Dropping the `not in missing` guard of a
copy (the mutant `CopyKeyframe_NoCheck`) breaks it: the loop then returns
keyframes of a missing file.

Finding 7. **Videos longer than 24 s come out short** (line 647): for 25..30 s,
24 keyframes are fed at `max(24/d, 1.0)` = 1 fps, which is 24 s of input.
`-t d` cannot lengthen it, but the asset row records `duration = d`.

## 5. VideoProfiles: the profile service

`VideoProfiles.tla` has one action per handler: `CreateProfile`,
`UpdateProfile`, `DeleteProfile` and `SetReferences`. The handlers run one at a
time on the event loop, and the worker only reads profiles, so each handler is
one step. A handler that raises inside its transaction is rolled back (spec
4.1).

* State: the profile rows (`profiles`), the ids handed out (`used`), `mode`,
  `consent`, the ordered reference list `refs`, and the images the store
  resolves (`images`).
* `requireConsent` is the consent setting the process was started with.
* `result` is the answer of the handler in this step: 200, 404, 422, or an
  unhandled `IntegrityError`.
* The image store is the environment: `ImageAdded`, and `ImageDeleted`, whose
  foreign key (migration 27, line 30) removes the image from every reference
  list.
* `Reconfigure` is a restart with a new consent setting.
* `SetReferences` drops blank names (`CleanNames`), checks that every name resolves, and
  replaces the list in one transaction. A repeated name violates
  `UNIQUE (profile_id, image_name)`; the transaction then rolls back and the
  error escapes as a 500.

Run `profiles_safety` (`MCVideoProfiles`): 2 profile ids, 2 images, a blank
entry, and requests of up to 3 names, with consent required. Checked:

* `ConsentHeld`: spec 3's consent rule holds for every stored profile.
* `ReferencesResolve`: references are distinct existing images, and a deleted
  profile has none.

It passes. Symmetry over the profile ids and over the images is sound: nothing
tells two ids or two images apart.

Three observations are not kept as runs:

* After a restart that turns the consent setting on, real-identity profiles
  without consent stay stored. Spec 3 states the rule as an invariant.
* A failed handler writes nothing. The rollback of `set_profile_references`
  after a repeated name is done by the transaction helper of the sqlite layer,
  which is not under `src/`. `Reject` takes it as one atomic step, so a
  property about it would only restate `Reject`.
* A reference list that repeats a name (also `a/x.png` next to `x.png`) answers
  500 instead of 422.

Both lists that lose entries, the request without its blank names and every
reference list without a deleted image, are computed by `Without` of
`ReferenceLists`. It is `SelectSeq(s, LAMBDA e : e # x)` written out as a
recursive function over the prefixes of `s`, with the Sequences module's own
definition. `tlapm` cannot expand `SelectSeq`, and `Without` lets the proofs
reason about the filter.

## 6. VideoSystem: profiles and jobs together

`VideoSystem.tla` instantiates both modules on shared variables. It adds
`jobProfile` (`video_jobs.profile_id`) and `assetProfile`
(`video_assets.profile_id`).

* `SysCreateJob` is `create_job`'s profile checks followed by `CreateJob`.
* `SysStart` starts with the consent setting then in force.
* `SysWorkerStart` is `_process_job`'s `get_profile` and
  `_validate_profile_mode` before the running UPDATE. A failure escapes before
  the try block and leaves the job as it is.
* `SysWorkerComplete` writes the asset with the job's profile. The asset insert
  fails on the foreign key once the profile is gone, and the worker then marks
  the (missing) row as error.
* `SysDeleteProfile` removes the profile's job rows (CASCADE) and sets its
  assets' profile to NULL.
* Profile handlers run only while no job handler is between transactions.

Run `system_safety`: 1 job, 2 profile ids, 1 image, 1 halt, and the consent
setting may change at restart. Checked:

* `EncodeOnlyConsented`: `_process_job`'s re-validation keeps a job created
  under the old setting from being encoded.

It passes with 252,680 states. One job is enough for each race here, because
each needs only the job, its profile, and a second profile id to create. Two
jobs take the search past 6 M states without finishing in 5 minutes. `VIEW`
leaves out `result`, which no action reads and no property of this run
mentions.

No run states that job rows or assets never name a deleted profile. The
`ON DELETE CASCADE` and `SET NULL` of migration 27 guarantee it, and an UPDATE
never creates a row, so it holds whatever the service code does. The proof of
`EncodeConsented` uses it as the lemma-level invariant `NoJobOfDeletedProfile`.

## 7. Proofs

Five modules hold theorems. Theorems about a composed module are proved from
the definitions reached through `INSTANCE` (`J!Jobs`, `P!ValidProfileMode`);
the assumptions on the constants that such a proof needs are restated in
`VideoSystem` itself (`SysConfigsAssumption`, `SysJobsAssumption`), since a
proof cannot cite an instantiated `ASSUME`. `tlapm` checks every one of them to the last leaf.

### `VideoJobs_proofs`

* `TypeCorrect`: `Spec => []TypeOK`. It needs the strengthening `BusyHasJob`:
  whenever the worker or a handler is past its idle state, it holds a job id.
  Without it, `assets \cup {wjob}` could add `NoJob`.
* `Supervised`: `Spec => []RunningIsSupervised`, by the inductive invariant
  `TypeInv /\ RunningIsSupervised`. The argument has four parts:
  1. `start` leaves no row `running`/`encoding`.
  2. Only the worker writes those statuses, only for `wjob`, and it moves into
     the try block as it does.
  3. The worker leaves the try block only through a step that writes a terminal
     status for `wjob`.
  4. Dequeuing, which changes `wjob`, happens only outside the try block, where
     by the invariant nothing is running.

  Stops leave the worker running, and crashes set `svc` to down.

* `AssetsFromSuccess`: `Spec => []AssetFromSuccessfulEncode`. The property is
  not inductive: the completion step writes the asset of `wjob`, so the
  invariant `AssetInv` must know what the worker's position says of `wjob`.
  It adds to `TypeInv`:
  1. a job id above `nextJob` has no row and no asset (`create_job`
     allocates ids in order, so a fresh job never inherits an asset);
  2. a `waiting` job has no asset;
  3. while the worker is before the encode (`PreEncode`: the cancel check,
     the start, keyframes, encoding, spawn and poll), `wjob` has no asset;
  4. at the final cancel check and at completion, the process of `wjob` has
     exited with code 0.
  The lemma `AssetStep` has one case per step; `ProcExit` is the only one
  that changes a process and keeps the exit code of an `exited_ok` one.
* `Scheduled`: `ASSUME ~DiskCanFail PROVE Spec => []WaitingIsScheduled`, by
  `TypeInv /\ WaitingIsScheduled` (lemma `SchedStep`). The hypothesis is the
  one of the `jobs_live` run and it is needed: `diskfull_drops_job` shows the
  waiting job left off the queue when the disk check fails.

The assumptions are `MaxJobs \in Nat \ {0}`, `MaxHalts \in Nat` and
`DiskCanFail \in BOOLEAN`.

### `Keyframes_proofs`

* `KeyframesCorrect`: `Spec => []KeyframesFollowReferences`, for every
  `MaxDuration` and `MaxRefs`.
* `KeyframesTypeCorrect`: `Spec => []TypeOK`.

Both rest on the loop invariant `LoopInv`. It says four things:

* `frames` holds exactly `idx` entries.
* Entry `i` is the reference that `SourceIndex(i-1, ...)` picks.
* `idx` never passes the count.
* `done` implies that `idx` equals the count.

The lemmas used are:

* `CountIsClamp`: the code's `max(2, min(24, d))` is the spec's clamp.
* `SourceInRange`: the copied index is a real reference.
* `NextIndex`: an arithmetic step, kept apart so that SMT sees it in a small
  context.

`FramesComplete` turns `LoopInv` at `idx = count` into the equality with
`SpecKeyframes`, by `SeqEqual`; `LoopDone` applies it at `done`.

* `ImplementsSpec`: `Spec => ImplementsPreparation`, the refinement of the
  loop to `KeyframePreparation`, for every `MaxDuration` and `MaxRefs`. Its
  invariant `RefInv` adds to `LoopInv` that every reference copied so far
  (`0..idx-1`) is present (`CopiedPresent`); `RefStep` keeps it, since a copy
  is guarded by the file's existence. `MapStep` maps each step:
  * a copy changes no abstract variable;
  * `MissingSource` at index `idx` is `Fail`, with witness `idx + 1`
    (`RuleIsSpec` says the abstract count is the clamp, which is
    `KeyframeCount`);
  * `Return` at `idx = count` is `Prepare`: `CopiedPresent` at the full count
    is `~NeedsMissing`, and `FramesComplete` gives `frames = Rule`.

### `ReferenceLists_proofs`

What `Without` returns, for every list and every value:

* `WithoutProperties`: for `s \in Seq(S)`, `Without(s, x)` is in `Seq(S)`.
  Its values are among those of `s`, without `x`. It is injective when `s` is.
  `WithoutEmpty`: the empty list stays empty.
* The provers read a recursive function as a `CHOOSE`. `FilterFcnDef` shows
  that the chosen function exists. `PartialExists` builds, for every `k`, a
  function on `0..k` that satisfies the equation there.
* The facts about every prefix are proved by `NatSetInduction`. It is
  induction over `Nat`, stated for the set of counterexamples rather than for
  a predicate parameter, which the provers cannot instantiate. It is proved
  from `WFMin` of `WellFoundedInduction`: a non-empty set of counterexamples
  has a least element, and that element contradicts the step hypothesis.
* `FilterInduction` runs that induction over the prefixes: types, values and
  injectivity (`AppendKeepsInjective`: appending a value that is not in the
  list keeps it injective).

### `VideoProfiles_proofs`

* `ConsentKept`: `ProfileSpec => []ConsentHeld`, under the hypothesis
  `Configs = {TRUE}` (the service is always started with consent required).
  * The hypothesis is needed. With both configurations allowed, a restart that
    turns consent on breaks the rule for a stored profile. TLC shows this, and
    section 5 explains it.
  * The inductive invariant `ConsentInv` adds the types of `mode`, `consent` and
    `requireConsent`.
  * The lemma `ConsentStep` has one case per handler. `create_profile` checks
    the new values. `update_profile` checks the effective post-patch values
    (`em`, `ec`). Every other step leaves mode and consent alone.
* `ProfileTypeCorrect`: `ProfileSpec => []ProfileTypeOK`. `ReferencesKept`:
  `ProfileSpec => []ReferencesResolve`, for every set of profile ids and
  images.
  * Neither property is inductive alone. The type of a list after an image
    deletion needs the list's type. Its references need the types for the
    lemmas on `Without`. The inductive invariant `RefsInv` is their
    conjunction.
  * `RefsStep` has one case per handler. `SetReferences` stores
    `CleanNames(L)` only after checking that its values are existing images
    and distinct (`WithoutProperties`, `ListOverValues`). `DeleteProfile`
    empties the list. `ImageDeleted` filters every list: the result is still
    a list of distinct existing images, and a deleted profile's empty list
    stays empty (`WithoutEmpty`).

### `VideoSystem_proofs`

* `SInv` (a lemma, no theorem): every existing job row names an existing
  profile (`NoJobOfDeletedProfile`), with the types of `status` and
  `jobProfile`. `RowUpdateKept` says that an UPDATE that misses a deleted row
  creates no row, and `JobStepKept` applies it to each of the 19 job steps.
  The cascade of `SysDeleteProfile` removes the rows of the deleted profile.
  The other profile handlers never remove a profile (`HandlerKeepsProfiles`).
* `EncodeConsented`: `SysSpec => []EncodeOnlyConsented`, for both consent
  configurations. The property is not inductive: the worker checks consent at
  `SysWorkerCheck` and writes `running` later. The invariant `EInv` adds
  `WorkerConsented`: while the worker is inside its try block, the profile of
  `wjob` (if the row still exists) passes the rule. This holds because
  `update_profile` re-validates the effective mode and consent
  (`HandlerKeepsConsent`), `delete_profile` removes the row, and a restart,
  the only step that changes the rule in force, also moves the worker out of
  the try block. Steps of the job module that do not enter the try block
  keep it (`RowUpdatePassive`, `JobStepActive`).
* `SysTypeCorrect`: `SysSpec => []SysTypeOK`, for every number of jobs and
  every set of profiles.
  * No run checks `SysTypeOK`: it is the conjunction of the components'
    type invariants, which their runs check.
  * The inductive invariant `TInv` adds `WInv` (the job ids the queue, the
    handler and the worker hold are in range). A job id written by create_job
    or by completion must be in range.
  * A theorem of a component module cannot be cited through `INSTANCE`.
    `JobStepType` and `HandlerProfileType` therefore restate the components'
    type steps for the composition. `SysWithout` identifies the profile
    service's `Without` with that of `ReferenceLists`.
  * `TStep` also covers the steps that join the two services: the profile id
    written by `create_job` and by completion, and the cascade of
    `delete_profile` onto jobs and assets.

### Only model-checked

* `EveryJobTerminates` (liveness): TLAPS handles neither fairness nor ENABLED.
* `WaitingIsScheduled` when the disk check can fail: it is false then
  (`diskfull_drops_job`); the theorem covers `~DiskCanFail`.
* The properties that only a violation run states (sections 3 and 4).

## 8. Not modelled, and why

* The asset service (`list_assets`, `get_asset`, `get_asset_path`) only reads
  rows and files. Asset rows are written only by the worker's completion
  transaction and by the cascade of `delete_profile`, and `VideoSystem` models
  both. Path containment of `get_asset_path` is string handling.
* The refinement of `VideoJobs` to an abstract one-job lifecycle is not done
  (the keyframe loop's is, section 4).
  Findings 1 and 2 mean that the detailed spec does not implement the obvious
  abstract one (section 2).
* Progress values, `updated_at`/`created_at` timestamps, names and generation
  locks are data no property tells apart.
* Left out as formatting or I/O with no state to check:
  * the HTTP error-to-status mapping;
  * JSON (de)serialisation;
  * the ffmpeg command string;
  * binary lookup on PATH/WinGet.
* The locale-translation scripts are unrelated to the service.
