# Verification of the unlearning-challenge platform

TLA+ models of the platform of this repository, in which a team trains models in a
sandbox container, freezes a checkpoint as a submission, and has it graded by an
external service. Paths below are relative to the repository's root (`src/`).

## 1. Inventory

| component | state it keeps | operations | interacts with |
|---|---|---|---|
| **Snapshot store** `student_docker/app/services/submissions.py` | the pair `<id>.pt` / `<id>.snapshot.json` of every id, temporary names, lock files, `_CREATE_LOCK` | `create_snapshot`, `get_snapshot` | the participant's checkpoint file; called by the submission client |
| **Submission client** `student_docker/app/services/local_submission.py`, `app/api/routes.py`, `app/core/config.py` | `_SUBMISSION_LOCK`; the fresh UUID of a call | `submit_selected_checkpoint`, `_upload`, `get_remote_submission`, the HTTP endpoints | store, central grader (external), web page |
| **Web page** `student_docker/public/index.html` | the visible panels, running pollers, the button | submit, validate, poll every 3 s up to 600 times | HTTP endpoints |
| **Conversion and validation** `app/services/checkpoint_conversion.py`, `app/services/validation.py`, `grading_docker/convert_checkpoint.py` | `<SUBMISSIONS_DIR>/<id>.safetensors`, staged temporary files, a converter subprocess | `convert_checkpoint`, `validate_model` | routes, the converter process |
| **Dataset installer** `student_docker/install_released_data.sh`, `copy_released_data.sh`, `docker-compose.yml` | five split directories, the ready marker, the staging directory | install, `VERIFY_ONLY`, `VERIFY_READY`, copy | object storage (external), the sandbox container |
| **Container entry point** `student_docker/entrypoint.sh`, `supervisord.conf` | persistent home, seed marker, ssh keys, released data links | start-up sequence | installer's output, the services |
| **Workspace cloner** `ops/setup-cloned-student-workspace.sh` | six targets in a home directory | one pass | - |
| **Experiment queue** `student_docker/tools/run_exp.py`, `gpu_hold.py` | the flock, `save_path` of each configuration, `EXPERIMENTS.md` | train and score a configuration under the lock | the GPU, the suites |
| **Suite runners** `student_docker/tools/S03_run.py`, `S04_run.py`, `S05_run.py`, `S05.py` | a state file, hashes of tracked sources, a section of `S_EXPERIMENTS.md`, S05's candidates | stages of experiments and scorings, the search | the queue's lock, the GPU, each other |
| **Unlearning algorithms** `student_docker/unlearn_remap.py`, `S01.py` ... `S12.py`, `S0?_reference.py`, `utils/data.py` | loaders and generators, trainable groups, schedules, gradients, averages, checkpoints, reports | set-up, update, save | runners, scorers |
| **Other training scripts** `unlearn.py`, `train_ft.py`, `imagenet_vit.py`, `S13.py`, `S14.py` | tensors | one pass | - |
| **Scorers and search tools** `grading_docker/score_unlearning.py`, `student_docker/score_model.py`, `tools/*soup*.py`, ... | a report file | metrics, averages | checkpoints |

### What is hard, component by component

* **Snapshot store.** Concurrent creators (threads of one process under
  `_CREATE_LOCK`, processes under a flock per id), unlocked readers, a source file that
  changes during the copy, every system call may raise, the process may be killed
  (supervisord restarts it) and the machine may lose power between any two calls. It is
  correct when the marker stands only for exactly its artifact; a stable pair never
  changes; a created snapshot is durable; no temporary is stolen; calls end.
* **Submission client.** Attempts are limited centrally and the id is fresh per call, so a
  time-out after the server accepted, a retry by the user and a crash between freezing
  and uploading each matter. Correct when one call is in progress at a time, the server's
  answer is believed only for the id it names, and a definite answer is never reported as
  uncertain or the reverse.
* **Web page.** Every submission starts a poller that nothing cancels; they share a panel.
* **Conversion.** A subprocess with a time limit that may outlive it in part, a source that
  is edited while it is read, an output that is written while it is copied, a target that
  appears meanwhile.
* **Installer and copy.** Five renames and a marker; kills and power losses between
  them, changed release pins, a metadata-only verification, a copy in the order of compose.
* **Queue and suites.** One GPU, several processes, locks that die with their owner, children
  that do not, sources that are edited during a wait, two launches of one suite.
* **Training.** A dozen programs that differ in the order of the same steps: what is pulled,
  averaged, folded, saved and counted in one iteration, and when a schedule starts and ends.

## 2. The modules

| module | models | composes with |
|---|---|---|
| `DurableMap` | what the store promises: a write-once map from ids to contents with a stable part | - |
| `SnapshotStore`, `SnapshotStoreProofs` | `submissions.py`, one step per system call | implements `DurableMap` |
| `SubmissionClient`, `SubmissionClientProofs` | `local_submission.py` and the routes, with network and grader | takes the store by `DurableMap`'s contract: one step that freezes or fails |
| `Installer`, `InstallerProofs` | `install_released_data.sh` | - |
| `DataCopy`, `DataCopyProofs` | `copy_released_data.sh`, the compose services, `--verify-ready` at sandbox start | extends `Installer` |
| `ResultPage`, `ResultPageProofs` | the submit form of `index.html` and its polling loops | the API is external to it |
| `Conversion`, `ConversionProofs` | `checkpoint_conversion.py` and its subprocess | - |
| `GpuQueue` | `run_exp.py`, `gpu_hold.py` | - |
| `SoupSearch` | the pure part of `S05.py` and the shortlist of `S05_run.py` | - |
| `Suites`, `SuitesProofs` | `S03_run.py`, `S04_run.py`, `S05_run.py` | extends `GpuQueue` and `SoupSearch` |
| `Training`, `TrainingProofs` | `unlearn_remap.py`, S01 to S04, S06, S08, S09, S11, S12, their reference loops, `get_loaders` | - |
| `MC*` | values of the constants for TLC | one per component |

### SnapshotStore

| variable | code |
|---|---|
| `file`, `path`, `before`, `same` | the inodes the checkpoint path may name, their content; `opened_before` and whether `opened_after` equals it |
| `art`, `meta`, `tmp` | the entries of the submissions directory: `<id>.pt`, `<id>.snapshot.json`, hidden temporary names |
| `disk` | what of them a power loss cannot take (`os.fsync` of the file, `_fsync_directory`) |
| `procLock`, `idLock` | `_CREATE_LOCK` of each process (line 368) and the flock on `.locks/<id>.lock` |
| `pc`, `sub`, `buf`, `flushed`, `metaFlushed`, `published` | the position and the locals of each `create_snapshot` |
| `rd` | a `get_snapshot` in progress: it looks four times and takes no lock |
| `acked` | history: what `create_snapshot` returned, and from which branch |

A thread goes through lock, sweep of stale temporaries, look for the marker,
open, copy block by block, re-check by `fstat`/`stat`, marker file, link of the artifact,
fsync, link of the marker, fsync. Each call may raise instead; the handlers
(lines 452-466) then run as the code orders them. `Edit`, `Crash` and `PowerLoss` are the
participant, the killed process and the machine.

### SubmissionClient

`Enter` is the non-blocking acquire of `_SUBMISSION_LOCK` (busy gives 409), `Select`,
`FreezeModel`/`FreezeFails`, `Send`, then `Answered` or `GiveUp` (time-out, broken
connection), `Release` (the `finally`) and `Respond` (the mapping of
exceptions to HTTP answers in `routes.py`). `ServerAccepts`, `ServerRefuses` and
`ProxyAnswers` are external; an upload stays in `wire` after its client has gone, and may be
accepted then. What comes back is one of six kinds of `reply`: `_upload` compares four keys of a
2xx body (lines 113-122), so an acknowledgement that lacks the status or the remaining attempts
(`bare`) passes it, and `SubmitResponse.model_validate` then raises outside the handler's `try`
(`routes.py:91`): `Validated` turns the acceptance into a 500 that names no id. A proxy may change an
answer into anything but a definite refusal, which is a refusing status or a 2xx body about
something else: those come from the server before it accepts. `query` is
`GET /submissions/<id>`. `frozen` is the snapshot store, `known` the grader, `told` the ids a
client learned.

### Installer and DataCopy

A path's content is the release it comes from, `Torn` or `Missing`. One run is `Start`; the
branch at lines 674-684 (`AlreadyInstalled`, `Unverifiable`, `Reinstall`); `Download`,
`Inspect`, `Extract`, `ValidateStaging`; `Remove` and `Move` path by path (lines 771-791);
`WriteMarker`, `Publish`, `Sync` (lines 584-605); `Complete`. `Crash` stands for a kill and
for any command that fails under `set -e`. `DataCopy` adds `CopyBegin`/`CopySkip`, `CopyPart`
(`cp -a` part by part), `CopyMove`, `CopySync`, `CopyBreaks`, the compose pass in the order of
`depends_on`, and the sandbox that starts, is refused, stops and restarts.

### ResultPage

A step is what runs between two awaits. `Submit` disables the button; `SubmitSucceeds` shows
the panel and starts a loop, `SubmitFails` shows the error; a loop alternates `Ask` (after its
3 s) and `Shown`/`Skipped`. An answer is skipped when it is not ok or not JSON; any other body is
shown, without a status as "queued" (`data.status || 'queued'`, lines 646 and 655: `Displayed`), with an
unknown one as it is. `known` (history) says whether the status on the panel came from a body, `seen`
which was the furthest of those per id.

### Conversion

A call opens the source, starts the converter in a group of its own, waits with a limit
(TERM, grace, KILL), re-checks the signatures, measures and copies the output in two halves,
compares, links without replacing, and cleans up. `communicate()` returns when the leader has
exited and nobody holds its pipes, which is not when its group is empty: `helpers` are the calls
with processes left in the group, `piped` those with processes, in the group or out of it, that keep
stdout or stderr open, and `strays` (history) those with a process that has written into the output
after the leader. The group is signalled at the time limit only (lines 173-174), so a helper that let
go of the pipes outlives a call that ends in time. The converter may also hang, ignore TERM, or exit
with 0 and an output of no size (`Measure`, lines 198-199).

### GpuQueue and Suites

`run_exp.main` takes its configurations in order. `lock` is the flock, `children` the
processes that train and score, `ckpt` who wrote each `save_path`, `log` the table of
`EXPERIMENTS.md` with the `exists()` test (line 78) apart from the truncating write and
from the append. A killed runner drops the lock, its child goes on as an orphan.

A suite is a runner with a program of its own. `at` is its place: `start`, `checked` (no file
of an earlier run was found), then per job `next` (announced in the state file) and either
`exp` (it is inside `run_exp.run`, whose steps are `GpuQueue`'s) or `waiting`, `locked`, `running`
(`gpu_command`), `ended` (the lock is given back, the result not yet taken up: `Recorded` appends the
row outside it), and at its end `appended` or `completed`. `state` and `sections` are its files.
`source` is the version of what S04 and S05 track, `hashed` what a suite hashed at its launch,
`used` (history) the versions its experiments were made from: a process loads its code
in `Load`, after the lock, the wait and the last verification. S05's search is the
pure part in `SoupSearch`: `Refinement`, `RankScreen`, `SelectBest`, `Finalists` over weights in
multiples of 1/`Unit`; `land` gives the metrics of every mixture, for the fast evaluation and for
the full scorer, chosen at the start. `Change` alters the file of a candidate after its evaluation,
and `misread` (history) says whether the full scorer then read it.

### Training

`cfg` is what a program reads of its YAML file. `mem` is the memory of the process: the loaders
(transform, generator, permutation), the trainable groups, `weights` and averages (each group
known by the updates and pulls it has had), the learning rate as a fraction of the way to
its final value, the gradients of the last update, the triggered tail's buffers. A configuration is a record with a field for each key that the control depends on
(`trainHead` is `selection.train_head`, `ckaLoss` a nonzero `lambda_cka_f`, `norm` the square of
`min_retain_norm`, `beta` and `off` S11's `ema_beta`, in units of 1/`EmaUnit`, and
`off_ratio_threshold`, in percent). A program is a
chain of building blocks, each a translation of the stretch of code it is mapped to
(`RemapSetup`, `S11Setup`, ... `RemapUpdate`, `S09Update`, ...): the same blocks in another
order are another program. `files` are the outputs: for every name which versions each
group of the saved state dictionary mixes (`of`), the launch that wrote it, and whether it is finite.
`Launch`, `Prepare`, `Update`, `Save`, `Conclude` are a process from start to end; `SaveFails` and
`Kill` may leave a torn file, and the next launch finds what the last one left.

## 3. What each run checks

Sizes are distinct states; every run ends within about a minute.

| run | instance | shows |
|---|---|---|
| `store_calls` (29k) | 3 threads of 2 processes, 1 reader, 1 id, 3 calls, 1 failing call, 1 kill; the file is not edited | `PairSound`, `LiveTempsIntact`, `ReaderSeesNoCorruption`; under fairness `CallsEnd` |
| `store_power` (969k) | 2 threads of 2 processes, 2 inodes of 2 blocks, 2 edits, 1 failing call, 1 kill, 1 power loss | `CreatedIsDurable`, `StablePairImmutable`, `FrozenIsCurrent`, and that the store implements `DurableMap` (`ImplementsMap`) |
| `store_retry_not_durable` | 1 thread, 2 calls, 1 kill, 1 power loss | **violation** of `AckedIsDurable`, see 6 |
| `client_submit` (492k, symmetry) | 2 submissions, 1 status request, 2 ids, 2 attempts, 1 edit, 1 failing call, 1 kill | `OneUploadAtATime`, `AcceptedIsGraded`, `GradedIsFrozen`, `DefiniteIsFinal`, `NoSilentAttempt` |
| `data_pipeline` (225k) | 3 releases, one broken, upgrades, 2 faults, 1 killed copy, 2 edits | installer, copy and sandbox: `ReadyIsWhole`, `CrashIsRebuilt`, `TargetIsWhole`, `AcceptsItsRelease`; under fairness `Rebuilds`, `SandboxServes` |
| `install_power` (952k) | 1 fault and 1 power loss in either order | `CompletionIsDurable` |
| `install_rollback` | pins may also go back | **violation** of `CrashIsRebuilt`, see 6 |
| `page_results` (97k) | 2 submissions, 2 polls each, 1 mishap | `ShownStatusStands`; under fairness `ButtonComesBack`, `EveryLoopEnds` |
| `convert_publish` (672k) | 2 calls, 1 edit, 1 fault | `PublishedIsWhole`, `PublishedIsFinal`, `GroupIsGone`; under fairness `CallsEnd` |
| `suites` (158k) | two runners on one configuration; S03 or S04 with a runner; two launches of S04; S05 alone, 9 points, 2 refinements, 5 landscapes; 1 kill, 1 failure, 1 foreign job, 1 edit | `OneExperimentAtATime`, `ScoresItsOwn`, `StateFileTellsTruth`, `CompletedIsOfItsSources`, `SearchLosesNothing`, `OnlyFaultsFail`; under fairness `EveryoneEnds` |
| `training` (42k) | 10 programs in about 100 configurations, 4 updates, 3 and 2 batches per epoch, 4 pairs of gradients, 3 CKA values, 2 launches | `CheckpointIsItsStep`, `ForgetNeverOpposesRetain`, `TailReachesFinal`, `LearningRateFalls`, `ReportTellsTruth` |
| `training_fos11` | one FOS-11 configuration with periodic checkpoints | **violation** of `FosCandidatesAreTrained`, see 6 |

**Why these bounds.** Every hazard needs at most two actors at one id, destination or GPU and
one or two faults between their steps; a third thread is there where a lock is nested
(two of one process and one of another). Two blocks are the least for a copy that mixes two
versions, two inodes the least for a rename over the source. Two polls exercise the first,
a middle and the last round of a loop of 600. Three releases tell "old", "new" and "does not
validate" apart. S05's nine points, steps (1/20 and 1/40 of a weight, with 2 and 1 centers), threshold and budget of 27
are those of `configs/S05.yaml`, not reduced; the landscapes are linear in the weights: RUS against AUS, only
nearly feasible points of more RUS, nothing feasible, all ties, and a fast evaluation that the full
one contradicts. Four updates exceed an epoch of either split (so `cycle` starts again), leave room
for a tail of two that starts late, and put two periodic checkpoints before the last step.
Budgets (`Budget`, `MaxFaults`, `MaxKills`, `MaxLaunches`, ...) bound only what the environment
may do; no step of the code is bounded, except that a checkpoint is at most `MaxLen` blocks
long, one more than `MaxBlocks`, so that the size limit is crossed.

**Fairness.** Weak fairness of a thread, a call, a runner, a suite, a loop or a service: the scheduler
runs a process that can run. Nothing forces a failure, an answer or an edit; a status request
that is never answered would stall `EveryLoopEnds`, but a browser ends it with an error, which
is a `Skipped`. `Conversion` needs no fairness of the converter, since the time limit is
a step of the call. `EveryoneEnds` supposes that processes end (`ProcessStep`) and that outside jobs end
(`OtherEnds`): `wait_for_gpu` really waits for them for ever. S05's `Plan` is a step of its own
(`Planning`, told by the variable `round` that nothing else changes) only so that TLC need not evaluate the
search to decide whether it is enabled. `Rebuilds` and `SandboxServes`
suppose that an operator (or compose's restart policy) starts the pass again. No strong
fairness is assumed anywhere; a blocked `flock` is granted by weak fairness because each
instance has finitely many calls.

## 4. Hazards

`PROJECT.json` lists the hazards line by line with the properties that guard them; those
without a property carry the reason: a coarse file system clock (`submissions.py:74`), a power loss during the private copy, the header race and
the orphan of `run_exp.py`, and the generator that S08's Fisher pass consumes. Several others are covered in part, and
their notes say which part is not: the two bodies that the handlers do not expect (`routes.py:91`: an
acknowledgement without its keys, a status that is no JSON), the sync that a rerun skips
(`install_released_data.sh:601`), the panel of the page.

## 5. What is proved

TLAPS checks the theorems for every value of the constants that satisfies the named
assumptions of the modules (budgets are natural numbers, every thread has a process, the
initial files are sequences of blocks, `None` is none of the values). A type invariant is
part of each proof, and an invariant of the run `store_calls` only. Every safety property of a
passing run, the invariants and the action properties and the refinement, is now stated by a theorem.

A theorem that has a hypothesis on the constants beyond those assumptions says so in its statement:
`CopiesAreExact` (`~ CoarseClock`), `FailuresHaveACause` (`BudgetSuffices`), and those of the installer
and the private copy that exclude power losses or rollbacks. Two modules have assumptions that need a word:

* `Training`'s `ConfigsAssumption` says that a switch that a program does not read is off in its
  configuration (`l2sp` is read by remap, S09, S11 and S12, `ema` by no driver and not by S01,
  `fos` by remap, `freeze` not by S03 and S04, `select` by S02). A YAML file may hold the key all the
  same; the program then behaves as without it, and it is without it that the properties speak of it.
* `SoupSearch` assumes that the initial points are distinct, that a refinement is a step and a number of
  centers, and that the margin does not exceed the threshold. That the search
  never exceeds its budget is *not* assumed: `BudgetSuffices` (nine initial points, six around each
  of two centers, six around one: 9 + 12 + 6 = 27, the number that `S05_run.py:76` pins) is a
  hypothesis of the one theorem that needs it, and `MCSuites` has TLC evaluate it for `configs/S05.yaml`. With a smaller
  budget the suite does fail by its own check (`S05_run.py:113-115`), without any fault.

**SnapshotStoreProofs.** No property above is inductive. `IInv` adds to the types

* `LockInv`: a thread between lock and release holds the flock of its id;
* `PairInv`: what each directory entry holds, what of it is flushed, and that a marker on
  stable storage has its artifact there; this is what makes the *order* link, fsync, link, fsync
  a matter of the invariant, since a power loss may keep the marker only if the artifact
  is already on disk;
* `ThreadInv`: what a thread's locals know about the entries it has made so far;
* `AckInv`: what was returned from the creating branch is on disk;
* `ReaderInv`: a reader past its first look has seen a marker that will not go away.

`Inductive` is split into a thread's steps and the environment's, by conjunct (`StepTypes`,
`LockStep`, `FilesStep`, `ReadersStep`, and `...Environment`). From it follow `TypeCorrect`,
`MarkersAreSound` (`PairSound`), `CreationIsDurable`, `ReadersAreSafe`, `StablePairsStay`
(an action property) and `Refinement` (`Spec => ImplementsMap`: every step of the store is
a `DurableMap` step or leaves the map alone).

Two more invariants stand on `IInv` and are not part of it. `LiveTempsIntact` is inductive as it
is stated, given `LockInv`: the steps that remove temporary names do so under the id's lock, and a kill gives
the names of dead threads only to nobody (`TempsAreTheirOwners`). `CopyInv` says of every copy in progress that as long as
the file it has open still has the stamp that `lstat` saw, its length is the one seen and the buffer is a beginning of it.
An edit breaks the premise for good, because stamps only grow; so the re-check, which finds
the stamp unchanged and the length complete, has the exact content (`CopiesAreExact`: `FrozenIsCurrent`, for files
of any length and any number of edits). It needs a clock that ticks between two changes of a
file: with `CoarseClock` the property is false, which is the hazard at `submissions.py:74`. It needs neither
the comparison of `opened_after` (`same`), which the second signature of the path implies, nor
the locks.

**SubmissionClientProofs.** `IInv` has the types, the lock's exclusion, `IdInv` (no two requests
share an id, and an id nobody drew is nowhere), `RequestInv` (what each label says about the
reply, the wire and the server: both kinds of acknowledgement mean that the id is taken), `WireInv` (an
upload on the wire carries its snapshot), `GradedIsFrozen`. There is one lemma per action. From it: `ClientTypes`, `MutualExclusion`,
`AcceptanceIsReal`, `GradesTheSnapshot`, `DefiniteVerdicts`, `AttemptsAreTold`. The last one exempts two cases by name, and
no other: a killed process, and the 500 of `routes.py:91`.

**InstallerProofs.** `PhaseInv` says what a run has made by each phase (the archive is the pinned one, the
staging whole, the first `at` paths moved, ...), `DoneInv` that what a completed run installed is
synced and untouched until the next removal; together they are inductive also under power
losses, since these only touch unsynced paths: `CompletionsLast`. `MarkerInv` adds that the
manifest is the first path to go and comes back with the marker's pins only with everything
else; it needs `MaxPower = 0` (a torn image under an intact marker is what `--verify-ready` accepts):
`ReadinessIsWhole`. `UpgradeInv` adds that a marker over other data is *older* than the pins, for
which the redeployments must be a strict order (`OnlyUpgrades`): `CrashesAreRebuilt`. The run
`install_rollback` shows that without this assumption it is false.

**DataCopyProofs** takes the installer's step lemmas and adds `PassInv` (a copy runs only over a root that
is the pinned release, `InitCompletes`), `StageInv` and `TargetInv`: `TargetsAreWhole`,
`SandboxesAcceptTheirRelease`, for the composition.

**ResultPageProofs.** `LoopOK` orders what was shown, the answer on its way and the server's status;
`ReplyInv` says that nothing is shown of a submission whose POST has not returned, and ties what is on the panel to the
furthest status shown: `PanelsGoForward`, which says that the panel goes back behind a status it showed only on a body
without one of the page's, and never behind a final one, since its loop has ended.

**ConversionProofs.** `SourceOK` (an opened inode only gets newer), `GroupOK` (the life of the converter and of its group against
the label and the result of its call), `OutputOK` (a mixture of generations means that the source is newer
than what was opened, so the check after the wait sees it), `CopyOK` (likewise for the output,
whose signature counts its writes), `DestInv`. From it: `PublicationsAreWhole`, `PublicationsAreFinal`,
`GroupsEnd`, which says of every call that its converter has ended with it, and of one that
ended at its time limit that the whole group has.

**SuitesProofs.** `LockInv` (whoever is between acquiring and releasing has the lock), `WorkInv` (a suite in `run()` is
at a configuration of its own), `ChildInv` (while nothing is killed a process belongs to the lock's
holder), `CkptInv` (the checkpoint under a holder that has trained is its own), `FileInv`. From it:
`QueueIsSerial`, `RowsAreTheirOwn`, `StateFilesTellTheTruth`, the last one for any number of kills.

Three more inductive invariants carry the rest, each over the ones before it:

* `SourceInv`: the jobs a suite still has are those of its phase, S04's last one is the full score
  (`TodoOK`); S05's rows are finitely many, distinct and numbered (`RowsOK`); the versions used lie between the one
  hashed and the one there, and are the hashed one as soon as the full scorer has been let in (`UsedOK`, where the
  last verification counts); at most one suite searches, even after a kill, because the state file is
  created exclusively (`OneSearch`). From it `CompletedFromItsSources`.
* `FaultInv`: what is planned is new, once each, and fits in the budget of its round (`PlanOK`), so that the two
  checks of `S05_run.py` never fire; without tampering every suite sees what it hashed. From it,
  given `BudgetSuffices`, `FailuresHaveACause`. The lemmas bound what `Refinement` adds by six points
  a center and count sets, not sequences.
* `FoundInv`: a row has the metrics of the fast evaluation at its weights, and after the last plan the best
  row is on the shortlist. The lemmas say that `Before` orders the rows totally, that `RankScreen` returns the first
  n of them in that order, and that leaving out rows other than the best does not change the best. From it
  `TheBestIsFound`, for every landscape, margin, threshold and length of the shortlist.

**TrainingProofs.** Each building block either `Keeps` step, gradients and rates or is one of the three that
do not; a program is a chain of blocks (`KeepsThrough`), so the ten programs share their lemmas.
`MemoryInv` says what an update leaves in `grad`, `RateInv` where a rate is after n steps. From it:
`ProjectionIsSafe` (integer gradients of dimension two, any values), `TailsEnd`, `RatesFall`.

`CheckpointIsItsStep` compares a file with a closed form (`Declared`, `Window`: which updates and pulls
the weights behind that name have had), so its proof is about whole trajectories: `TrajectoryInv` says that between
two iterations the weights are those of exactly `step` updates and of the pulls a program makes,
that the EMA mixes the versions 0 to `step` and S03's averages those of its window so far. `TrajectoryStarts`
proves it for each set-up, `TrajectoryGoesOn` for each update: a chain of blocks that
`Moved` follows version by version, ended by `Further`, which takes the new weights into the averages. `FilesInv` then says
that what is written under a name is what `TrajectoryInv` says of the memory at that moment: `CheckpointsAreTheirSteps`,
for any number of steps, gradients and launches, diverging weights, failed saves and kills.
`DriverInv` adds that a driver runs once, since any launch leaves a report behind that the next one refuses, and
that each output saved so far is whole, finite and of this launch: `ReportsAreTrue`.

**Only model-checked.** All liveness and everything that rests on fairness or `ENABLED` (`CallsEnd` of the store and
of the conversion, `Rebuilds`, `SandboxServes`, `ButtonComesBack`, `EveryLoopEnds`, `EveryoneEnds`): TLAPS has no rule for
them. The three refuted properties of section 6 are counterexamples of TLC. That
requests of `SubmissionClient` end is not run at all (its steps are acyclic; the run would only
spend the states); that its lock comes back is the equivalence in `OneUploadAtATime`.

## 6. Where the code and its words differ

Each of the first three is a run that finds the counterexample.

1. `store_retry_not_durable`: a crash between the marker's link (`submissions.py:454`) and the
   directory fsync (456), a retry that takes the existing-marker branch (391-393) without an
   fsync, then a power loss: an acknowledged "durably" frozen snapshot is gone.
2. `install_rollback`: the moves leave the *old* marker in place, so after a crash among them and a
   return to the old pins every run ends at line 681, against the comment at 769-770.
3. `training_fos11`: with `fos11: true` only the low-rank path B is trained, and it is folded into
   `fc2` after the loop (`unlearn_remap.py:444-445`); the periodic checkpoints, by which one run is to yield
   several candidates (lines 424-425, in Korean), are saved at line 431 and hold the untouched M_o. `configs/fos11a.yaml:33-35` asks for them; `configs/fos11b.yaml:2` knows the effect and
   line 33 turns them off. (With `ema` as well, the averages would overwrite the folded `fc2`; no
   configuration asks for both.)

Met while modelling, without a run of their own:

* `SubmitResponse.model_validate` at `routes.py:91` is outside the `try`: an acknowledgement without `status` or
  `remaining_attempts` (`schemas.py:24,31`) is an attempt spent and a 500 without the id. `AcceptedIsGraded` says what
  that 500 hides, `NoSilentAttempt` exempts it.
* The page shows a body without a status as "queued", also after "running" (`index.html:646,655`);
  `ShownStatusStands` allows that and nothing else.
* A conversion that ends in time signals nobody: children of the converter that closed stdout and stderr go
  on (`checkpoint_conversion.py:173-174`). `GroupIsGone` claims the group for calls that timed out.
* `response.json()` at `local_submission.py:176` is outside the `try`; a 200 that is not JSON becomes
  a 404 for an id the server has taken.
* flock does not outlive a killed runner, `subprocess.run`'s child does (`run_exp.py:53`): two experiments
  at once. `OneExperimentAtATime` and `ScoresItsOwn` are stated for behaviours without a kill.
* `run_exp.py:78-81` tests and creates `EXPERIMENTS.md` outside the lock: the second of two first
  runners truncates the first one's row.
* `S03_run.py:108-114` says "completed" before its section is appended, and a failing append turns that
  into "failed". S04 and S05 append first; `StateFileTellsTruth` claims the section for them only.
* S04's and S05's sources are verified before a process starts, and a process imports them after
  that; `CompletedIsOfItsSources` holds because a later stage, or the end of the candidate, verifies again. An edit that is
  taken back in between is seen by neither. What the *full* scorer reads between the last check of a
  candidate and its own load is guarded by the check at the export only.
* S08's Fisher pass draws from the generator `g` that the training loaders share, so the first batches are
  not those of its control, though `configs/S08.yaml:1` calls the run matched.
* `clean`, `aug` and `batch_retain` together: `BatchRetain` builds its loader from the evaluation transform
  again, and the augmentation is silently gone.
* Anchors (L2-SP) are clones of `init_ckpt`, which need not be M_o.
* S11 with `lambda_cka_f = 0` never computes the batch CKA and feeds 0 to the trigger (`S11.py:341`): a triggered tail
  begins as soon as its window is full and its first step allows.
* An init killed between the marker's rename and `sync -f` (601-604) is followed by one that takes
  the already-installed path, exits 0 and syncs nothing: the same pattern as 1.
  `CompletionIsDurable` is stated for runs that install.
* `submissions.py:458` says that a normal exception is cleaned eagerly. If the unlink in
  `_publish_no_replace` raises after the link, `artifact_published` is still false and the lone
  artifact stays until the next create of the id sweeps it.
* The private copy under `/workspace/datasets` is writable, while the installer justifies its
  metadata-only check by files that are not (621-623); hence `Edited` images in `AcceptsItsRelease`.
* After 600 polls the page stops and goes on saying that it checks (`index.html:655-656`).

## 7. Not modelled, and why

* `entrypoint.sh` beyond `--verify-ready`, `setup-cloned-student-workspace.sh`: sequences of guarded
  shell commands of one process; planned.
* Losses, the FOS-11 basis, Fisher values, metrics and networks: real-valued tensors, out of TLC's reach.
  `Training` keeps the order in which they are computed and used. S02's probe-only mode (a report of
  gradient norms, no training) is left out.
* `S13.py`, `S14.py`, `unlearn.py`, `train_ft.py`, `imagenet_vit.py`: merges of two files, a template, the making of M_o.
* The scorers, `validation.py`, `main.py`, packaging tools and the soup and search tools: one pass, no
  state that outlives it; the greedy soup is S05's search without budget or refinement.
* In `Suites`: the comparison arithmetic and Markdown of the reports, the second of two files that
  are created exclusively together, and a failure of `update('failed')` itself.
* The grading server, the proxies, docker compose, the file system, the GPU driver and the browser are
  external and modelled as freely as the code's own checks allow.

## 8. Plan

Built: the modules of section 2. Left, in order:

1. Entry point (seed and links under crashes) and workspace cloner (six moves, rerun after a crash).
2. Page and client in one model, so that the page's external API is the client's.
3. Power losses in `DataCopy`: what a torn target with an intact marker leads to.
4. Proofs: `SubmissionClient` over the store itself instead of its contract; what a rollback or a power loss leaves
   of the installer's guarantees, as theorems with weaker conclusions instead of stronger hypotheses; what
   `CopiesAreExact` keeps on a coarse clock (the copy has the length that the file had).
