# OpenVocab-ORB-SLAM2: specification and proofs

TLA+ modules for the concurrent core of this repository (ORB-SLAM2 with an
open-vocabulary semantic layer), TLC configurations that check them, and
theorems that TLAPS proves about them. Paths below are relative to the
repository.

## 1. Inventory of the system

### Threads and components of the C++ core

| part | code | state it keeps | operations |
|---|---|---|---|
| System | `src/System.cc` | `mbReset`, two mode flags, three mutexes | `TrackRGBD/Stereo/Monocular`, `Activate/DeactivateLocalizationMode`, `Reset`, `Shutdown` |
| Tracking (on the caller's thread) | `src/Tracking.cc` | `mState`, `mbOnlyTracking`, `mpReferenceKF`, last frame | `Track`, `StereoInitialization`, `NeedNewKeyFrame`, `CreateNewKeyFrame`, `Reset` |
| Local mapping (thread) | `src/LocalMapping.cc` | queue of keyframes, stop/finish/reset/accept/abort flags, five mutexes | `Run`, `InsertKeyFrame`, `RequestStop`, `Stop`, `Release`, `SetNotStop`, `RequestReset`, `RequestFinish` |
| Loop closing (thread) | `src/LoopClosing.cc` | queue, reset/finish flags, flags of the global bundle adjustment (GBA) | `Run`, `DetectLoop`, `CorrectLoop` |
| GBA (a thread per closed loop) | `LoopClosing::RunGlobalBundleAdjustment` | a copy of the index at its start | optimise, stop the mapper, write the map, release |
| Map, KeyFrame, MapPoint, KeyFrameDatabase | `src/Map.cc`, `src/KeyFrame.cc`, `src/MapPoint.cc`, `src/KeyFrameDatabase.cc` | the map and its graphs, `mMutexMapUpdate` | insertion, erasure, covisibility, spanning tree, inverted index |
| Viewer (thread) | `src/Viewer.cc`; stub in `src/headless/` | stop and finish flags | `Run`, `RequestStop`, `Stop`, `Release`, `RequestFinish` |
| numerical code | `src/Optimizer.cc`, `src/ORBextractor.cc`, `src/ORBmatcher.cc`, `src/PnPsolver.cc`, `src/Sim3Solver.cc`, `src/Initializer.cc`, `src/Frame.cc` | - | pure computations, some of which stop on a flag |

The threads call each other's interface directly and poll: a caller raises a
request flag under a mutex and sleeps until the other thread's answer flag
changes. Three different clients (localization mode, loop correction, GBA) use
the *same* stop/release pair of the mapper.

### The semantic layer

| part | code | hard behaviour |
|---|---|---|
| Online masks | `src/semantic/IpcMaskProvider.cc`, `semantic_py/openvocab_slam/ipc.py`, `tools/run_semantic_service.py`, `Examples/RGB-D/rgbd_tum_online.cc` | lossy, conflating sockets; a ledger of 64 requests; answers that are late, duplicated or broken; degradation to the baseline |
| Online dynamic state | `src/semantic/OnlineDynamicState.cc`, `motion.py`, `association.py` | hysteresis over observations with gaps |
| Semantic cache | `cache.py`, `tools/generate_cache.py` | a crash between the packet, the index and the completion file; resume; exhausted GPU memory |
| Dynamic cache | `dynamic_cache.py`, `tools/generate_dynamic_cache.py` | derived frame by frame from a semantic cache whose own generator may be run meanwhile; resume |
| Map of objects | `map.py`, `query.py`, `tools/build_map.py` | a track that becomes dynamic after its first rows were written; staging and rename; which run is used |
| Runs | `tools/run_orb_tum.py` | the manifest of an attempt and its row in the registry are two writes |
| Study | `experiments.py`, `tools/run_study.py`, `tools/validate_runs.py`, `tools/analyze_study.py` | resume after a kill at any point, failure records written in steps, inputs that change while it runs |
| Cached masks, feature policy | `src/semantic/CacheMaskProvider.cc`, `FeatureMaskPolicy.cc` | none: sequential reader and pure functions |

The tools of the semantic layer are processes that share files and nothing
else: `generate_cache` -> `generate_dynamic_cache` -> `run_orb_tum` /
`run_study` -> `build_map`, `analyze_study`. Every one of them replaces a file
by writing a temporary one and renaming it, may be killed between two renames,
and is started again by hand.

### What makes each part correct, and what is hard

- *Mapper*: it is parked when it says so; a stop request aborts its bundle
  adjustment; each keyframe is processed once; whoever waits for it gets an
  answer. Hard: callers that share one flag, two mutexes taken in opposite
  orders, flags lowered without a lock.
- *Loop correction and GBA*: the mapper is parked from the wait to the release;
  an aborted GBA is discarded. Hard: who released whom; the generation counter.
- *System*: a reset leaves no reference to a destroyed keyframe; shutdown waits
  for the threads; the mode is what was asked for.
- *Viewer*: it draws nothing while the map is destroyed, and nobody waits for it
  for ever.
- *Online masks*: no stale or foreign answer is applied, at most once each; the
  tracker never waits for the service.
- *Caches*: what is sealed is whole and derived from what is there, whatever
  the crash; a resumed tool completes it.
- *Tracks and map*: a track is dynamic only on a run of movements and only as
  long as they are recent; nothing dynamic gets into a map.
- *Runs and study*: what counts ran the registered files, is never lost, and
  counts once.

`PROJECT.json` lists every hazard at its line with the properties that cover it.

## 2. How the specification is divided

| module | extends | models |
|---|---|---|
| `SlamMap`, `LocalMapping`, `LoopClosing`, `SlamSystem` | each the one before | the threads of the C++ core |
| `ViewerHandshake` | - | the viewer thread against the caller's thread |
| `OnlineMasks` | - | runner, provider and service over lossy sockets |
| `SemanticCache`, `DynamicCache` | the second the first | the two caches and the tools that fill them |
| `SealedStore` | - | abstract: what a cache promises its readers |
| `DynamicTracks` | - | the causal tracker of the dynamic cache |
| `RunAttempt` | - | the attempts of a run, their manifests and the registry |
| `StaticMap` | `DynamicTracks`, `RunAttempt` | from tracks and runs to an exported map |
| `Study` | `RunAttempt` | registration, resume and analysis of the study |
| `MC...` | one of the above | constants for TLC, nothing else |
| `..._proofs` | one of the above | theorems and proofs |

Three abstract specifications are implemented by detailed ones: the mapper with
an open environment (`LMSpec`, by `SlamSystem`, checked and proved), and the
sealed store, twice (`CachesAreSealedStores`: the semantic and the dynamic cache
under refinement mappings of their index and completion files; checked and
proved).

## 3. The modules

### SlamMap, LocalMapping

`lm` is the `LocalMapping` object: its members under their own names, the
control point `pc` of its thread, and the owners of `mMutexStop` and
`mMutexFinish`, the two mutexes that are ever held together. A critical section
on one mutex is one step. `Release` takes both, so it is `ReleaseLock`,
`ReleaseFlags`, `ReleaseClear`; `SetFinish` takes them in the other order, so it
is `SetFinished`, `SetStopped`. `Release` reads and clears the queue without
`mMutexNewKFs`: the queue may change between its steps, and a thread that has
seen a keyframe in the queue may find none (`ProcessNothing`: `front()` of an
empty list, undefined in C++; the model lets the build crash).

A keyframe is `[epoch, mnId]`: `KeyFrame::nNextId` restarts at 0 after a reset,
so `mnId` does not identify an object. `map.deleted` is a history of destroyed
objects.

`LMSpec` is the thread with an open environment `LMEnvironment`: threads of
`Callers` that call any operation in any order.

Abstracted: map points, poses, covisibility and culling; the body of
`CreateNewMapPoints` and of local bundle adjustment. Local bundle adjustment
keeps what the threads see of it: it is skipped in a map of at most
`FewKeyFrames` keyframes, returns early when it finds `mbAbortBA` set before it
optimises, and otherwise waits for the map mutex at its end, also when
`mbAbortBA` cuts the optimisation short (`RecoverOptimized`).

### LoopClosing

`lc` is the loop closer, `gba[g]` a GBA thread in slot `g`. Whether a loop is
found is a choice. `CorrectLoop` is one action per line that another thread can
see. `mnFullBAIdx` is declared `bool` (`include/LoopClosing.h:146`), so
`BumpFullBAIdx` yields true whatever it was. `gba[g].aborted` is a history: the
thread was told to stop `"late"`, after it had read its index, or `"early"`,
before; then it reads the new one, and only `mbStopGBA` is there to stop it.

### SlamSystem

The caller's thread `tr` runs `TrackRGBD` (mode check, reset check, `Track`) and
may call `Shutdown`; `ui` is an application thread that uses the mode and reset
calls as `Viewer::Run` does: it leaves localization mode before it asks for a
reset. `mMutexMode` and `mMutexReset` are held while `tr.pc` is in the steps of
`ModeIsFree` and `ResetIsFree`. `tr.mState = "OK"` stands for OK and LOST. The
first keyframe of a map is inserted without `SetNotStop`, as in the code.
Configuration modelled: RGB-D, no viewer object; monocular initialisation and
relocalisation are left out. `Shutdown` reads `isFinished()` of the mapper, that
of the loop closer and `isRunningGBA()` under three mutexes one after the other:
three steps (`MapperHasFinished`, `CloserHasFinished`, `NoGBAIsRunning`), begun
again when an answer is no. `tr.allStarted` is a history.

### ViewerHandshake

The Pangolin viewer's thread `vw` against the caller's thread `main`. What
`Tracking::Reset` does between stopping and releasing the viewer is one step
(`SlamSystem` has the detail).

### OnlineMasks

`runner` is the frame loop of `rgbd_tum_online`, `provider` and `ipc` the
`IpcMaskProvider` and its result for this frame, `dynamic` the time stamps that
`OnlineDynamicState` and `last_applied_packet` keep, `history` the deque of
completed frames, `service` the `LatestFrameService`. Both sockets conflate, so
`requests` and `results` hold one message each; sending replaces it or the
message is lost, and a service that restarts has an empty socket. One poll is
several steps (`SendRequest` .. `Evaluate`), with the service running in
between. `DecodeError` and `LedgerError` are the checks of
`decodeSemanticPacket` and of the drain loop, in their order. A service may
still be at work for an earlier run of the same name (`Leftovers`): this is what
the comparison of time stamps in the ledger is for, and what `NeverThrows` needs.
`sent` and `completed` are histories.

Abstracted: an answer is its frame, its time stamp and one bit for whether its
contents pass every other check (encoding, version, names, digests, sizes);
the tracks inside the dynamic state; the counters of the summary. A depth image
that does not fit makes `updateCompletedFrame` throw: `FailFrame` has that case,
because it is about the input and not about the answers; the throw `online
observation is invalid`, for a centroid that is not finite, is that case too:
answers that pass their checks reach it by overflow only, and it ends the run in
the same way.

### SemanticCache, DynamicCache, SealedStore

The disk of a cache is its manifest, its packets (or score maps), its index and
its completion file, each replaced by one atomic step; the process has a program
counter, the manifest of its job and what it has in memory. A crash keeps the
disk and nothing else. A packet is its resolution and its measured inference
time: the second is what a resumed tool cannot reproduce. A digest is
represented by what it is a digest of, so that comparing two digests is
comparing the values. `OpenWriter` .. `SealCache` are the steps of `CacheWriter`
and of the loop around it; `SetAsideAtFullSize` renames the whole directory when
memory is exhausted.

`DynamicCache` reads those variables frame by frame while `SemanticNext` goes
on. The tracker is represented by the packets it has seen, since everything it
writes is a function of them; validation replays the function.

`SealedStore` knows a log that grows by one and a seal that is set once over the
whole log. An unsealed semantic store may be set aside, the dynamic one never.

One process per tool is modelled: the code does not lock its directories, and
two generators on one cache are outside its use. Diagnostic overlays (written
and checked like score maps), the smoke mode of the generator and the
encoding of masks are left out. Datasets and configuration do not change.

### DynamicTracks, RunAttempt, StaticMap

`tracks` are the active tracks of the replay with the fields of `DynamicTrack`;
each frame an assigned track is `moving` or `still`, others are `missed`: these
outcomes are what geometry, the Kalman filter and the assignment make of the
images, and are choices. Probabilities are integers in units of 0.05, in which
the frozen configuration is whole; `ConfigIsValid` is the check of
`DynamicConfirmationConfig`, and `FrozenAssumption` names the two facts of the
frozen values that the properties need. `observed` and `confirming` are compared
with `MinConfirming` only and cut there. `moving`, `since` and `bursts` are
histories.

`attempts[c][n]` is the directory of attempt n: its manifest, its artifacts and
the state in its last registry row. `WriteManifest` and `LogManifest` alternate
through REGISTERED, RUNNING and COMPLETED or FAILED; a crash in between leaves a
manifest without its row, or a torn row. All files an attempt depends on are one
value, `inputs`, hashed when it begins (`captured`) and read when it is launched
(`ran`); they may change at any time. The code hashes the executable, then the
vocabulary and the settings, these two once more for a new manifest; in the model
this is one step, so a change between two of these hashes is not told from one
between the hash and the launch: neither is noticed. The child process of a killed runner is
taken to end with it.

`StaticMap` composes them: the tracker runs to its end, then runs are made, files
are damaged, inputs change, and maps are built. `SelectRun` is
`select_registered_run` (the last row of exactly one attempt is COMPLETED, no row
is torn, the artifacts match), `StaticTracks` the classification of the track
rows, `StageMap` and `PublishMap` the export. Which points survive clustering is
a choice (`Aggregates`). The intrinsics that `build_map` reads are those of the
settings file when it runs; they are part of `inputs` only for the run.

### Study

`run_study`: freeze, register, resume. `notes[c][n]` are the files it adds to an
attempt. `terminalize_failed_validation` is four steps (`Preserve`,
`RecordFailure`, `FailManifest`, `LogFailure`), `_finalize_metric` another four,
and `run_ov_condition` is `RunAttempt`. `Valid` is `validate_attempt`;
`Measures` says which artifacts yield a metric (a whole trajectory does, a short
one does not, and of a damaged one nothing is known). `Analyze` is
`analyze_study` with the completeness check of `validate_runs`; `summary` is the
attempts it used. Statistics are left out.

In every module the operators marked `Fault:` or `Mutant:` are plausible bugs.
They are used only to show that the properties can fail (`mutants` in
`PROJECT.json`).

## 4. What is checked

| run | what | bounds |
|---|---|---|
| `SlamSafety` | the composed core: `TypeOK`, `StoppedIsSafe`, `BAIsAborted`, `ProcessedOnce`, `NotStopHonoured`, `ParkedBeforeLoops`, `NoDanglingKeyFrame`, `ShutdownWaits`, and `LMSpec` (implementation) | 1 reset, 2 keyframes per epoch, 1 loop, 2 mode changes, shutdown |
| `TwoLoops` | `CorrectionExcludesGBA`, `AbortedGBADiscarded` (a GBA told to stop before or after it reads its index), `NoInsertionDuringCorrection` | 3 keyframes, 2 loops, 2 GBA threads |
| `SlamLiveness` | `ResetCompletes`, `ShutdownCompletes`, `CorrectionProceeds`, `LocalizationEntered` | 1 reset, 2 keyframes, 1 loop, 1 mode change, shutdown |
| `Viewer` | `ClearsUndrawn`, `ViewerStops`, `ViewerFinishes` | 3 + 2 resets |
| `OnlineMasks` | `OnlineTypeOK`, `ScoresAreFresh`, `EachAnswerOnce`, `NeverThrows`, `AnswersAreKnown`, `RunnerEnds` | 4 frames, deques of 3, age limit of 2 frames, 2 leftover answers |
| `Caches` | `CachesTypeOK`, `SealedIsWhole`, `DynamicIsDerived`, `CachesAreSealedStores` (implementation), `CachesComplete` | 2 frames, 2 commits, 2 inference times, 2 faults |
| `StaticMap` | `StaticMapTypeOK`, `StrongIsRecent`, `MapIsStatic`, `StrongIsEarned` | 2 tracks, frozen thresholds, 2 attempts, 2 versions of the files, 2 faults |
| `Study` | `StudyTypeOK`, `EarlierAttemptsFailed`, `FailureIsFaithful`, `CountedRanRegistered`, `MeasurementsAreKept`, `StudyCompletes` | 2 conditions, 4 attempts each, 2 versions, 2 commits, 3 faults |

Why the bounds suffice. *Core*: three keyframes let one be processed while one
waits and one is with the loop closer; one reset creates the second epoch in
which identities repeat; two loops abort one GBA. `FewKeyFrames` is 1 instead of
the code's 2 and `MaxQueued` 2 instead of 3, so that local bundle adjustment and
the full queue happen within three keyframes. `MaxLoops`, `MaxToggles`,
`MaxEpoch`, `MaxId` bound counters only.

*OnlineMasks*: four frames fill deques of three and age answers past a limit of
two; the clock moves by 0 or 1 between polls with an interval of 1, so a request
is due or not. The deques are just long enough (`LongEnough`), as a margin would
hide an off-by-one.

*Caches*: with two frames there is an indexed, an orphaned and a missing one in
every combination; two faults let a crash follow a crash, an exhausted memory or
a damaged file. *StaticMap*: the frame sequence is not bounded, the tracks' state
space is finite; the second track lets one track of a map be static while the
other turns dynamic, and tracks do not influence each other in the code.
`MaxMisses` is the code's 5. *Study*: three faults allow a kill, a kill during
the repair, and a change of the inputs; an attempt that a fault costs needs a
successor, hence four; two conditions let one be complete while the other runs.

Deadlock is checked in `TwoLoops` and `OnlineMasks`. It is not checked where the
real system can deadlock (`SlamSafety`, `SlamLiveness`, `Viewer`) or may be done
(`Caches`, `StaticMap`, `Study`).

### Disagreements found

Each has a run that TLC ends with a counterexample.

- `V_AbortedGBA` (`LateAbortDiscarded`, three loops): `mnFullBAIdx` is a `bool`;
  from the second abort on it does not change, and a GBA that had read it and was
  then told to stop is applied once `mbStopGBA` is cleared for the next one.
- `V_LostStopRequest`: `Release` clears a stop request that another thread has
  raised meanwhile; that thread waits for ever.
- `V_OrphanedPacket`: a kill between the rename of a packet and its index entry
  leaves a packet that no resumed generator can adopt, because the inference time
  is measured anew and is part of it; the cache is never completed. This is why
  `CachesComplete` excludes an orphan.
- `V_UnregisteredRun`: a kill between the manifest of a completed run and its
  registry row; the next start returns the attempt and appends nothing, so
  `build_map` finds no registered run for good. The run has no tracks
  (`MaxTracks = 0`), which have no part in it.

Met while modelling, without a run of their own:

- a loop closure in localization mode releases the mapper, which then maps
  although the mode promises it does not; `ParkedBeforeLoops` therefore speaks of
  the time before the first loop;
- `Release` locks `mMutexStop` then `mMutexFinish`, `SetFinish` the reverse;
  `ShutdownCompletes` excludes a loop;
- a reset waits for the answer of a mapper parked in localization mode (a lost
  tracker in a small map, or the viewer's two calls that both arrive after the
  mode check of a frame); `ResetCompletes` excludes the mode as well;
- two loops are enough for a GBA that is told to stop before it has read its
  index: it reads the new one, and it is applied when `mbStopGBA` is cleared for
  the next launch before it has looked. `AbortedGBADiscarded` says that this is
  the only way, and that it is never during the correction itself;
- the thread of the first GBA, which was detached, clears the `mbRunningGBA` of
  the second when it ends, so `Shutdown` may return while a GBA runs;
  `ShutdownWaits` promises its end up to one loop;
- with two loops the stop request of the second can be lost
  (`V_LostStopRequest`), and a reset then waits for ever for the loop closer:
  `ResetCompletes` excludes a second loop;
- leaving localization mode deletes queued keyframes, among them the one the
  tracker refers to; `NoDanglingKeyFrame` is stated without a release;
- the viewer's menu handler (`src/Viewer.cc:153`) waits for `mMutexReset`, held
  by a caller that waits for the viewer to stop (`src/Tracking.cc:1566`), so
  `ViewerStops` is stated for the behaviours in which nobody presses Reset.

The passing properties state the precise conditions under which the promise is
kept.

### Fairness

Core: weak fairness of every thread, since the operating system schedules it and
its waits are polling loops. Strong fairness of the steps that take
`mMutexMapUpdate`, which the tracker locks for each frame and frees in between: a
waiting thread gets it in the end. `std::mutex` does not promise this; the code
relies on it. No fairness of the application thread and none of the frame
stream's end: `Shutdown` is only part of the caller's weakly fair step, never
forced.

In `OnlineMasks` only `RunnerWork` is weakly fair: nothing is assumed of the
service, not even that it exists.

`Caches` and `Study`: a running tool goes on and a tool that has ended is started
again with `--resume`, as the documents prescribe; nothing forces the analysis,
and the environment (crashes, damage, moves of HEAD) is never forced. Both
completion properties assume that the commit (and the inputs) the work was begun
with are back for good.

## 5. What is proved

For every value of the constants (any set of callers, any number of GBA threads,
frames, tracks, attempts, any bounds), from the named assumptions on the
constants only:

| theorem | statement | argument |
|---|---|---|
| `LMTypeCorrect` | `LMSpec => []LMTypeOK` | `LMTypeInv`: the types plus: the current keyframe is one when it is used, and `Release` owns both mutexes in its last step |
| `LMStops` | `LMSpec => [](StoppedIsSafe /\ EndedMapperLooksStopped)` | `StopInv`: `mbStopped` is raised only on entry to the waiting loop or on the way out, and `Release` cannot lower it once `mbFinished` is set, because both are under `mMutexFinish` |
| `LMAborts` | `LMSpec => []BAIsAborted` | `AbortInv`: the invariant covers the checks that follow `ClearAbort`: after the queue was seen empty, a queued keyframe implies the flag |
| `LMProcessesOnce` | `LMSpec => []ProcessedOnce` | `PipelineInv`: neither queue repeats a keyframe, and the keyframes in process, on their way to loop closing and waiting are pairwise apart; one that has left the queue is in the map or destroyed, so a fresh one is none of them |
| `TypeCorrect` | `Spec => []TypeOK` | `SlamInv`: types, `ControlInv` (which fields are meaningful at which control point) and `IdentityInv` |
| `ImplementsLocalMapping` | `Spec => LMSpec` | every step of the composed system is a step of the mapper, an allowed call or a stutter; needs `IdentityInv`: a keyframe about to be inserted is fresh, because every known one was born earlier in (epoch, id) order |
| `MapperKeepsItsPromises` | `Spec => [](StoppedIsSafe /\ BAIsAborted /\ ProcessedOnce)` | from the three theorems on `LMSpec`, through `ImplementsLocalMapping` |
| `NotStopIsHonoured` | `Spec => []NotStopHonoured` | `NotStopInv`: while the tracker inserts, `mbNotStop` holds and no finish was requested, so neither `Stop` nor `SetStopped` raises `mbStopped` |
| `LocalizationBeforeLoops` | `Spec => []ParkedBeforeLoops` | `LocalizationInv`: without a loop the tracker alone releases the mapper, and it leaves the mode first |
| `ShutdownWaitsForThreads` | `Spec => []ShutdownWaits` | `EndInv`: a finished flag that is set belongs to a thread that has ended or has not begun, a caller that saw both threads running never sees them unbegun again, and the answers it was given one after the other still hold when the last one comes (`AnswersHold`); `LoopInv` for the GBA: after the first launch, no thread is alive without `mbRunningGBA` |
| `OneGBAApplies` | `Spec => [](two GBAs never apply at once, and none applies while mbStopGBA is set)` | `GBAInv`: whoever is past its check holds `mMutexGBA`, and the stop request is raised under it and lowered by the launch |
| `CorrectionExcludes` | `Spec => []CorrectionExcludesGBA` (up to the second loop) | `LoopInv` counts the launches: before the first there is no thread; after exactly one, a thread that is not idle has raised `mbRunningGBA`, so the correction asks it to stop (`OnlyFirstGBA`), and `GBAInv` keeps it from applying |
| `AbortedIsDiscarded` | `Spec => []AbortedGBADiscarded` (up to the second loop: a GBA that was told to stop is applied only if that was before it read its index and the next one has been launched) | two parts of `LoopInv`: a thread aborted late holds an index that is not `mnFullBAIdx` any more (`AbortedIsStale`); whoever was aborted is under a stop request until the next launch (`AbortStands`), and `GBAInv` lets nobody apply under one |
| `NoInsertionInFirstCorrection` | `Spec => []NoInsertionDuringCorrection` | `ParkedInv`: while the first loop is corrected the mapper stays stopped, because nobody who may release it does (`ModeInv`: the mode flags stay down while the application does not use them); then `NotStopInv` says that the tracker is not inserting |
| `NothingDangles` | `Spec => []NoDanglingKeyFrame` | `ResetInv`: once the mapper has answered the reset its queue and its keyframe in process are gone, once the loop closer has, its queue is, and both stay empty until the map is cleared, because the tracker that would insert is the one that resets |
| `ViewerSafe` | `HSpec => [](HandshakeTypeOK /\ ClearsUndrawn /\ StopNotLost)` | `HandshakeInv` |
| `OnlineTypeCorrect` | `OnlineSpec => []OnlineTypeOK` | the types alone; `PushBounded` for the deques |
| `OnlineScoresAreFresh` | `OnlineSpec => []ScoresAreFresh` | `OnlineInv`: requests are ordered in frame and time (`RequestsOrdered`), whatever the provider lets through answers one of them (`OnlyAnswers`), sources were tracked (`SourcesAreTracked`), a score is that of the dynamic state (`ScoreIsCurrent`) |
| `OnlineEachAnswerOnce` | `OnlineSpec => []EachAnswerOnce` | `AppliedInOrder`: applied frames grow, so each adds an element |
| `OnlineNeverThrows` | `OnlineSpec => []NeverThrows` | a later frame that was requested has a later time stamp, and none is in the future |
| `OnlineAnswersAreKnown` | `OnlineSpec => []AnswersAreKnown` | `SpacedInv`: take a spacing no two frames fall short of and with which a full deque reaches back beyond the age limit (`LongEnoughIsSpaced`); what is n places from the newest end is n spacings old, n + 1 between the step of the clock and the push, and what was dropped is older than the age limit |
| `MapInvariant` | `MapSpec => []MapInv` | `TrackInv` of every track: the evidence is at least `Gain` per movement in a row or certain, and what a strong track lost since its last movement is accounted for; `BuilderInv`: a build runs on complete rows only |
| `StaticMapTypes` | `MapSpec => []StaticMapTypeOK` | `MapInv`, with `RunInv` for the runner (`RunAttempt_proofs`) |
| `StrongTracksAreRecent` | `MapSpec => []StrongIsRecent` | probability + `Loss` * since is at most 1, so after `Window` frames it is below `Exit` |
| `MapsAreStatic` | `MapSpec => []MapIsStatic` | `MinConfirming` movements in a row give enough evidence, so that frame's row is strong; strong rows are never forgotten and no map has such a track |
| `StrengthIsEarned` | `MapSpec => StrongIsEarned` | `confirming` equals the movements in a row |
| `StudyInvariant` | `StudySpec => []StudyInv` | what each step may rely on: which attempt is under validation and what was established about it (`Judged`), that a pending condition has no valid attempt but the one being measured (`Fresh`), that the attempt being run has none of the study's files (`Running`), that the earlier ones are dead (`Reviewed`) |
| `StudyTypes` | `StudySpec => []StudyTypeOK` | `StudyInv`, with `RunInv` for the runner |
| `OneAttemptCounts` | `StudySpec => []EarlierAttemptsFailed` | a new attempt is made after the review has marked every other one, and nothing brings a dead attempt back |
| `FailuresAreFaithful` | `StudySpec => []FailureIsFaithful` | until the record is written the copy equals the manifest, and the manifest changes only after the record is there |
| `CountedRuns` | `StudySpec => []CountedRanRegistered` | the inputs in a manifest are those the attempt began with, over every later write; the summary is of valid attempts |
| `MeasurementsKept` | `StudySpec => MeasurementsAreKept` | `Judged`: an attempt whose manifest is about to be made FAILED does not count |
| `CachesInvariant` | `CachesSpec => []CachesInv` | the job is the manifest once the writer is open, the loop is never beyond the first missing entry, and a whole index is never changed again (`WholeIndexStays`), so what was derived from it stays derived (`DerivedStays`) |
| `CachesTypes` | `CachesSpec => []CachesTypeOK` | `CachesInv` |
| `SealedCachesAreWhole` | `CachesSpec => []SealedIsWhole` | an absent manifest implies an empty index, so a cache that is set aside takes its resolution with it |
| `DynamicCachesAreDerived` | `CachesSpec => []DynamicIsDerived` | `Derived` holds from the last validation on |
| `CachesImplementStores` | `CachesSpec => CachesAreSealedStores` | the refinement, step by step: `SemanticStoreStep`, `DynamicStoreStep`; memory is exhausted only at a frame without an entry, when nothing is sealed |

Because the composed system implements `LMSpec`, the theorems about `LMSpec` hold
for it too; the proofs of `NotStopIsHonoured`, `LocalizationBeforeLoops`,
`ShutdownWaitsForThreads` and, through the first, `NoInsertionInFirstCorrection`
use `StopInv` this way. None of these invariants is inductive without the ones it
is proved from: `LocalizationInv`, `GBAInv` and `ModeInv` rest on `SlamInv`,
`NotStopInv` and `EndInv` on `SlamInv` and `StopInv`, `ShutdownWaits` on `EndInv` and `LoopInv`, `LoopInv` on `SlamInv` and
`GBAInv`, `ParkedInv` on `SlamInv`, `LoopInv` and `ModeInv`, `ResetInv` on
`SlamInv`, `LocalizationInv` and `ModeInv`, and `SpacedInv` on `OnlineInv`. TLC
finds each of them invariant on instances like those of section 4.

`CorrectionExcludesGBA` and `AbortedGBADiscarded` carry `lc.loops <= 2`, so the
theorems say what the run says, for every bound on keyframes, resets, threads and
mode changes; the number of loops is part of the invariants because a third loop
breaks both. `mnFullBAIdx` is a `bool`, so the
abort of the second GBA leaves it as the abort of the first did (`V_AbortedGBA`);
and the thread of the first GBA, which was detached, clears the `mbRunningGBA` of
the second when it ends, so that the third correction does not ask the second to
stop. What holds with any number of loops is `OneGBAApplies`.

Every safety property of the passing runs, every action property and both
implementations are stated by a theorem. Only model-checked are the liveness
properties (`ResetCompletes`, `ShutdownCompletes`, `CorrectionProceeds`,
`LocalizationEntered`, `ViewerStops`, `ViewerFinishes`, `RunnerEnds`,
`CachesComplete`, `StudyCompletes`): fairness is stated with `WF_` and `SF_`,
whose `ENABLED` the prover does not reason about.

## 6. Not modelled

- Numerical code (features, optimisation, solvers, the TSDF volume, clustering,
  statistics), drawing, trajectories' file format, queries of a map, the map
  validator: functions of their input without state that the properties could
  tell apart; their results are choices.
- The P05 non-inferiority protocol, the plain baseline runner
  (`run_baseline_condition`), the equivalence checks and `reproduce.py`: one-shot
  programs that read files and compute, or that call the modelled tools one after
  the other.
- The inside of keyframes and map points (covisibility, spanning tree,
  observations, culling): upstream data structures, each under its own mutex; the
  threads here wait for each other, not for them.
- Monocular and stereo entry points, relocalisation, the headless viewer, the
  other example programs, development tools, vendored libraries.

## 7. Running

In this directory: `tlc -config SlamSafety.cfg MCSlamSystem`, and so on for the
other configurations (`PROJECT.json` names the module of each; `V_*.cfg` end with
a counterexample); `tlapm SlamSystem_proofs.tla` for the proofs.
