---------------------------- MODULE SlamSystem ----------------------------
(***************************************************************************)
(* The SLAM core: the caller's thread (System::TrackRGBD and the Tracking  *)
(* it drives, System::Shutdown), the local-mapping thread, the loop-closing*)
(* thread and the global-bundle-adjustment threads, together with another  *)
(* application thread that uses the mode and reset interface of System the *)
(* way the viewer does.                                                    *)
(*                                                                         *)
(* The configuration is the one without a Viewer object; the handshake of  *)
(* Tracking::Reset and Shutdown with the viewer is module ViewerHandshake. *)
(***************************************************************************)
EXTENDS LoopClosing

CONSTANTS
  Main,          (* the thread that calls TrackRGBD and Shutdown           *)
  MaxToggles,    (* bound on the changes of localization mode              *)
  MaxQueued,     (* insertion limit when the mapper is busy; 3 in the code *)
  CanShutdown    (* whether Shutdown may be called                         *)

ASSUME SystemAssumption ==
  /\ Callers = GBAs \cup {Closer, Main}
  /\ Main \notin GBAs \cup {Closer}
  /\ MaxToggles \in Nat
  /\ MaxQueued \in Nat
  /\ CanShutdown \in BOOLEAN

VARIABLES
  sys,    (* the flags of System                                           *)
  tr,     (* Tracking and the thread it runs on                            *)
  ui      (* the application thread: its idea of the mode, toggles so far  *)

vars == <<lm, map, mlpLoopKeyFrameQueue, lc, gba, sys, tr, ui>>

TRControl == { "mode", "waitStop", "deactivate", "releaseLock",
               "releaseFlags", "releaseClear", "checkReset", "resetLM",
               "resetLC", "clearMap", "track", "frame", "insertFirst",
               "needKeyFrame", "checkAccept", "interruptBA", "checkQueue",
               "setNotStop", "insert", "clearNotStop", "endTrack",
               "shutdownLC", "shutdownWait", "shutdownWaitLC",
               "shutdownWaitGBA", "down" }

SysType ==
  sys \in [ mbActivateLocalizationMode   : BOOLEAN,
            mbDeactivateLocalizationMode : BOOLEAN,
            mbReset                      : BOOLEAN ]

TRType ==
  tr \in [ pc             : TRControl,
           mState         : {"NOT_INITIALIZED", "OK"},   \* OK or LOST
           mbOnlyTracking : BOOLEAN,
           mpReferenceKF  : KeyFrame \cup {Nobody},
           epoch          : 0 .. MaxEpoch,       \* resets so far
           nNextId        : 0 .. MaxId + 1,      \* KeyFrame::nNextId
           allStarted     : BOOLEAN ]            \* history, see Shutdown

UIType ==
  ui \in [ bLocalizationMode : BOOLEAN, toggles : 0 .. MaxToggles ]

(* Type correctness of the whole system: members keep their declared types *)
(* and every mutex has an owner that is a thread, or none.                 *)
TypeOK == LMTypeOK /\ LCType /\ GBAType /\ SysType /\ TRType /\ UIType

Init ==
  /\ LMInit
  /\ LCInit
  /\ sys = [ mbActivateLocalizationMode   |-> FALSE,
             mbDeactivateLocalizationMode |-> FALSE,
             mbReset                      |-> FALSE ]
  /\ tr = [ pc |-> "mode", mState |-> "NOT_INITIALIZED",
            mbOnlyTracking |-> FALSE, mpReferenceKF |-> Nobody,
            epoch |-> 0, nNextId |-> 0, allStarted |-> FALSE ]
  /\ ui = [ bLocalizationMode |-> FALSE, toggles |-> 0 ]

TRAt(pc) == tr.pc = pc

TRGoto(from, to) ==
  /\ TRAt(from)
  /\ tr' = [tr EXCEPT !.pc = to]

(***************************************************************************)
(* The mutexes of System that are held across several steps.               *)
(***************************************************************************)
ModeIsFree == tr.pc \notin { "waitStop", "deactivate", "releaseLock",
                             "releaseFlags", "releaseClear" }

ResetIsFree == tr.pc \notin { "resetLM", "resetLC", "clearMap" }

(***************************************************************************)
(* The application thread, with the discipline of Viewer::Run.             *)
(***************************************************************************)
ActivateLocalizationMode ==
  /\ ModeIsFree
  /\ ui.toggles < MaxToggles
  /\ ~ui.bLocalizationMode
  /\ ui' = [bLocalizationMode |-> TRUE, toggles |-> ui.toggles + 1]
  /\ sys' = [sys EXCEPT !.mbActivateLocalizationMode = TRUE]
  /\ UNCHANGED <<lmVars, loopVars, tr>>

DeactivateLocalizationMode ==
  /\ ModeIsFree
  /\ ui.toggles < MaxToggles
  /\ ui.bLocalizationMode
  /\ ui' = [bLocalizationMode |-> FALSE, toggles |-> ui.toggles + 1]
  /\ sys' = [sys EXCEPT !.mbDeactivateLocalizationMode = TRUE]
  /\ UNCHANGED <<lmVars, loopVars, tr>>

(* The viewer leaves localization mode before it asks for a reset. *)
Reset ==
  /\ ResetIsFree
  /\ tr.epoch < MaxEpoch
  /\ ~ui.bLocalizationMode
  /\ sys' = [sys EXCEPT !.mbReset = TRUE]
  /\ UNCHANGED <<lmVars, loopVars, tr, ui>>

UIStep == ActivateLocalizationMode \/ DeactivateLocalizationMode \/ Reset

(***************************************************************************)
(* System::TrackRGBD: the change of mode                                   *)
(***************************************************************************)
CheckMode ==
  /\ TRAt("mode")
  /\ IF sys.mbActivateLocalizationMode
     THEN RequestStop /\ TRGoto("mode", "waitStop")
     ELSE TRGoto("mode", "deactivate") /\ UNCHANGED lm
  /\ UNCHANGED <<map, mlpLoopKeyFrameQueue, loopVars, sys, ui>>

(* Fault: localization mode does not wait for the mapper. *)
EnterWithoutWaiting ==
  /\ TRAt("waitStop")
  /\ tr' = [tr EXCEPT !.pc = "deactivate", !.mbOnlyTracking = TRUE]
  /\ sys' = [sys EXCEPT !.mbActivateLocalizationMode = FALSE]
  /\ UNCHANGED <<lmVars, loopVars, ui>>

EnterLocalization ==
  /\ TRAt("waitStop")
  /\ IsStopped
  /\ tr' = [tr EXCEPT !.pc = "deactivate", !.mbOnlyTracking = TRUE]
  /\ sys' = [sys EXCEPT !.mbActivateLocalizationMode = FALSE]
  /\ UNCHANGED <<lmVars, loopVars, ui>>

LeaveLocalization ==
  /\ TRAt("deactivate")
  /\ tr' = IF sys.mbDeactivateLocalizationMode
           THEN [tr EXCEPT !.pc = "releaseLock", !.mbOnlyTracking = FALSE]
           ELSE [tr EXCEPT !.pc = "checkReset"]
  /\ UNCHANGED <<lmVars, loopVars, sys, ui>>

TRReleaseLock ==
  /\ TRGoto("releaseLock", "releaseFlags")
  /\ ReleaseLock(Main)
  /\ UNCHANGED <<map, mlpLoopKeyFrameQueue, loopVars, sys, ui>>

TRReleaseFlags ==
  /\ TRAt("releaseFlags")
  /\ ReleaseFlags(Main)
  /\ IF lm.mbFinished
     THEN /\ TRGoto("releaseFlags", "checkReset")
          /\ sys' = [sys EXCEPT !.mbDeactivateLocalizationMode = FALSE]
     ELSE /\ TRGoto("releaseFlags", "releaseClear")
          /\ UNCHANGED sys
  /\ UNCHANGED <<mlpLoopKeyFrameQueue, loopVars, ui>>

TRReleaseClear ==
  /\ TRGoto("releaseClear", "checkReset")
  /\ ReleaseClear(Main)
  /\ sys' = [sys EXCEPT !.mbDeactivateLocalizationMode = FALSE]
  /\ UNCHANGED <<map, mlpLoopKeyFrameQueue, loopVars, ui>>

(***************************************************************************)
(* System::TrackRGBD and Tracking::Reset                                   *)
(***************************************************************************)
CheckReset ==
  /\ TRGoto("checkReset", IF sys.mbReset THEN "resetLM" ELSE "track")
  /\ IF sys.mbReset THEN RequestReset ELSE UNCHANGED lm
  /\ UNCHANGED <<map, mlpLoopKeyFrameQueue, loopVars, sys, ui>>

(* Fault: the reset does not wait for the mapper's answer. *)
ResetWithoutMapper ==
  /\ TRGoto("resetLM", "resetLC")
  /\ lc' = [lc EXCEPT !.mbResetRequested = TRUE]
  /\ UNCHANGED <<lmVars, gba, sys, ui>>

(* The mapper has answered; the loop closer is asked next. *)
MapperIsReset ==
  /\ ~lm.mbResetRequested
  /\ TRGoto("resetLM", "resetLC")
  /\ lc' = [lc EXCEPT !.mbResetRequested = TRUE]
  /\ UNCHANGED <<lmVars, gba, sys, ui>>

CloserIsReset ==
  /\ ~lc.mbResetRequested
  /\ TRGoto("resetLC", "clearMap")
  /\ UNCHANGED <<lmVars, loopVars, sys, ui>>

ClearAll ==
  /\ TRAt("clearMap")
  /\ ClearMap
  /\ tr' = [tr EXCEPT !.pc = "track", !.mState = "NOT_INITIALIZED",
                      !.epoch = @ + 1, !.nNextId = 0]
  /\ sys' = [sys EXCEPT !.mbReset = FALSE]
  /\ UNCHANGED <<lm, mlpLoopKeyFrameQueue, loopVars, ui>>

(***************************************************************************)
(* Tracking::Track, under the map mutex from the first step to the last.   *)
(***************************************************************************)
(* Fault: the identity is read after the counter has moved on. *)
LateKeyFrame == [epoch |-> tr.epoch, mnId |-> tr.nNextId + 1]

NextKeyFrame == [epoch |-> tr.epoch, mnId |-> tr.nNextId]

BeginTrack ==
  /\ TRGoto("track", "frame")
  /\ LockMap(Main)
  /\ UNCHANGED <<lm, mlpLoopKeyFrameQueue, loopVars, sys, ui>>

(* StereoInitialization with enough features: the first keyframe enters    *)
(* the map, then the mapper's queue.                                       *)
CreateFirst ==
  /\ TRAt("frame")
  /\ tr.mState = "NOT_INITIALIZED"
  /\ AddKeyFrame(NextKeyFrame)
  /\ tr' = [tr EXCEPT !.pc = "insertFirst", !.nNextId = @ + 1,
                      !.mpReferenceKF = NextKeyFrame]
  /\ UNCHANGED <<lm, mlpLoopKeyFrameQueue, loopVars, sys, ui>>

InsertFirst ==
  /\ TRAt("insertFirst")
  /\ InsertKeyFrame(tr.mpReferenceKF)
  /\ tr' = [tr EXCEPT !.pc = "endTrack", !.mState = "OK"]
  /\ UNCHANGED <<map, mlpLoopKeyFrameQueue, loopVars, sys, ui>>

(* Nothing more happens in this frame: no initialization, no good pose, or *)
(* no keyframe wanted.                                                     *)
TrackOnly ==
  /\ TRGoto("frame", "endTrack")
  /\ UNCHANGED <<lmVars, loopVars, sys, ui>>

(* Lost with a small map: Track asks for a reset itself. *)
TrackLost ==
  /\ tr.mState = "OK"
  /\ Cardinality(map.mspKeyFrames) <= 5
  /\ tr.epoch < MaxEpoch
  /\ TRGoto("frame", "endTrack")
  /\ sys' = [sys EXCEPT !.mbReset = TRUE]
  /\ UNCHANGED <<lmVars, loopVars, ui>>

ConsiderKeyFrame ==
  /\ tr.mState = "OK"
  /\ ~tr.mbOnlyTracking
  /\ tr.nNextId <= MaxId
  /\ TRGoto("frame", "needKeyFrame")
  /\ UNCHANGED <<lmVars, loopVars, sys, ui>>

(* isStopped() || stopRequested() *)
NeedNewKeyFrame ==
  /\ StopIsFree
  /\ TRGoto("needKeyFrame", IF lm.mbStopped \/ lm.mbStopRequested
                            THEN "endTrack" ELSE "checkAccept")
  /\ UNCHANGED <<lmVars, loopVars, sys, ui>>

(* AcceptKeyFrames(): an idle mapper gets the keyframe; one that was busy  *)
(* when it was asked has its bundle adjustment interrupted.                *)
CheckAccept ==
  /\ TRGoto("checkAccept", IF lm.mbAcceptKeyFrames
                           THEN "setNotStop" ELSE "interruptBA")
  /\ UNCHANGED <<lmVars, loopVars, sys, ui>>

InterruptMapper ==
  /\ TRGoto("interruptBA", "checkQueue")
  /\ InterruptBA
  /\ UNCHANGED <<map, mlpLoopKeyFrameQueue, loopVars, sys, ui>>

CheckQueue ==
  /\ TRGoto("checkQueue", IF Len(lm.mlNewKeyFrames) < MaxQueued
                          THEN "setNotStop" ELSE "endTrack")
  /\ UNCHANGED <<lmVars, loopVars, sys, ui>>

(* Fault: the identity counter does not move on. *)
CreateSameKeyFrame ==
  /\ TRAt("setNotStop")
  /\ SetNotStop(TRUE)
  /\ tr' = IF lm.mbStopped
           THEN [tr EXCEPT !.pc = "endTrack"]
           ELSE [tr EXCEPT !.pc = "insert", !.mpReferenceKF = NextKeyFrame]
  /\ UNCHANGED <<map, mlpLoopKeyFrameQueue, loopVars, sys, ui>>

CreateNewKeyFrame ==
  /\ TRAt("setNotStop")
  /\ SetNotStop(TRUE)
  /\ tr' = IF lm.mbStopped
           THEN [tr EXCEPT !.pc = "endTrack"]
           ELSE [tr EXCEPT !.pc = "insert", !.nNextId = @ + 1,
                           !.mpReferenceKF = NextKeyFrame]
  /\ UNCHANGED <<map, mlpLoopKeyFrameQueue, loopVars, sys, ui>>

InsertNew ==
  /\ TRGoto("insert", "clearNotStop")
  /\ InsertKeyFrame(tr.mpReferenceKF)
  /\ UNCHANGED <<map, mlpLoopKeyFrameQueue, loopVars, sys, ui>>

(* Fault: SetNotStop(false) is forgotten. *)
KeepNotStop ==
  /\ TRGoto("clearNotStop", "endTrack")
  /\ UNCHANGED <<lmVars, loopVars, sys, ui>>

ClearNotStop ==
  /\ TRGoto("clearNotStop", "endTrack")
  /\ SetNotStop(FALSE)
  /\ UNCHANGED <<map, mlpLoopKeyFrameQueue, loopVars, sys, ui>>

EndTrack ==
  /\ TRGoto("endTrack", "mode")
  /\ UnlockMap(Main)
  /\ UNCHANGED <<lm, mlpLoopKeyFrameQueue, loopVars, sys, ui>>

(***************************************************************************)
(* System::Shutdown                                                        *)
(***************************************************************************)
Shutdown ==
  /\ CanShutdown
  /\ TRAt("mode")
  /\ RequestFinish
  /\ tr' = [tr EXCEPT !.pc = "shutdownLC",
                      !.allStarted = lm.pc # "start" /\ lc.pc # "start"]
  /\ UNCHANGED <<map, mlpLoopKeyFrameQueue, loopVars, sys, ui>>

ShutdownCloser ==
  /\ TRGoto("shutdownLC", "shutdownWait")
  /\ lc' = [lc EXCEPT !.mbFinishRequested = TRUE]
  /\ UNCHANGED <<lmVars, gba, sys, ui>>

(* isFinished() of the mapper, isFinished() of the loop closer and         *)
(* isRunningGBA(), under one lock after the other; the loop starts again   *)
(* as soon as one of them says that there is something to wait for.        *)
MapperHasFinished ==
  /\ IsFinished
  /\ TRGoto("shutdownWait", "shutdownWaitLC")
  /\ UNCHANGED <<lmVars, loopVars, sys, ui>>

(* Fault: Shutdown does not wait for the loop closer. *)
CloserIsIgnored ==
  /\ TRGoto("shutdownWaitLC", "shutdownWaitGBA")
  /\ UNCHANGED <<lmVars, loopVars, sys, ui>>

CloserHasFinished ==
  /\ TRGoto("shutdownWaitLC", IF lc.mbFinished THEN "shutdownWaitGBA"
                                               ELSE "shutdownWait")
  /\ UNCHANGED <<lmVars, loopVars, sys, ui>>

NoGBAIsRunning ==
  /\ GBAIsFree
  /\ TRGoto("shutdownWaitGBA", IF lc.mbRunningGBA THEN "shutdownWait"
                                                  ELSE "down")
  /\ UNCHANGED <<lmVars, loopVars, sys, ui>>

MainStep ==
  \/ CheckMode \/ EnterLocalization \/ LeaveLocalization
  \/ TRReleaseLock \/ TRReleaseFlags \/ TRReleaseClear
  \/ CheckReset \/ MapperIsReset \/ CloserIsReset \/ ClearAll
  \/ BeginTrack \/ CreateFirst \/ InsertFirst
  \/ TrackOnly \/ TrackLost \/ ConsiderKeyFrame
  \/ NeedNewKeyFrame \/ CheckAccept \/ InterruptMapper \/ CheckQueue
  \/ CreateNewKeyFrame \/ InsertNew \/ ClearNotStop \/ EndTrack
  \/ Shutdown \/ ShutdownCloser
  \/ MapperHasFinished \/ CloserHasFinished \/ NoGBAIsRunning

(* The program has ended. *)
AllDone == TRAt("down") /\ At("done") /\ LCAt("done") /\ GBAAlive = {}

Crashed == At("crashed")

Terminated == (AllDone \/ Crashed) /\ UNCHANGED vars

MapperStep == LMStep /\ UNCHANGED <<loopVars, sys, tr, ui>>
CloserStep == LCStep /\ UNCHANGED <<sys, tr, ui>>
GBAThreadStep(g) == GBAStep(g) /\ UNCHANGED <<sys, tr, ui>>

Next ==
  \/ MapperStep
  \/ CloserStep
  \/ \E g \in GBAs : GBAThreadStep(g)
  \/ MainStep
  \/ UIStep
  \/ Terminated

Spec == Init /\ [][Next]_vars

(***************************************************************************)
(* Fairness.  Every thread is scheduled (weak fairness of its steps); a    *)
(* thread that waits for mMutexMapUpdate, which the tracker takes for every*)
(* frame, gets it in the end (strong fairness of the steps that lock it).  *)
(* Nothing is assumed of the application thread, nor that the caller ever  *)
(* shuts down.                                                             *)
(***************************************************************************)
MapLockSteps ==
  \/ RecoverOptimized /\ UNCHANGED <<loopVars, sys, tr, ui>>
  \/ (LCLockMap \/ FuseAndOptimise) /\ UNCHANGED <<sys, tr, ui>>

Fairness ==
  /\ WF_vars(MapperStep)
  /\ WF_vars(CloserStep)
  /\ WF_vars(MainStep)
  /\ \A g \in GBAs : WF_vars(GBAThreadStep(g))
  /\ SF_vars(MapLockSteps)
  /\ \A g \in GBAs : SF_vars(GBALockMap(g) /\ UNCHANGED <<sys, tr, ui>>)

FairSpec == Spec /\ Fairness

(***************************************************************************)
(* Safety                                                                  *)
(***************************************************************************)

(* SetNotStop is a promise to the tracker: from the moment it returns true *)
(* until the tracker takes it back, the mapper is not stopped, so the new  *)
(* keyframe is not put into the queue of a stopped mapper.                 *)
NotStopHonoured == tr.pc \in {"insert", "clearNotStop"} => ~lm.mbStopped

(* ActivateLocalizationMode "stops local mapping thread (map building) and *)
(* performs only camera tracking" (System.h): as long as the tracker is in *)
(* that mode the mapper is parked.                                         *)
LocalizationStopsMapping == tr.mbOnlyTracking => lm.pc \in SafeArea

(* The same until the first loop is closed: CorrectLoop and the global     *)
(* bundle adjustment release the mapper whatever the mode.                 *)
ParkedBeforeLoops == lc.loops = 0 => LocalizationStopsMapping

(* The loop closer between the return of its wait for the mapper and the   *)
(* launch of the next bundle adjustment.                                   *)
Correcting == lc.pc \in {"lockMap", "correct", "fuse", "launch", "spawn"}

(* "Avoid new keyframes are inserted while correcting the loop"            *)
(* (CorrectLoop), provided that nobody else has used the release:          *)
(* localization mode, or the correction of an earlier loop.                *)
NoInsertionDuringCorrection ==
  Correcting /\ ui.toggles = 0 /\ lc.loops = 1
    => tr.pc \notin {"insert", "clearNotStop"}

(* "If a Global Bundle Adjustment is running, abort it": the result of a   *)
(* bundle adjustment that has read its index and is then told to stop is   *)
(* never applied.                                                          *)
LateAbortDiscarded ==
  \A g \in GBAs : gba[g].aborted = "late" => ~GBAApplying(g)

(* The same up to the second loop, where it holds, with what becomes of    *)
(* the others: a bundle adjustment that was told to stop before it had     *)
(* read its index has no other sign of it than mbStopGBA, which the next   *)
(* launch clears.  It is applied, and it is applied only then: never       *)
(* during the correction that told it to stop.                             *)
AbortedGBADiscarded ==
  lc.loops <= 2 =>
    \A g \in GBAs :
      gba[g].aborted # "no" /\ GBAApplying(g)
        => gba[g].aborted = "early" /\ lc.mpThreadGBA # g

(* While a loop is being corrected no earlier bundle adjustment applies    *)
(* its result: up to the second loop, after which mnFullBAIdx no longer    *)
(* tells the adjustments apart.                                            *)
CorrectionExcludesGBA ==
  lc.loops <= 2 /\ Correcting =>
    \A g \in GBAs : gba[g].pc \in {"idle", "start", "optimise", "lockGBA",
                                   "finish"}

(* Every keyframe a thread may still dereference.                          *)
InUse ==
  QueuedKeyFrames \cup InProcess \cup ForLoopClosing
    \cup (IF lc.pc \in {"start", "check", "detect", "reset", "checkFinish",
                        "finish", "done"}
          THEN {} ELSE {lc.mpCurrentKF})
    \cup map.mspKeyFrames
    \cup (IF tr.mState = "OK" THEN {tr.mpReferenceKF} ELSE {})

(* Nobody has released the mapper, or is about to: Release is called when  *)
(* localization mode is left and when a loop has been closed.              *)
NeverReleased == ui.toggles = 0 /\ lc.loops = 0

(* Map::clear destroys KeyFrame objects.  None of those that the mapper,   *)
(* the loop closer, the map or the tracker can still reach is destroyed:   *)
(* before the map is cleared, the mapper and then the loop closer have     *)
(* dropped theirs.  (Release destroys keyframes too, the reference          *)
(* keyframe of the tracker among them.)                                    *)
NoDanglingKeyFrame == NeverReleased => InUse \cap map.deleted = {}

(* Shutdown "waits until all threads have finished" (System.h): provided   *)
(* the threads were running when it was called.  The three answers it      *)
(* waits for are given one after the other, and when it returns they still *)
(* hold.  The bundle adjustment of a second loop is not always waited for: *)
(* an older one that ends after its launch clears mbRunningGBA.            *)
ShutdownWaits ==
  TRAt("down") /\ tr.allStarted =>
    /\ At("done")
    /\ LCAt("done")
    /\ lc.loops <= 1 => GBAAlive = {}

(***************************************************************************)
(* Liveness                                                                *)
(***************************************************************************)

(* Reset "the system (clear map)" (System.h): a reset that the tracker     *)
(* begins to serve ends with the map cleared.                              *)
ResetAlwaysCompletes == TRAt("resetLM") ~> TRAt("clearMap")

(* The same when localization mode, which parks the mapper, is not used    *)
(* and no second loop is closed: the stop request of the second one may be *)
(* lost (CorrectionAlwaysProceeds), and then the loop closer waits for     *)
(* ever and the reset waits for the loop closer.                           *)
ResetCompletes ==
  [](ui.toggles = 0 /\ lc.loops <= 1) => ResetAlwaysCompletes

(* Shutdown "waits until all threads have finished" (System.h), and they   *)
(* do: once it is called it returns.                                       *)
ShutdownAlwaysCompletes == TRAt("shutdownLC") ~> TRAt("down")

(* The same when no loop is closed: Release by the loop closer and         *)
(* SetFinish by the mapper can lock each other out.                        *)
ShutdownCompletes == [](lc.loops = 0) => ShutdownAlwaysCompletes

(* The wait of CorrectLoop for the mapper ends. *)
CorrectionAlwaysProceeds == LCAt("waitStop") ~> LCAt("lockMap")

(* The same when nobody else releases the mapper. *)
CorrectionProceeds ==
  [](ui.toggles = 0 /\ lc.loops <= 1) => CorrectionAlwaysProceeds

(* A change to localization mode that the tracker begins is completed, if  *)
(* no loop closure releases the mapper meanwhile.                          *)
LocalizationEntered ==
  [](lc.loops = 0) => (TRAt("waitStop") ~> tr.mbOnlyTracking)
============================================================================
