---------------------------- MODULE LoopClosing ----------------------------
(***************************************************************************)
(* The loop-closing thread (LoopClosing::Run, CorrectLoop) and the threads *)
(* it launches for global bundle adjustment (RunGlobalBundleAdjustment),   *)
(* src/src/LoopClosing.cc, as clients of LocalMapping.                     *)
(*                                                                         *)
(* Whether a keyframe closes a loop (DetectLoop, ComputeSim3) depends on   *)
(* image data and is a choice of the model.                                *)
(***************************************************************************)
EXTENDS LocalMapping

CONSTANTS
  Closer,     (* the loop-closing thread                                   *)
  GBAs,       (* slots for global-bundle-adjustment threads                *)
  MaxLoops    (* bound on the number of loops that are closed              *)

ASSUME LoopThreadsAssumption ==
  /\ {Closer} \cup GBAs \subseteq Callers
  /\ Closer \notin GBAs
  /\ MaxLoops \in Nat

VARIABLES
  lc,     (* the LoopClosing object and its thread                         *)
  gba     (* the global-bundle-adjustment threads, running or detached     *)

loopVars == <<lc, gba>>

LCControl == { "start", "check", "detect", "requestStop", "testGBA",
               "abortGBA", "waitStop", "lockMap", "correct", "fuse",
               "launch", "spawn", "releaseLock", "releaseFlags",
               "releaseClear", "reset", "checkFinish", "finish", "done" }

GBAControl == { "idle", "start", "optimise", "lockGBA", "requestStop",
                "waitStop", "lockMap", "update", "releaseLock",
                "releaseFlags", "releaseClear", "finish" }

(* When a bundle adjustment was told to stop: never, before it had read    *)
(* the index it compares in the end ("early"), or after that ("late").     *)
Aborted == {"no", "early", "late"}

LCType ==
  lc \in [ pc                : LCControl,
           mbResetRequested  : BOOLEAN,
           mbFinishRequested : BOOLEAN,
           mbFinished        : BOOLEAN,
           mpCurrentKF       : KeyFrame \cup {Nobody},
           mbRunningGBA      : BOOLEAN,
           mbFinishedGBA     : BOOLEAN,
           mbStopGBA         : BOOLEAN,
           mnFullBAIdx       : BOOLEAN,     \* declared bool in the header
           mpThreadGBA       : GBAs \cup {Nobody},
           mMutexGBA         : Callers \cup {Nobody},
           loops             : 0 .. MaxLoops ]

GBAType ==
  gba \in [ GBAs -> [ pc      : GBAControl,
                      idx     : BOOLEAN,
                      aborted : Aborted ] ]     \* history, see Aborted

LCInit ==
  /\ lc = [ pc                |-> "start",
            mbResetRequested  |-> FALSE,
            mbFinishRequested |-> FALSE,
            mbFinished        |-> TRUE,
            mpCurrentKF       |-> Nobody,
            mbRunningGBA      |-> FALSE,
            mbFinishedGBA     |-> TRUE,
            mbStopGBA         |-> FALSE,
            mnFullBAIdx       |-> FALSE,
            mpThreadGBA       |-> Nobody,
            mMutexGBA         |-> Nobody,
            loops             |-> 0 ]
  /\ gba = [ g \in GBAs |-> [pc |-> "idle", idx |-> FALSE, aborted |-> "no"] ]

GBAIsFree == lc.mMutexGBA = Nobody

LCAt(pc) == lc.pc = pc

LCGoto(from, to) ==
  /\ LCAt(from)
  /\ lc' = [lc EXCEPT !.pc = to]

(***************************************************************************)
(* LoopClosing::Run                                                        *)
(***************************************************************************)
LCStart ==
  /\ LCAt("start")
  /\ lc' = [lc EXCEPT !.pc = "check", !.mbFinished = FALSE]
  /\ UNCHANGED <<lmVars, gba>>

LCCheckNewKeyFrames ==
  /\ LCGoto("check", IF mlpLoopKeyFrameQueue = << >> THEN "reset" ELSE "detect")
  /\ UNCHANGED <<lmVars, gba>>

(* DetectLoop takes the oldest keyframe; no loop is found, or DetectLoop   *)
(* and ComputeSim3 both succeed.                                           *)
DetectLoop ==
  /\ LCAt("detect")
  /\ mlpLoopKeyFrameQueue' = Tail(mlpLoopKeyFrameQueue)
  /\ \/ lc' = [lc EXCEPT !.pc = "reset",
                         !.mpCurrentKF = Head(mlpLoopKeyFrameQueue)]
     \/ /\ lc.loops < MaxLoops
        /\ lc' = [lc EXCEPT !.pc = "requestStop",
                            !.mpCurrentKF = Head(mlpLoopKeyFrameQueue),
                            !.loops = @ + 1]
  /\ UNCHANGED <<lm, map, gba>>

(***************************************************************************)
(* CorrectLoop                                                             *)
(***************************************************************************)
LCRequestStop ==
  /\ LCGoto("requestStop", "testGBA")
  /\ RequestStop
  /\ UNCHANGED <<map, mlpLoopKeyFrameQueue, gba>>

(* Fault: the running bundle adjustment is not looked for. *)
TestNothing ==
  /\ LCGoto("testGBA", "waitStop")
  /\ UNCHANGED <<lmVars, gba>>

(* isRunningGBA() *)
TestGBA ==
  /\ GBAIsFree
  /\ LCGoto("testGBA", IF lc.mbRunningGBA THEN "abortGBA" ELSE "waitStop")
  /\ UNCHANGED <<lmVars, gba>>

(* mnFullBAIdx++ on a bool: it becomes true and stays true. *)
BumpFullBAIdx(idx) == TRUE

WhenTold(g) == IF gba[g].pc = "start" THEN "early" ELSE "late"

AbortGBA ==
  /\ LCAt("abortGBA")
  /\ GBAIsFree
  /\ lc' = [lc EXCEPT !.pc          = "waitStop",
                      !.mbStopGBA   = TRUE,
                      !.mnFullBAIdx = BumpFullBAIdx(@)]
  /\ gba' = [ g \in GBAs |->
                IF g = lc.mpThreadGBA /\ gba[g].pc # "idle"
                THEN [gba[g] EXCEPT !.aborted = WhenTold(g)] ELSE gba[g] ]
  /\ UNCHANGED lmVars

WaitStop ==
  /\ IsStopped
  /\ LCGoto("waitStop", "lockMap")
  /\ UNCHANGED <<lmVars, gba>>

LCLockMap ==
  /\ LCGoto("lockMap", "correct")
  /\ LockMap(Closer)
  /\ UNCHANGED <<lm, mlpLoopKeyFrameQueue, gba>>

(* Poses and points around the current keyframe move under the map mutex. *)
LCUnlockMap ==
  /\ LCGoto("correct", "fuse")
  /\ UnlockMap(Closer)
  /\ UNCHANGED <<lm, mlpLoopKeyFrameQueue, gba>>

(* SearchAndFuse and OptimizeEssentialGraph lock the map mutex for each    *)
(* part of their writes.                                                   *)
FuseAndOptimise ==
  /\ MapIsFree
  /\ LCGoto("fuse", "launch")
  /\ UNCHANGED <<lmVars, gba>>

(* The flags of the next global bundle adjustment are written without      *)
(* mMutexGBA.                                                              *)
LaunchGBA ==
  /\ LCAt("launch")
  /\ lc' = [lc EXCEPT !.pc = "spawn", !.mbRunningGBA = TRUE,
                      !.mbFinishedGBA = FALSE]
  /\ UNCHANGED <<lmVars, gba>>

SpawnGBA ==
  /\ LCAt("spawn")
  /\ \E g \in GBAs :
       /\ gba[g].pc = "idle"
       /\ gba' = [gba EXCEPT ![g] = [pc |-> "start", idx |-> FALSE,
                                     aborted |-> "no"]]
       /\ lc' = [lc EXCEPT !.pc = "releaseLock", !.mbStopGBA = FALSE,
                           !.mpThreadGBA = g]
  /\ UNCHANGED lmVars

LCReleaseLock ==
  /\ LCGoto("releaseLock", "releaseFlags")
  /\ ReleaseLock(Closer)
  /\ UNCHANGED <<map, mlpLoopKeyFrameQueue, gba>>

LCReleaseFlags ==
  /\ LCGoto("releaseFlags", IF lm.mbFinished THEN "reset" ELSE "releaseClear")
  /\ ReleaseFlags(Closer)
  /\ UNCHANGED <<mlpLoopKeyFrameQueue, gba>>

LCReleaseClear ==
  /\ LCGoto("releaseClear", "reset")
  /\ ReleaseClear(Closer)
  /\ UNCHANGED <<map, mlpLoopKeyFrameQueue, gba>>

LCResetIfRequested ==
  /\ LCAt("reset")
  /\ lc' = [lc EXCEPT !.pc = "checkFinish", !.mbResetRequested = FALSE]
  /\ mlpLoopKeyFrameQueue' =
       IF lc.mbResetRequested THEN << >> ELSE mlpLoopKeyFrameQueue
  /\ UNCHANGED <<lm, map, gba>>

LCCheckFinish ==
  /\ LCGoto("checkFinish", IF lc.mbFinishRequested THEN "finish" ELSE "check")
  /\ UNCHANGED <<lmVars, gba>>

LCSetFinish ==
  /\ LCAt("finish")
  /\ lc' = [lc EXCEPT !.pc = "done", !.mbFinished = TRUE]
  /\ UNCHANGED <<lmVars, gba>>

LCStep ==
  \/ LCStart \/ LCCheckNewKeyFrames \/ DetectLoop
  \/ LCRequestStop \/ TestGBA \/ AbortGBA \/ WaitStop
  \/ LCLockMap \/ LCUnlockMap \/ FuseAndOptimise
  \/ LaunchGBA \/ SpawnGBA
  \/ LCReleaseLock \/ LCReleaseFlags \/ LCReleaseClear
  \/ LCResetIfRequested \/ LCCheckFinish \/ LCSetFinish

(***************************************************************************)
(* RunGlobalBundleAdjustment, one thread per slot.  A slot is free again   *)
(* when its thread has returned.                                           *)
(***************************************************************************)
GBAAt(g, pc) == gba[g].pc = pc

GBAGoto(g, from, to) ==
  /\ GBAAt(g, from)
  /\ gba' = [gba EXCEPT ![g].pc = to]

(* int idx = mnFullBAIdx, read without a lock when the thread gets to run. *)
GBAStart(g) ==
  /\ GBAAt(g, "start")
  /\ gba' = [gba EXCEPT ![g].pc = "optimise", ![g].idx = lc.mnFullBAIdx]
  /\ UNCHANGED <<lmVars, lc>>

(* The optimiser converges, or leaves early because it saw mbStopGBA. *)
GBAOptimise(g) ==
  /\ GBAGoto(g, "optimise", "lockGBA")
  /\ UNCHANGED <<lmVars, lc>>

(* Fault: the stop request is not looked at after the optimisation. *)
GBALockIgnoringStop(g) ==
  /\ GBAIsFree
  /\ GBAGoto(g, "lockGBA", "requestStop")
  /\ lc' = [lc EXCEPT !.mMutexGBA = g]
  /\ UNCHANGED lmVars

(* Under mMutexGBA: a stale index makes the thread return; a stop request  *)
(* makes it skip the update.                                               *)
GBALock(g) ==
  /\ GBAIsFree
  /\ IF gba[g].idx # lc.mnFullBAIdx
     THEN /\ GBAGoto(g, "lockGBA", "idle")
          /\ UNCHANGED lc
     ELSE /\ GBAGoto(g, "lockGBA",
                     IF lc.mbStopGBA THEN "finish" ELSE "requestStop")
          /\ lc' = [lc EXCEPT !.mMutexGBA = g]
  /\ UNCHANGED lmVars

GBARequestStop(g) ==
  /\ GBAGoto(g, "requestStop", "waitStop")
  /\ RequestStop
  /\ UNCHANGED <<map, mlpLoopKeyFrameQueue, lc>>

GBAWaitStop(g) ==
  /\ IsStopped \/ IsFinished
  /\ GBAGoto(g, "waitStop", "lockMap")
  /\ UNCHANGED <<lmVars, lc>>

GBALockMap(g) ==
  /\ GBAGoto(g, "lockMap", "update")
  /\ LockMap(g)
  /\ UNCHANGED <<lm, mlpLoopKeyFrameQueue, lc>>

(* The correction is propagated through the spanning tree and the points;  *)
(* Release is called with the map mutex still held.                        *)
GBAUpdate(g) ==
  /\ GBAGoto(g, "update", "releaseLock")
  /\ UNCHANGED <<lmVars, lc>>

GBAReleaseLock(g) ==
  /\ GBAGoto(g, "releaseLock", "releaseFlags")
  /\ ReleaseLock(g)
  /\ UNCHANGED <<map, mlpLoopKeyFrameQueue, lc>>

GBAReleaseFlags(g) ==
  /\ GBAGoto(g, "releaseFlags",
             IF lm.mbFinished THEN "finish" ELSE "releaseClear")
  /\ ReleaseFlags(g)
  /\ UNCHANGED <<mlpLoopKeyFrameQueue, lc>>

GBAReleaseClear(g) ==
  /\ GBAGoto(g, "releaseClear", "finish")
  /\ ReleaseClear(g)
  /\ UNCHANGED <<map, mlpLoopKeyFrameQueue, lc>>

(* End of the update block and of the thread: both mutexes are unlocked.   *)
GBAFinish(g) ==
  /\ GBAGoto(g, "finish", "idle")
  /\ lc' = [lc EXCEPT !.mbFinishedGBA = TRUE, !.mbRunningGBA = FALSE,
                      !.mMutexGBA = Nobody]
  /\ IF map.mMutexMapUpdate = g THEN UnlockMap(g) ELSE UNCHANGED map
  /\ UNCHANGED <<lm, mlpLoopKeyFrameQueue>>

GBAStep(g) ==
  \/ GBAStart(g) \/ GBAOptimise(g) \/ GBALock(g)
  \/ GBARequestStop(g) \/ GBAWaitStop(g) \/ GBALockMap(g) \/ GBAUpdate(g)
  \/ GBAReleaseLock(g) \/ GBAReleaseFlags(g) \/ GBAReleaseClear(g)
  \/ GBAFinish(g)

(* A global bundle adjustment thread that has not returned. *)
GBAAlive == { g \in GBAs : gba[g].pc # "idle" }

(* It is past the check of its index and is applying its result. *)
GBAApplying(g) ==
  gba[g].pc \in {"requestStop", "waitStop", "lockMap", "update",
                 "releaseLock", "releaseFlags", "releaseClear"}
============================================================================
