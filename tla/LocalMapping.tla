--------------------------- MODULE LocalMapping ---------------------------
(***************************************************************************)
(* The local-mapping thread (LocalMapping::Run) and the interface by which *)
(* the other threads stop, release, reset, finish and feed it              *)
(* (src/src/LocalMapping.cc).                                              *)
(*                                                                         *)
(* The fields of the record lm are the members of the class, plus the      *)
(* control point of the thread (pc) and the owners of the two mutexes that *)
(* are ever held together, mMutexStop and mMutexFinish.  A critical section*)
(* on a single mutex is one step; Release and SetFinish take one mutex     *)
(* after the other, so they are two steps or more.                         *)
(*                                                                         *)
(* LMSpec is the component with an open environment: the threads of        *)
(* Callers may use the interface in any order.  SlamSystem composes the    *)
(* same actions with the callers the program really has, and is checked to *)
(* implement LMSpec.                                                       *)
(***************************************************************************)
EXTENDS SlamMap, Sequences, FiniteSets

CONSTANTS
  Callers,      (* the threads that use the interface                      *)
  Mapper,       (* the local-mapping thread                                *)
  FewKeyFrames  (* no bundle adjustment of so few keyframes; 2 in the code *)

ASSUME ThreadsAssumption ==
  /\ Mapper \notin Callers
  /\ Nobody \notin Callers \cup {Mapper}

ASSUME FewAssumption == FewKeyFrames \in Nat

VARIABLES
  lm,                     (* the LocalMapping object and its thread        *)
  mlpLoopKeyFrameQueue    (* the queue the mapper fills for loop closing   *)

lmVars == <<lm, map, mlpLoopKeyFrameQueue>>

Threads == Callers \cup {Mapper}

LMControl == { "start", "setBusy", "check", "process", "fuse", "clearAbort",
               "checkQueue", "checkStop", "localBA", "optimise", "handOver",
               "tryStop", "stopped", "leaveStop", "reset", "setIdle",
               "checkFinish", "setFinished", "setStopped", "crashed", "done" }

LMType ==
  lm \in [ pc                 : LMControl,
           mbStopped          : BOOLEAN,
           mbStopRequested    : BOOLEAN,
           mbNotStop          : BOOLEAN,
           mbFinishRequested  : BOOLEAN,
           mbFinished         : BOOLEAN,
           mbResetRequested   : BOOLEAN,
           mbAcceptKeyFrames  : BOOLEAN,
           mbAbortBA          : BOOLEAN,
           mlNewKeyFrames     : Seq(KeyFrame),
           mpCurrentKeyFrame  : KeyFrame \cup {Nobody},
           mMutexStop         : Threads \cup {Nobody},
           mMutexFinish       : Threads \cup {Nobody} ]

(* Type correctness: every member of LocalMapping keeps its declared type, *)
(* the mutexes are owned by a thread or by nobody.                         *)
LMTypeOK ==
  /\ LMType
  /\ MapType(Threads)
  /\ mlpLoopKeyFrameQueue \in Seq(KeyFrame)

(* The constructor, before the thread runs: mbFinished is already true.    *)
LMInit ==
  /\ MapInit
  /\ mlpLoopKeyFrameQueue = << >>
  /\ lm = [ pc                |-> "start",
            mbStopped         |-> FALSE,
            mbStopRequested   |-> FALSE,
            mbNotStop         |-> FALSE,
            mbFinishRequested |-> FALSE,
            mbFinished        |-> TRUE,
            mbResetRequested  |-> FALSE,
            mbAcceptKeyFrames |-> TRUE,
            mbAbortBA         |-> FALSE,
            mlNewKeyFrames    |-> << >>,
            mpCurrentKeyFrame |-> Nobody,
            mMutexStop        |-> Nobody,
            mMutexFinish      |-> Nobody ]

(***************************************************************************)
(* The interface.  These actions say what a call does to lm (and, for      *)
(* Release, to the keyframes it destroys); the caller says what else       *)
(* changes.                                                                *)
(***************************************************************************)
StopIsFree   == lm.mMutexStop = Nobody
FinishIsFree == lm.mMutexFinish = Nobody

IsStopped  == StopIsFree /\ lm.mbStopped
IsFinished == FinishIsFree /\ lm.mbFinished

(* Fault: the stop request forgets to abort the bundle adjustment. *)
RequestStopWithoutAbort ==
  /\ StopIsFree
  /\ lm' = [lm EXCEPT !.mbStopRequested = TRUE]

(* RequestStop holds mMutexStop until it has also raised mbAbortBA. *)
RequestStop ==
  /\ StopIsFree
  /\ lm' = [lm EXCEPT !.mbStopRequested = TRUE, !.mbAbortBA = TRUE]

InsertKeyFrame(k) ==
  lm' = [lm EXCEPT !.mlNewKeyFrames = Append(@, k), !.mbAbortBA = TRUE]

InterruptBA == lm' = [lm EXCEPT !.mbAbortBA = TRUE]

(* SetNotStop(true) is refused when the mapper has stopped already; the    *)
(* caller reads the same mbStopped to learn the result.                    *)
SetNotStop(flag) ==
  /\ StopIsFree
  /\ lm' = IF flag /\ lm.mbStopped THEN lm ELSE [lm EXCEPT !.mbNotStop = flag]

RequestFinish ==
  /\ FinishIsFree
  /\ lm' = [lm EXCEPT !.mbFinishRequested = TRUE]

RequestReset == lm' = [lm EXCEPT !.mbResetRequested = TRUE]

QueuedKeyFrames ==
  { lm.mlNewKeyFrames[i] : i \in DOMAIN lm.mlNewKeyFrames }

(* Release, first step: lock mMutexStop. *)
ReleaseLock(t) ==
  /\ StopIsFree
  /\ lm' = [lm EXCEPT !.mMutexStop = t]

(* Release, second step: lock mMutexFinish; return if the thread has       *)
(* finished, otherwise reset the flags and destroy the queued keyframes.   *)
(* The queue is walked without mMutexNewKFs, so the thread may still pop   *)
(* from it, or the tracker push, before it is cleared.                     *)
ReleaseFlags(t) ==
  /\ lm.mMutexStop = t
  /\ FinishIsFree
  /\ IF lm.mbFinished
     THEN /\ lm' = [lm EXCEPT !.mMutexStop = Nobody]
          /\ UNCHANGED map
     ELSE /\ lm' = [lm EXCEPT !.mMutexFinish    = t,
                              !.mbStopped       = FALSE,
                              !.mbStopRequested = FALSE]
          /\ DeleteKeyFrames(QueuedKeyFrames)

(* Release, last step: clear the list and unlock both mutexes. *)
ReleaseClear(t) ==
  /\ lm.mMutexStop = t
  /\ lm.mMutexFinish = t
  /\ lm' = [lm EXCEPT !.mlNewKeyFrames = << >>,
                      !.mMutexStop     = Nobody,
                      !.mMutexFinish   = Nobody]

(***************************************************************************)
(* The thread, LocalMapping::Run.                                          *)
(***************************************************************************)
At(pc) == lm.pc = pc

Goto(from, to) ==
  /\ At(from)
  /\ lm' = [lm EXCEPT !.pc = to]

Start ==
  /\ At("start")
  /\ lm' = [lm EXCEPT !.pc = "setBusy", !.mbFinished = FALSE]
  /\ UNCHANGED <<map, mlpLoopKeyFrameQueue>>

SetBusy ==
  /\ At("setBusy")
  /\ lm' = [lm EXCEPT !.pc = "check", !.mbAcceptKeyFrames = FALSE]
  /\ UNCHANGED <<map, mlpLoopKeyFrameQueue>>

CheckNewKeyFrames ==
  /\ Goto("check", IF lm.mlNewKeyFrames # << >> THEN "process" ELSE "tryStop")
  /\ UNCHANGED <<map, mlpLoopKeyFrameQueue>>

(* Fault: pop_front is missing. *)
ProcessWithoutPop ==
  /\ At("process")
  /\ lm.mlNewKeyFrames # << >>
  /\ lm' = [lm EXCEPT !.pc = "fuse",
                      !.mpCurrentKeyFrame = Head(lm.mlNewKeyFrames)]
  /\ AddKeyFrame(Head(lm.mlNewKeyFrames))
  /\ UNCHANGED mlpLoopKeyFrameQueue

(* ProcessNewKeyFrame, MapPointCulling and CreateNewMapPoints: the oldest  *)
(* keyframe leaves the queue and enters the map.                           *)
ProcessNewKeyFrame ==
  /\ At("process")
  /\ lm.mlNewKeyFrames # << >>
  /\ lm' = [lm EXCEPT !.pc                = "fuse",
                      !.mpCurrentKeyFrame = Head(lm.mlNewKeyFrames),
                      !.mlNewKeyFrames    = Tail(lm.mlNewKeyFrames)]
  /\ AddKeyFrame(Head(lm.mlNewKeyFrames))
  /\ UNCHANGED mlpLoopKeyFrameQueue

(* front() of a list that a concurrent Release cleared after the check is  *)
(* undefined; the build dereferences a junk pointer.                       *)
ProcessNothing ==
  /\ lm.mlNewKeyFrames = << >>
  /\ Goto("process", "crashed")
  /\ UNCHANGED <<map, mlpLoopKeyFrameQueue>>

(* SearchInNeighbors runs only when no keyframe waits; it changes data the *)
(* model abstracts from.                                                   *)
SearchInNeighbors ==
  /\ Goto("fuse", "clearAbort")
  /\ UNCHANGED <<map, mlpLoopKeyFrameQueue>>

ClearAbort ==
  /\ At("clearAbort")
  /\ lm' = [lm EXCEPT !.pc = "checkQueue", !.mbAbortBA = FALSE]
  /\ UNCHANGED <<map, mlpLoopKeyFrameQueue>>

CheckQueueBeforeBA ==
  /\ Goto("checkQueue",
          IF lm.mlNewKeyFrames = << >> THEN "checkStop" ELSE "handOver")
  /\ UNCHANGED <<map, mlpLoopKeyFrameQueue>>

CheckStopBeforeBA ==
  /\ StopIsFree
  /\ Goto("checkStop", IF lm.mbStopRequested THEN "handOver" ELSE "localBA")
  /\ UNCHANGED <<map, mlpLoopKeyFrameQueue>>

(* LocalBundleAdjustment is left out in a small map, and returns when it   *)
(* finds mbAbortBA set before it optimises.                                *)
LocalBundleAdjustment ==
  /\ Goto("localBA",
          IF Cardinality(map.mspKeyFrames) <= FewKeyFrames \/ lm.mbAbortBA
          THEN "handOver" ELSE "optimise")
  /\ UNCHANGED <<map, mlpLoopKeyFrameQueue>>

(* The optimisation converges, or is cut short by mbAbortBA; either way it *)
(* ends by writing the poses under mMutexMapUpdate.  KeyFrameCulling       *)
(* follows.                                                                *)
RecoverOptimized ==
  /\ MapIsFree
  /\ Goto("optimise", "handOver")
  /\ UNCHANGED <<map, mlpLoopKeyFrameQueue>>

(* LoopClosing::InsertKeyFrame ignores the first keyframe of a map. *)
HandOver ==
  /\ Goto("handOver", "reset")
  /\ mlpLoopKeyFrameQueue' =
       IF lm.mpCurrentKeyFrame.mnId # 0
       THEN Append(mlpLoopKeyFrameQueue, lm.mpCurrentKeyFrame)
       ELSE mlpLoopKeyFrameQueue
  /\ UNCHANGED map

(* Fault: Stop does not look at mbNotStop. *)
StopIgnoringNotStop ==
  /\ At("tryStop")
  /\ StopIsFree
  /\ lm' = IF lm.mbStopRequested
           THEN [lm EXCEPT !.pc = "stopped", !.mbStopped = TRUE]
           ELSE [lm EXCEPT !.pc = "reset"]
  /\ UNCHANGED <<map, mlpLoopKeyFrameQueue>>

Stop ==
  /\ At("tryStop")
  /\ StopIsFree
  /\ lm' = IF lm.mbStopRequested /\ ~lm.mbNotStop
           THEN [lm EXCEPT !.pc = "stopped", !.mbStopped = TRUE]
           ELSE [lm EXCEPT !.pc = "reset"]
  /\ UNCHANGED <<map, mlpLoopKeyFrameQueue>>

(* Fault: the waiting loop does not look at the finish request. *)
ResumeIfReleased ==
  /\ StopIsFree
  /\ ~lm.mbStopped
  /\ Goto("stopped", "leaveStop")
  /\ UNCHANGED <<map, mlpLoopKeyFrameQueue>>

(* while(isStopped() && !CheckFinish()): left when released or finishing.  *)
Resume ==
  /\ StopIsFree
  /\ \/ ~lm.mbStopped
     \/ FinishIsFree /\ lm.mbFinishRequested
  /\ Goto("stopped", "leaveStop")
  /\ UNCHANGED <<map, mlpLoopKeyFrameQueue>>

(* Fault: no break after the waiting loop. *)
LeaveStopWithoutBreak ==
  /\ FinishIsFree
  /\ Goto("leaveStop", "reset")
  /\ UNCHANGED <<map, mlpLoopKeyFrameQueue>>

LeaveStop ==
  /\ FinishIsFree
  /\ Goto("leaveStop", IF lm.mbFinishRequested THEN "setFinished" ELSE "reset")
  /\ UNCHANGED <<map, mlpLoopKeyFrameQueue>>

(* Fault: the reset is never acknowledged. *)
ResetWithoutAnswer ==
  /\ At("reset")
  /\ lm' = [lm EXCEPT !.pc = "setIdle"]
  /\ UNCHANGED <<map, mlpLoopKeyFrameQueue>>

ResetIfRequested ==
  /\ At("reset")
  /\ lm' = IF lm.mbResetRequested
           THEN [lm EXCEPT !.pc               = "setIdle",
                           !.mlNewKeyFrames   = << >>,
                           !.mbResetRequested = FALSE]
           ELSE [lm EXCEPT !.pc = "setIdle"]
  /\ UNCHANGED <<map, mlpLoopKeyFrameQueue>>

SetIdle ==
  /\ At("setIdle")
  /\ lm' = [lm EXCEPT !.pc = "checkFinish", !.mbAcceptKeyFrames = TRUE]
  /\ UNCHANGED <<map, mlpLoopKeyFrameQueue>>

CheckFinish ==
  /\ FinishIsFree
  /\ Goto("checkFinish",
          IF lm.mbFinishRequested THEN "setFinished" ELSE "setBusy")
  /\ UNCHANGED <<map, mlpLoopKeyFrameQueue>>

(* SetFinish takes mMutexFinish and then mMutexStop, Release takes them in *)
(* the opposite order.                                                     *)
SetFinished ==
  /\ At("setFinished")
  /\ FinishIsFree
  /\ lm' = [lm EXCEPT !.pc           = "setStopped",
                      !.mbFinished   = TRUE,
                      !.mMutexFinish = Mapper]
  /\ UNCHANGED <<map, mlpLoopKeyFrameQueue>>

SetStopped ==
  /\ At("setStopped")
  /\ StopIsFree
  /\ lm' = [lm EXCEPT !.pc           = "done",
                      !.mbStopped    = TRUE,
                      !.mMutexFinish = Nobody]
  /\ UNCHANGED <<map, mlpLoopKeyFrameQueue>>

LMStep ==
  \/ Start \/ SetBusy \/ CheckNewKeyFrames
  \/ ProcessNewKeyFrame \/ ProcessNothing
  \/ SearchInNeighbors \/ ClearAbort
  \/ CheckQueueBeforeBA \/ CheckStopBeforeBA
  \/ LocalBundleAdjustment \/ RecoverOptimized \/ HandOver
  \/ Stop \/ Resume \/ LeaveStop
  \/ ResetIfRequested \/ SetIdle \/ CheckFinish
  \/ SetFinished \/ SetStopped

(***************************************************************************)
(* The open environment: what the other threads may do to the state this   *)
(* component shares with them.                                             *)
(***************************************************************************)

(* A keyframe is inserted once; the first one of a map is in the map       *)
(* already (StereoInitialization), the others enter it when processed.     *)
Fresh(k) ==
  /\ k \notin QueuedKeyFrames \cup map.deleted
  /\ k.mnId # 0 => k \notin map.mspKeyFrames

CallInsert ==
  /\ \E k \in KeyFrame : Fresh(k) /\ InsertKeyFrame(k)
  /\ UNCHANGED <<map, mlpLoopKeyFrameQueue>>

CallRequestStop   == RequestStop /\ UNCHANGED <<map, mlpLoopKeyFrameQueue>>
CallInterruptBA   == InterruptBA /\ UNCHANGED <<map, mlpLoopKeyFrameQueue>>
CallRequestFinish == RequestFinish /\ UNCHANGED <<map, mlpLoopKeyFrameQueue>>
CallRequestReset  == RequestReset /\ UNCHANGED <<map, mlpLoopKeyFrameQueue>>

CallSetNotStop ==
  /\ \E flag \in BOOLEAN : SetNotStop(flag)
  /\ UNCHANGED <<map, mlpLoopKeyFrameQueue>>

CallRelease(t) ==
  \/ ReleaseLock(t) /\ UNCHANGED <<map, mlpLoopKeyFrameQueue>>
  \/ ReleaseFlags(t) /\ UNCHANGED mlpLoopKeyFrameQueue
  \/ ReleaseClear(t) /\ UNCHANGED <<map, mlpLoopKeyFrameQueue>>

(* What the others do to the map: add the first keyframe, hold the map     *)
(* mutex, clear the map.                                                   *)
UseMap(t) ==
  /\ \/ \E k \in KeyFrame : k.mnId = 0 /\ AddKeyFrame(k)
     \/ LockMap(t)
     \/ UnlockMap(t)
     \/ ClearMap
  /\ UNCHANGED <<lm, mlpLoopKeyFrameQueue>>

(* Loop closing pops its queue, or clears it on a reset. *)
DrainLoopQueue ==
  /\ mlpLoopKeyFrameQueue # << >>
  /\ mlpLoopKeyFrameQueue' \in {Tail(mlpLoopKeyFrameQueue), << >>}
  /\ UNCHANGED <<lm, map>>

LMEnvironment ==
  \/ CallInsert \/ CallRequestStop \/ CallInterruptBA \/ CallSetNotStop
  \/ CallRequestFinish \/ CallRequestReset
  \/ \E t \in Callers : CallRelease(t) \/ UseMap(t)
  \/ DrainLoopQueue

LMNext == LMStep \/ LMEnvironment

LMSpec == LMInit /\ [][LMNext]_lmVars

(***************************************************************************)
(* Properties                                                              *)
(***************************************************************************)

(* Where the thread touches neither keyframes nor the map. *)
SafeArea == {"stopped", "leaveStop", "setFinished", "setStopped", "done"}

(* "Safe area to stop" (Run): whoever calls the interface, and in whatever *)
(* order, isStopped() is true only while the mapper is parked in its       *)
(* waiting loop or is on its way out of the thread.                        *)
StoppedIsSafe == lm.mbStopped => lm.pc \in SafeArea

(* A local bundle adjustment never runs on un-aborted while a stop is      *)
(* requested or a keyframe waits: although the thread lowers mbAbortBA     *)
(* without a lock, after other threads may have raised it, it checks the   *)
(* queue and the request afterwards.                                       *)
BAIsAborted ==
  /\ lm.pc \in {"localBA", "optimise"}
  /\ lm.mbStopRequested \/ lm.mlNewKeyFrames # << >>
  => lm.mbAbortBA

InProcess ==
  IF lm.pc \in {"fuse", "clearAbort", "checkQueue", "checkStop",
                "localBA", "optimise", "handOver"}
  THEN {lm.mpCurrentKeyFrame} ELSE {}

ForLoopClosing ==
  { mlpLoopKeyFrameQueue[i] : i \in DOMAIN mlpLoopKeyFrameQueue }

(* A keyframe is in one place of the pipeline: it waits once in the queue, *)
(* or it is being processed, or it waits once for loop closing.            *)
ProcessedOnce ==
  /\ Cardinality(QueuedKeyFrames) = Len(lm.mlNewKeyFrames)
  /\ Cardinality(ForLoopClosing) = Len(mlpLoopKeyFrameQueue)
  /\ InProcess \cap ForLoopClosing = {}
  /\ { k \in QueuedKeyFrames : k.mnId # 0 }
       \cap (InProcess \cup ForLoopClosing) = {}

(* Release resets the flags only of a mapper that has not finished, and    *)
(* never of one that is between its two locks: once mbFinished is set,     *)
(* isStopped() answers true for good as soon as the thread has ended, so a *)
(* thread that waits for the mapper to stop does not wait for ever.        *)
EndedMapperLooksStopped == At("done") => lm.mbFinished /\ lm.mbStopped
===========================================================================
