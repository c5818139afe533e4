------------------------- MODULE SlamSystem_proofs -------------------------
(***************************************************************************)
(* What holds of the SLAM core for any number of global-bundle-adjustment  *)
(* threads and any bounds: its types, that it implements the open          *)
(* specification of LocalMapping (so that what is proved there of any      *)
(* callers holds of the callers the program has), the tracker's right not  *)
(* to be stopped while it inserts, localization mode when no loop is       *)
(* closed, the shutdown, which bundle adjustments may apply their results  *)
(* and when, the correction of the first loop, and resets that leave no    *)
(* thread with a destroyed keyframe.                                       *)
(***************************************************************************)
EXTENDS SlamSystem, LocalMapping_proofs

(***************************************************************************)
(* The invariant.                                                          *)
(***************************************************************************)

(* Every keyframe the model has a record of. *)
Known == QueuedKeyFrames \cup map.mspKeyFrames \cup map.deleted

(* The identities handed out so far. *)
Born(k) ==
  \/ k.epoch < tr.epoch
  \/ k.epoch = tr.epoch /\ k.mnId < tr.nNextId

ControlInv ==
  /\ LCAt("detect") => mlpLoopKeyFrameQueue # << >>
  /\ sys.mbReset => tr.epoch < MaxEpoch
  /\ tr.pc \in {"resetLM", "resetLC", "clearMap"} => sys.mbReset
  /\ tr.mState = "NOT_INITIALIZED" /\ ~TRAt("insertFirst") => tr.nNextId = 0
  /\ TRAt("insertFirst") =>
       /\ tr.mState = "NOT_INITIALIZED"
       /\ tr.nNextId = 1
       /\ tr.mpReferenceKF = [epoch |-> tr.epoch, mnId |-> 0]
  /\ tr.pc \in {"needKeyFrame", "checkAccept", "interruptBA", "checkQueue",
                "setNotStop"} =>
       tr.mState = "OK" /\ tr.nNextId <= MaxId
  /\ TRAt("insert") => tr.mpReferenceKF \in KeyFrame

(* Identities are not used twice, and the keyframe about to be inserted    *)
(* has not been inserted before.                                           *)
IdentityInv ==
  /\ \A k \in Known : Born(k)
  /\ TRAt("insert") =>
       Born(tr.mpReferenceKF) /\ tr.mpReferenceKF \notin Known
  /\ TRAt("insertFirst") =>
       tr.mpReferenceKF \notin QueuedKeyFrames \cup map.deleted

SlamInv ==
  /\ LMTypeInv
  /\ LCType /\ GBAType /\ SysType /\ TRType /\ UIType
  /\ ControlInv
  /\ IdentityInv

(***************************************************************************)
(* What the actions of LocalMapping do to the queues and the keyframes.    *)
(***************************************************************************)

(* A step of the mapper only moves keyframes along. *)
LEMMA StepKeyFrames ==
  ASSUME LMTypeInv, LMStep
  PROVE  /\ Known' \subseteq Known
         /\ (QueuedKeyFrames \cup map.deleted)'
              \subseteq QueuedKeyFrames \cup map.deleted
         /\ mlpLoopKeyFrameQueue # << >> => mlpLoopKeyFrameQueue' # << >>
<1> USE DEF LMTypeInv, LMTypeOK, LMType, MapType, Known, QueuedKeyFrames,
            At, Goto
<1>1. CASE ProcessNewKeyFrame
  <2>1. \A i \in DOMAIN Tail(lm.mlNewKeyFrames) :
          /\ i + 1 \in DOMAIN lm.mlNewKeyFrames
          /\ Tail(lm.mlNewKeyFrames)[i] = lm.mlNewKeyFrames[i + 1]
    BY <1>1 DEF ProcessNewKeyFrame
  <2>2. /\ 1 \in DOMAIN lm.mlNewKeyFrames
        /\ Head(lm.mlNewKeyFrames) = lm.mlNewKeyFrames[1]
    BY <1>1 DEF ProcessNewKeyFrame
  <2>3. QueuedKeyFrames' \subseteq QueuedKeyFrames
    BY <1>1, <2>1 DEF ProcessNewKeyFrame
  <2>4. map'.mspKeyFrames \subseteq map.mspKeyFrames \cup QueuedKeyFrames
    BY <1>1, <2>2 DEF ProcessNewKeyFrame, AddKeyFrame
  <2>5. map'.deleted = map.deleted
    BY <1>1 DEF ProcessNewKeyFrame, AddKeyFrame
  <2>6. mlpLoopKeyFrameQueue' = mlpLoopKeyFrameQueue
    BY <1>1 DEF ProcessNewKeyFrame
  <2> HIDE DEF QueuedKeyFrames
  <2> QED BY <2>3, <2>4, <2>5, <2>6
<1>2. CASE HandOver
  <2>1. /\ lm'.mlNewKeyFrames = lm.mlNewKeyFrames
        /\ map' = map
    BY <1>2 DEF HandOver
  <2>2. ASSUME mlpLoopKeyFrameQueue # << >>
        PROVE  mlpLoopKeyFrameQueue' # << >>
    <3>1. CASE lm.mpCurrentKeyFrame.mnId # 0
      BY <1>2, <3>1 DEF HandOver, HasCurrent
    <3>2. CASE lm.mpCurrentKeyFrame.mnId = 0
      BY <1>2, <2>2, <3>2 DEF HandOver
    <3> QED BY <3>1, <3>2
  <2> QED BY <2>1, <2>2
<1>3. CASE ResetIfRequested
  <2>1. /\ map' = map
        /\ mlpLoopKeyFrameQueue' = mlpLoopKeyFrameQueue
    BY <1>3 DEF ResetIfRequested
  <2>2. lm'.mlNewKeyFrames \in {lm.mlNewKeyFrames, << >>}
    BY <1>3 DEF ResetIfRequested
  <2>3. QueuedKeyFrames' \subseteq QueuedKeyFrames
    BY <2>2
  <2> QED BY <2>1, <2>3
<1>4. CASE /\ lm'.mlNewKeyFrames = lm.mlNewKeyFrames
           /\ UNCHANGED <<map, mlpLoopKeyFrameQueue>>
  BY <1>4
<1>5. CASE Start BY <1>4, <1>5 DEF Start
<1>6. CASE SetBusy BY <1>4, <1>6 DEF SetBusy
<1>7. CASE CheckNewKeyFrames BY <1>4, <1>7 DEF CheckNewKeyFrames
<1>8. CASE ProcessNothing BY <1>4, <1>8 DEF ProcessNothing
<1>9. CASE SearchInNeighbors BY <1>4, <1>9 DEF SearchInNeighbors
<1>10. CASE ClearAbort BY <1>4, <1>10 DEF ClearAbort
<1>11. CASE CheckQueueBeforeBA BY <1>4, <1>11 DEF CheckQueueBeforeBA
<1>12. CASE CheckStopBeforeBA BY <1>4, <1>12 DEF CheckStopBeforeBA
<1>13. CASE LocalBundleAdjustment BY <1>4, <1>13 DEF LocalBundleAdjustment
<1>21. CASE RecoverOptimized BY <1>4, <1>21 DEF RecoverOptimized
<1>14. CASE Stop BY <1>4, <1>14 DEF Stop
<1>15. CASE Resume BY <1>4, <1>15 DEF Resume
<1>16. CASE LeaveStop BY <1>4, <1>16 DEF LeaveStop
<1>17. CASE SetIdle BY <1>4, <1>17 DEF SetIdle
<1>18. CASE CheckFinish BY <1>4, <1>18 DEF CheckFinish
<1>19. CASE SetFinished BY <1>4, <1>19 DEF SetFinished
<1>20. CASE SetStopped BY <1>4, <1>20 DEF SetStopped
<1> QED
  BY <1>1, <1>2, <1>3, <1>4, <1>5, <1>6, <1>7, <1>8, <1>9, <1>10, <1>11,
     <1>12, <1>13, <1>14, <1>15, <1>16, <1>17, <1>18, <1>19, <1>20, <1>21
     DEF LMStep

(* So does Release. *)
LEMMA ReleaseKeyFrames ==
  ASSUME LMTypeInv, NEW t, CallRelease(t)
  PROVE  /\ Known' \subseteq Known
         /\ (QueuedKeyFrames \cup map.deleted)'
              \subseteq QueuedKeyFrames \cup map.deleted
         /\ mlpLoopKeyFrameQueue' = mlpLoopKeyFrameQueue
<1> USE DEF LMTypeInv, LMTypeOK, LMType, MapType, Known
<1>1. CASE ReleaseLock(t) /\ UNCHANGED <<map, mlpLoopKeyFrameQueue>>
  BY <1>1 DEF ReleaseLock, QueuedKeyFrames
<1>2. CASE ReleaseFlags(t) /\ UNCHANGED mlpLoopKeyFrameQueue
  <2>1. QueuedKeyFrames' = QueuedKeyFrames
    <3>1. CASE lm.mbFinished BY <1>2, <3>1 DEF ReleaseFlags, QueuedKeyFrames
    <3>2. CASE ~lm.mbFinished
      <4>1. lm' = [lm EXCEPT !.mMutexFinish    = t,
                             !.mbStopped       = FALSE,
                             !.mbStopRequested = FALSE]
        BY <1>2, <3>2 DEF ReleaseFlags
      <4>2. lm'.mlNewKeyFrames = lm.mlNewKeyFrames
        BY <4>1
      <4> QED BY <4>2 DEF QueuedKeyFrames
    <3> QED BY <3>1, <3>2
  <2>2. /\ map'.mspKeyFrames = map.mspKeyFrames
        /\ map'.deleted \subseteq map.deleted \cup QueuedKeyFrames
    BY <1>2 DEF ReleaseFlags, DeleteKeyFrames
  <2> QED BY <1>2, <2>1, <2>2
<1>3. CASE ReleaseClear(t) /\ UNCHANGED <<map, mlpLoopKeyFrameQueue>>
  <2>1. QueuedKeyFrames' = {}
    BY <1>3 DEF ReleaseClear, QueuedKeyFrames
  <2> QED BY <1>3, <2>1
<1> QED BY <1>1, <1>2, <1>3 DEF CallRelease
(***************************************************************************)
(* The steps of each thread preserve the invariant, and are steps that the *)
(* open specification of LocalMapping allows.                              *)
(***************************************************************************)
MapperOrStutter == LMNext \/ UNCHANGED lmVars

(* What the other threads may do to the mapper.                            *)
EnvironmentOrStutter == LMEnvironment \/ UNCHANGED lmVars

(* The types of LocalMapping, from its own proofs. *)
LEMMA OpenTypes ==
  ASSUME LMTypeInv, MapperOrStutter
  PROVE  LMTypeInv'
<1>1. CASE UNCHANGED lmVars
  BY <1>1 DEF lmVars, LMTypeInv, HasCurrent, LMTypeOK, LMType, MapType
<1> QED BY <1>1, StepType, EnvironmentType DEF MapperOrStutter, LMNext

(* The threads of the system are callers of LocalMapping. *)
LEMMA SystemCallers ==
  /\ Main \in Callers
  /\ Closer \in Callers
  /\ \A g \in GBAs : g \in Callers
BY SystemAssumption

(* IdentityInv depends on what is known and on the tracker. *)
LEMMA IdentityKept ==
  ASSUME IdentityInv, UNCHANGED tr,
         Known' \subseteq Known,
         (QueuedKeyFrames \cup map.deleted)'
           \subseteq QueuedKeyFrames \cup map.deleted
  PROVE  IdentityInv'
<1>1. \A k : Born(k)' <=> Born(k)
  BY DEF Born
<1>2. \A k \in Known' : Born(k)'
  BY <1>1 DEF IdentityInv
<1> QED BY <1>1, <1>2 DEF IdentityInv, TRAt

(* Steps of the mapper. *)
LEMMA MapperKeeps ==
  ASSUME SlamInv, MapperStep
  PROVE  SlamInv' /\ MapperOrStutter
<1>1. MapperOrStutter
  BY DEF MapperStep, MapperOrStutter, LMNext
<1>2. LMTypeInv'
  BY <1>1, OpenTypes DEF SlamInv
<1>3. LCType' /\ GBAType' /\ SysType' /\ TRType' /\ UIType'
  BY DEF SlamInv, MapperStep, loopVars, LCType, GBAType, SysType, TRType,
         UIType
<1>4. ControlInv'
  BY StepKeyFrames
     DEF SlamInv, ControlInv, MapperStep, loopVars, LCAt, TRAt
<1>5. IdentityInv'
  BY StepKeyFrames, IdentityKept DEF SlamInv, MapperStep
<1> QED BY <1>1, <1>2, <1>3, <1>4, <1>5 DEF SlamInv
(* Steps of the loop closer: what it does to LocalMapping is a stop        *)
(* request, a Release, a use of the map or a use of its own queue.         *)
LEMMA CloserOpen ==
  ASSUME SlamInv, CloserStep
  PROVE  EnvironmentOrStutter
<1> USE SystemCallers
    DEF EnvironmentOrStutter, LMEnvironment, lmVars
<1>1. CASE LCRequestStop BY <1>1 DEF LCRequestStop, CallRequestStop
<1>2. CASE LCLockMap BY <1>2 DEF LCLockMap, UseMap
<1>3. CASE LCUnlockMap BY <1>3 DEF LCUnlockMap, UseMap
<1>4. CASE LCReleaseLock BY <1>4 DEF LCReleaseLock, CallRelease
<1>5. CASE LCReleaseFlags BY <1>5 DEF LCReleaseFlags, CallRelease
<1>6. CASE LCReleaseClear BY <1>6 DEF LCReleaseClear, CallRelease
<1>7. CASE DetectLoop
  <2>1. mlpLoopKeyFrameQueue # << >>
    BY <1>7 DEF DetectLoop, SlamInv, ControlInv
  <2> QED BY <1>7, <2>1 DEF DetectLoop, DrainLoopQueue
<1>8. CASE LCResetIfRequested
  <2>1. CASE mlpLoopKeyFrameQueue = << >>
    BY <1>8, <2>1 DEF LCResetIfRequested
  <2>2. CASE mlpLoopKeyFrameQueue # << >>
    BY <1>8, <2>2 DEF LCResetIfRequested, DrainLoopQueue
  <2> QED BY <2>1, <2>2
<1>9. CASE UNCHANGED lmVars
  BY <1>9
<1> QED
  BY <1>1, <1>2, <1>3, <1>4, <1>5, <1>6, <1>7, <1>8, <1>9
     DEF CloserStep, LCStep, LCStart, LCCheckNewKeyFrames, TestGBA, AbortGBA,
         WaitStop, FuseAndOptimise, LaunchGBA, SpawnGBA, LCCheckFinish,
         LCSetFinish

(* They keep the types of lc and gba. *)
LEMMA CloserTypes ==
  ASSUME SlamInv, CloserStep
  PROVE  LCType' /\ GBAType'
<1> USE LoopThreadsAssumption
    DEF SlamInv, LCType, GBAType, LCControl, GBAControl, LCAt, LCGoto
<1>1. CASE LCStart BY <1>1 DEF LCStart
<1>2. CASE LCCheckNewKeyFrames BY <1>2 DEF LCCheckNewKeyFrames
<1>3. CASE DetectLoop
  <2>1. Head(mlpLoopKeyFrameQueue) \in KeyFrame
    BY <1>3 DEF DetectLoop, ControlInv, LMTypeInv, LMTypeOK
  <2>2. CASE lc' = [lc EXCEPT !.pc = "reset",
                              !.mpCurrentKF = Head(mlpLoopKeyFrameQueue)]
    BY <1>3, <2>1, <2>2 DEF DetectLoop
  <2>3. CASE /\ lc.loops < MaxLoops
             /\ lc' = [lc EXCEPT !.pc = "requestStop",
                                 !.mpCurrentKF = Head(mlpLoopKeyFrameQueue),
                                 !.loops = @ + 1]
    <3>1. lc.loops + 1 \in 0 .. MaxLoops BY <2>3
    <3> QED BY <1>3, <2>1, <2>3, <3>1 DEF DetectLoop
  <2> QED BY <1>3, <2>2, <2>3 DEF DetectLoop
<1>4. CASE LCRequestStop BY <1>4 DEF LCRequestStop
<1>5. CASE TestGBA BY <1>5 DEF TestGBA
<1>6. CASE AbortGBA
  <2>1. LCType'
    BY <1>6 DEF AbortGBA, BumpFullBAIdx
  <2>2. GBAType'
    <3> DEFINE S == [pc : GBAControl, idx : BOOLEAN, aborted : Aborted]
               F(g) == IF g = lc.mpThreadGBA /\ gba[g].pc # "idle"
                       THEN [gba[g] EXCEPT !.aborted = WhenTold(g)]
                       ELSE gba[g]
    <3>1. ASSUME NEW g \in GBAs
          PROVE  F(g) \in S
      <4>1. gba[g] \in S OBVIOUS
      <4>2. WhenTold(g) \in Aborted BY DEF WhenTold, Aborted
      <4>3. [gba[g] EXCEPT !.aborted = WhenTold(g)] \in S BY <4>1, <4>2
      <4> QED BY <4>1, <4>3
    <3>2. gba' = [g \in GBAs |-> F(g)]
      BY <1>6 DEF AbortGBA
    <3> HIDE DEF F, S
    <3>3. gba' \in [GBAs -> S]
      BY <3>1, <3>2
    <3> QED BY <3>3 DEF S
  <2> QED BY <1>6, <2>1, <2>2 DEF AbortGBA
<1>7. CASE WaitStop BY <1>7 DEF WaitStop
<1>8. CASE LCLockMap BY <1>8 DEF LCLockMap
<1>9. CASE LCUnlockMap BY <1>9 DEF LCUnlockMap
<1>10. CASE FuseAndOptimise BY <1>10 DEF FuseAndOptimise
<1>11. CASE LaunchGBA BY <1>11 DEF LaunchGBA
<1>12. CASE SpawnGBA
  <2>1. PICK g \in GBAs :
          /\ gba' = [gba EXCEPT ![g] = [pc |-> "start", idx |-> FALSE,
                                        aborted |-> "no"]]
          /\ lc' = [lc EXCEPT !.pc = "releaseLock", !.mbStopGBA = FALSE,
                              !.mpThreadGBA = g]
    BY <1>12 DEF SpawnGBA
  <2>2. LCType' BY <2>1
  <2>3. GBAType' BY <2>1 DEF Aborted
  <2> QED BY <2>2, <2>3
<1>13. CASE LCReleaseLock BY <1>13 DEF LCReleaseLock
<1>14. CASE LCReleaseFlags BY <1>14 DEF LCReleaseFlags
<1>15. CASE LCReleaseClear BY <1>15 DEF LCReleaseClear
<1>16. CASE LCResetIfRequested BY <1>16 DEF LCResetIfRequested
<1>17. CASE LCCheckFinish BY <1>17 DEF LCCheckFinish
<1>18. CASE LCSetFinish BY <1>18 DEF LCSetFinish
<1> QED
  BY <1>1, <1>2, <1>3, <1>4, <1>5, <1>6, <1>7, <1>8, <1>9, <1>10,
     <1>11, <1>12, <1>13, <1>14, <1>15, <1>16, <1>17, <1>18
     DEF CloserStep, LCStep

(* They invent no keyframe, and after "detect" the queue may be empty. *)
LEMMA CloserKeyFrames ==
  ASSUME SlamInv, CloserStep
  PROVE  /\ Known' \subseteq Known
         /\ (QueuedKeyFrames \cup map.deleted)'
              \subseteq QueuedKeyFrames \cup map.deleted
         /\ LCAt("detect")' => mlpLoopKeyFrameQueue' # << >>
<1> USE DEF SlamInv, LMTypeInv, LMTypeOK, LMType, MapType, Known,
            LCType, LCAt, LCGoto
<1>1. CASE CallRelease(Closer) /\ lc'.pc # "detect"
  BY <1>1, ReleaseKeyFrames
<1>2. CASE /\ lm'.mlNewKeyFrames = lm.mlNewKeyFrames
           /\ map'.mspKeyFrames = map.mspKeyFrames
           /\ map'.deleted = map.deleted
           /\ lc'.pc # "detect"
  BY <1>2 DEF QueuedKeyFrames
<1>3. CASE LCCheckNewKeyFrames
  BY <1>3 DEF LCCheckNewKeyFrames, lmVars, QueuedKeyFrames
<1>4. CASE LCReleaseLock \/ LCReleaseFlags \/ LCReleaseClear
  BY <1>1, <1>4
     DEF LCReleaseLock, LCReleaseFlags, LCReleaseClear, CallRelease
<1>5. CASE LCLockMap \/ LCUnlockMap
  BY <1>2, <1>5 DEF LCLockMap, LCUnlockMap, LockMap, UnlockMap
<1>6. CASE LCRequestStop
  BY <1>2, <1>6 DEF LCRequestStop, RequestStop
<1>7. CASE UNCHANGED <<lm, map>> /\ lc'.pc # "detect"
  BY <1>2, <1>7
<1>8. CASE LCStart \/ DetectLoop \/ TestGBA \/ AbortGBA \/ WaitStop
  BY <1>7, <1>8
     DEF LCStart, DetectLoop, TestGBA, AbortGBA, WaitStop, lmVars
<1>9. CASE \/ FuseAndOptimise \/ LaunchGBA \/ SpawnGBA
           \/ LCResetIfRequested \/ LCCheckFinish \/ LCSetFinish
  BY <1>7, <1>9
     DEF FuseAndOptimise, LaunchGBA, SpawnGBA, LCResetIfRequested,
         LCCheckFinish, LCSetFinish, lmVars
<1> QED
  BY <1>3, <1>4, <1>5, <1>6, <1>8, <1>9 DEF CloserStep, LCStep

(* Together. *)
LEMMA CloserKeeps ==
  ASSUME SlamInv, CloserStep
  PROVE  SlamInv' /\ MapperOrStutter
<1>0. MapperOrStutter
  BY CloserOpen DEF EnvironmentOrStutter, MapperOrStutter, LMNext
<1>1. LMTypeInv'
  BY <1>0, OpenTypes DEF SlamInv
<1>2. SysType' /\ TRType' /\ UIType'
  BY DEF SlamInv, CloserStep, SysType, TRType, UIType
<1>3. ControlInv'
  BY CloserKeyFrames DEF SlamInv, ControlInv, CloserStep, TRAt
<1>4. IdentityInv'
  BY CloserKeyFrames, IdentityKept DEF SlamInv, CloserStep
<1> QED BY <1>0, <1>1, <1>2, <1>3, <1>4, CloserTypes DEF SlamInv
(* Steps of a global-bundle-adjustment thread. *)
LEMMA GBAOpen ==
  ASSUME SlamInv, NEW g \in GBAs, GBAThreadStep(g)
  PROVE  EnvironmentOrStutter
<1> USE SystemCallers
    DEF EnvironmentOrStutter, LMEnvironment, lmVars
<1>1. CASE GBARequestStop(g) BY <1>1 DEF GBARequestStop, CallRequestStop
<1>2. CASE GBALockMap(g) BY <1>2 DEF GBALockMap, UseMap
<1>3. CASE GBAReleaseLock(g) BY <1>3 DEF GBAReleaseLock, CallRelease
<1>4. CASE GBAReleaseFlags(g) BY <1>4 DEF GBAReleaseFlags, CallRelease
<1>5. CASE GBAReleaseClear(g) BY <1>5 DEF GBAReleaseClear, CallRelease
<1>6. CASE GBAFinish(g)
  <2>1. CASE map.mMutexMapUpdate = g
    BY <1>6, <2>1 DEF GBAFinish, UseMap
  <2>2. CASE map.mMutexMapUpdate # g
    BY <1>6, <2>2 DEF GBAFinish
  <2> QED BY <2>1, <2>2
<1>7. CASE UNCHANGED lmVars
  BY <1>7
<1> QED
  BY <1>1, <1>2, <1>3, <1>4, <1>5, <1>6, <1>7
     DEF GBAThreadStep, GBAStep, GBAStart, GBAOptimise, GBALock,
         GBAWaitStop, GBAUpdate

(* They keep the types of lc and gba, and leave the closer where it is. *)
LEMMA GBATypes ==
  ASSUME SlamInv, NEW g \in GBAs, GBAThreadStep(g)
  PROVE  LCType' /\ GBAType' /\ lc'.pc = lc.pc
<1> USE SystemCallers
    DEF SlamInv, LCType, GBAType, LCControl, GBAControl, GBAAt, GBAGoto
<1>1. CASE GBAStart(g)
  <2>1. lc.mnFullBAIdx \in BOOLEAN OBVIOUS
  <2>2. gba' = [gba EXCEPT ![g] = [@ EXCEPT !.pc = "optimise",
                                            !.idx = lc.mnFullBAIdx]]
    BY <1>1 DEF GBAStart
  <2>3. GBAType' BY <2>1, <2>2
  <2> QED BY <1>1, <2>3 DEF GBAStart
<1>2. CASE GBAOptimise(g) BY <1>2 DEF GBAOptimise
<1>3. CASE GBALock(g)
  <2>1. GBAType' BY <1>3 DEF GBALock
  <2>2. LCType' /\ lc'.pc = lc.pc BY <1>3 DEF GBALock
  <2> QED BY <2>1, <2>2
<1>4. CASE GBARequestStop(g) BY <1>4 DEF GBARequestStop
<1>5. CASE GBAWaitStop(g) BY <1>5 DEF GBAWaitStop
<1>6. CASE GBALockMap(g) BY <1>6 DEF GBALockMap
<1>7. CASE GBAUpdate(g) BY <1>7 DEF GBAUpdate
<1>8. CASE GBAReleaseLock(g) BY <1>8 DEF GBAReleaseLock
<1>9. CASE GBAReleaseFlags(g) BY <1>9 DEF GBAReleaseFlags
<1>10. CASE GBAReleaseClear(g) BY <1>10 DEF GBAReleaseClear
<1>11. CASE GBAFinish(g) BY <1>11 DEF GBAFinish
<1> QED
  BY <1>1, <1>2, <1>3, <1>4, <1>5, <1>6, <1>7, <1>8, <1>9, <1>10, <1>11
     DEF GBAThreadStep, GBAStep

(* They invent no keyframe and leave the closer's queue alone. *)
LEMMA GBAKeyFrames ==
  ASSUME SlamInv, NEW g \in GBAs, GBAThreadStep(g)
  PROVE  /\ Known' \subseteq Known
         /\ (QueuedKeyFrames \cup map.deleted)'
              \subseteq QueuedKeyFrames \cup map.deleted
         /\ mlpLoopKeyFrameQueue' = mlpLoopKeyFrameQueue
<1> USE DEF SlamInv, LMTypeInv, LMTypeOK, LMType, MapType, Known
<1>1. CASE CallRelease(g)
  BY <1>1, ReleaseKeyFrames
<1>2. CASE /\ lm'.mlNewKeyFrames = lm.mlNewKeyFrames
           /\ map'.mspKeyFrames = map.mspKeyFrames
           /\ map'.deleted = map.deleted
           /\ mlpLoopKeyFrameQueue' = mlpLoopKeyFrameQueue
  BY <1>2 DEF QueuedKeyFrames
<1>3. CASE GBAReleaseLock(g) \/ GBAReleaseFlags(g) \/ GBAReleaseClear(g)
  BY <1>1, <1>3
     DEF GBAReleaseLock, GBAReleaseFlags, GBAReleaseClear, CallRelease
<1>4. CASE GBALockMap(g) \/ GBAFinish(g)
  BY <1>2, <1>4 DEF GBALockMap, GBAFinish, LockMap, UnlockMap
<1>5. CASE GBARequestStop(g)
  BY <1>2, <1>5 DEF GBARequestStop, RequestStop
<1>6. CASE UNCHANGED lmVars
  BY <1>2, <1>6 DEF lmVars
<1> QED
  BY <1>3, <1>4, <1>5, <1>6
     DEF GBAThreadStep, GBAStep, GBAStart, GBAOptimise, GBALock,
         GBAWaitStop, GBAUpdate

(* Together. *)
LEMMA GBAKeeps ==
  ASSUME SlamInv, NEW g \in GBAs, GBAThreadStep(g)
  PROVE  SlamInv' /\ MapperOrStutter
<1>0. MapperOrStutter
  BY GBAOpen DEF EnvironmentOrStutter, MapperOrStutter, LMNext
<1>1. LMTypeInv'
  BY <1>0, OpenTypes DEF SlamInv
<1>2. SysType' /\ TRType' /\ UIType'
  BY DEF SlamInv, GBAThreadStep, SysType, TRType, UIType
<1>3. ControlInv'
  BY GBAKeyFrames, GBATypes
     DEF SlamInv, ControlInv, GBAThreadStep, TRAt, LCAt
<1>4. IdentityInv'
  BY GBAKeyFrames, IdentityKept DEF SlamInv, GBAThreadStep
<1> QED BY <1>0, <1>1, <1>2, <1>3, <1>4, GBATypes DEF SlamInv

(* Steps of the application thread. *)
LEMMA UIKeeps ==
  ASSUME SlamInv, UIStep
  PROVE  SlamInv' /\ MapperOrStutter
<1>1. UNCHANGED <<lmVars, loopVars, tr>>
  BY DEF UIStep, ActivateLocalizationMode, DeactivateLocalizationMode, Reset
<1>2. MapperOrStutter
  BY <1>1 DEF MapperOrStutter
<1>3. LMTypeInv'
  BY <1>2, OpenTypes DEF SlamInv
<1>4. LCType' /\ GBAType' /\ TRType'
  BY <1>1 DEF SlamInv, loopVars, LCType, GBAType, TRType
<1>5. /\ SysType' /\ UIType'
      /\ sys'.mbReset => sys.mbReset \/ tr.epoch < MaxEpoch
      /\ sys.mbReset => sys'.mbReset
  <2> USE SystemAssumption DEF SlamInv, SysType, UIType
  <2>0. ui.toggles < MaxToggles => ui.toggles + 1 \in 0 .. MaxToggles
    OBVIOUS
  <2>1. CASE ActivateLocalizationMode
    <3>1. UIType' BY <2>0, <2>1 DEF ActivateLocalizationMode
    <3>2. SysType' /\ sys'.mbReset = sys.mbReset
      BY <2>1 DEF ActivateLocalizationMode
    <3> QED BY <3>1, <3>2
  <2>2. CASE DeactivateLocalizationMode
    <3>1. UIType' BY <2>0, <2>2 DEF DeactivateLocalizationMode
    <3>2. SysType' /\ sys'.mbReset = sys.mbReset
      BY <2>2 DEF DeactivateLocalizationMode
    <3> QED BY <3>1, <3>2
  <2>3. CASE Reset BY <2>3 DEF Reset
  <2> QED BY <2>1, <2>2, <2>3 DEF UIStep
<1>6. ControlInv'
  BY <1>1, <1>5 DEF SlamInv, ControlInv, TRAt, LCAt, lmVars, loopVars
<1>7. IdentityInv'
  BY <1>1, IdentityKept DEF SlamInv, lmVars, Known, QueuedKeyFrames
<1> QED BY <1>2, <1>3, <1>4, <1>5, <1>6, <1>7 DEF SlamInv
(* Steps of the caller's thread.  Only CreateFirst, CreateNewKeyFrame and  *)
(* ClearAll touch identities.                                              *)
LEMMA MainOpen ==
  ASSUME SlamInv, MainStep
  PROVE  EnvironmentOrStutter
<1> USE SystemCallers
    DEF EnvironmentOrStutter, LMEnvironment, lmVars
<1>1. CASE CheckMode
  <2>1. CASE RequestStop
    BY <1>1, <2>1 DEF CheckMode, CallRequestStop
  <2>2. CASE UNCHANGED lm
    BY <1>1, <2>2 DEF CheckMode
  <2> QED BY <1>1, <2>1, <2>2 DEF CheckMode
<1>2. CASE TRReleaseLock BY <1>2 DEF TRReleaseLock, CallRelease
<1>3. CASE TRReleaseFlags BY <1>3 DEF TRReleaseFlags, CallRelease
<1>4. CASE TRReleaseClear BY <1>4 DEF TRReleaseClear, CallRelease
<1>5. CASE CheckReset
  <2>1. CASE sys.mbReset BY <1>5, <2>1 DEF CheckReset, CallRequestReset
  <2>2. CASE ~sys.mbReset BY <1>5, <2>2 DEF CheckReset
  <2> QED BY <2>1, <2>2
<1>6. CASE ClearAll BY <1>6 DEF ClearAll, UseMap
<1>7. CASE BeginTrack BY <1>7 DEF BeginTrack, UseMap
<1>8. CASE CreateFirst
  <2>1. NextKeyFrame \in KeyFrame /\ NextKeyFrame.mnId = 0
    BY <1>8, BoundsAssumption
       DEF CreateFirst, NextKeyFrame, KeyFrame, SlamInv, ControlInv, TRType,
           TRAt
  <2>2. UseMap(Main)
    BY <1>8, <2>1 DEF CreateFirst, UseMap
  <2> QED BY <2>2
<1>9. CASE InsertFirst
  <2>1. tr.mpReferenceKF \in KeyFrame /\ tr.mpReferenceKF.mnId = 0
    BY <1>9, BoundsAssumption
       DEF InsertFirst, KeyFrame, SlamInv, ControlInv, TRType, TRAt
  <2>2. Fresh(tr.mpReferenceKF)
    BY <1>9, <2>1 DEF InsertFirst, Fresh, SlamInv, IdentityInv
  <2>3. CallInsert
    BY <1>9, <2>1, <2>2 DEF InsertFirst, CallInsert
  <2> QED BY <2>3
<1>10. CASE InterruptMapper
  BY <1>10 DEF InterruptMapper, CallInterruptBA
<1>11. CASE CreateNewKeyFrame BY <1>11 DEF CreateNewKeyFrame, CallSetNotStop
<1>12. CASE InsertNew
  <2>1. tr.mpReferenceKF \in KeyFrame
    BY <1>12 DEF InsertNew, TRGoto, SlamInv, ControlInv
  <2>2. Fresh(tr.mpReferenceKF)
    BY <1>12, <2>1 DEF InsertNew, TRGoto, Fresh, SlamInv, IdentityInv, Known
  <2>3. CallInsert
    BY <1>12, <2>1, <2>2 DEF InsertNew, CallInsert
  <2> QED BY <2>3
<1>13. CASE ClearNotStop BY <1>13 DEF ClearNotStop, CallSetNotStop
<1>14. CASE EndTrack BY <1>14 DEF EndTrack, UseMap
<1>15. CASE Shutdown BY <1>15 DEF Shutdown, CallRequestFinish
<1>16. CASE UNCHANGED lmVars
  BY <1>16
<1> QED
  BY <1>1, <1>2, <1>3, <1>4, <1>5, <1>6, <1>7, <1>8, <1>9, <1>10, <1>11,
     <1>12, <1>13, <1>14, <1>15, <1>16
     DEF MainStep, EnterLocalization, LeaveLocalization, MapperIsReset,
         CloserIsReset, TrackOnly, TrackLost, ConsiderKeyFrame,
         NeedNewKeyFrame, CheckAccept, CheckQueue, ShutdownCloser,
         MapperHasFinished, CloserHasFinished, NoGBAIsRunning
(* They keep the types and the control invariant of the tracker. *)
LEMMA MainTracker ==
  ASSUME SlamInv, MainStep
  PROVE  TRType' /\ SysType' /\ ControlInv'
<1> USE BoundsAssumption
    DEF SlamInv, TRType, TRControl, SysType, ControlInv, LCType,
        TRAt, TRGoto, LCAt, lmVars, loopVars
<1>1. CASE CheckMode BY <1>1 DEF CheckMode
<1>2. CASE EnterLocalization BY <1>2 DEF EnterLocalization
<1>3. CASE LeaveLocalization
  <2>1. /\ \/ tr' = [tr EXCEPT !.pc = "releaseLock", !.mbOnlyTracking = FALSE]
           \/ tr' = [tr EXCEPT !.pc = "checkReset"]
        /\ UNCHANGED <<sys, lc, mlpLoopKeyFrameQueue>>
    BY <1>3 DEF LeaveLocalization
  <2>2. TRType'
    <3>1. CASE tr' = [tr EXCEPT !.pc = "releaseLock", !.mbOnlyTracking = FALSE]
      BY <3>1
    <3>2. CASE tr' = [tr EXCEPT !.pc = "checkReset"]
      BY <3>2
    <3> QED BY <2>1, <3>1, <3>2
  <2>3. SysType' BY <2>1
  <2>4. ControlInv' BY <1>3, <2>1 DEF LeaveLocalization
  <2> QED BY <2>2, <2>3, <2>4
<1>4. CASE TRReleaseLock BY <1>4 DEF TRReleaseLock
<1>5. CASE TRReleaseFlags
  <2>1. CASE lm.mbFinished
    <3>1. /\ tr.pc = "releaseFlags"
          /\ tr' = [tr EXCEPT !.pc = "checkReset"]
          /\ sys' = [sys EXCEPT !.mbDeactivateLocalizationMode = FALSE]
          /\ UNCHANGED <<mlpLoopKeyFrameQueue, lc>>
      BY <1>5, <2>1 DEF TRReleaseFlags
    <3>2. TRType' /\ SysType' BY <3>1
    <3>3. ControlInv' BY <3>1
    <3> QED BY <3>2, <3>3
  <2>2. CASE ~lm.mbFinished BY <1>5, <2>2 DEF TRReleaseFlags
  <2> QED BY <2>1, <2>2
<1>6. CASE TRReleaseClear BY <1>6 DEF TRReleaseClear
<1>7. CASE CheckReset BY <1>7 DEF CheckReset
<1>8. CASE MapperIsReset BY <1>8 DEF MapperIsReset
<1>9. CASE CloserIsReset BY <1>9 DEF CloserIsReset
<1>10. CASE ClearAll
  <2>1. tr.epoch + 1 \in 0 .. MaxEpoch BY <1>10 DEF ClearAll
  <2>2. TRType'
    <3>1. 0 \in 0 .. MaxId + 1 OBVIOUS
    <3>2. tr' = [tr EXCEPT !.pc = "track", !.mState = "NOT_INITIALIZED",
                           !.epoch = @ + 1, !.nNextId = 0]
      BY <1>10 DEF ClearAll
    <3> QED BY <2>1, <3>1, <3>2
  <2>3. SysType' BY <1>10 DEF ClearAll
  <2>4. ControlInv' BY <1>10 DEF ClearAll
  <2> QED BY <2>2, <2>3, <2>4
<1>11. CASE BeginTrack BY <1>11 DEF BeginTrack
<1>12. CASE CreateFirst
  <2>1. tr.nNextId = 0 /\ tr.epoch \in 0 .. MaxEpoch /\ 0 \in 0 .. MaxId
    BY <1>12 DEF CreateFirst
  <2>2. NextKeyFrame = [epoch |-> tr.epoch, mnId |-> 0]
    BY <2>1 DEF NextKeyFrame
  <2>3. TRType'
    <3>1. tr' = [tr EXCEPT !.pc = "insertFirst", !.nNextId = 1,
                           !.mpReferenceKF = [epoch |-> tr.epoch, mnId |-> 0]]
      BY <1>12, <2>1, <2>2 DEF CreateFirst
    <3>2. [epoch |-> tr.epoch, mnId |-> 0] \in KeyFrame
      BY <2>1 DEF KeyFrame
    <3>3. 1 \in 0 .. MaxId + 1 OBVIOUS
    <3> QED BY <3>1, <3>2, <3>3
  <2>4. ControlInv'
    BY <1>12, <2>1, <2>2 DEF CreateFirst
  <2> QED BY <1>12, <2>3, <2>4 DEF CreateFirst
<1>13. CASE InsertFirst BY <1>13 DEF InsertFirst
<1>14. CASE TrackOnly BY <1>14 DEF TrackOnly
<1>15. CASE TrackLost BY <1>15 DEF TrackLost
<1>16. CASE ConsiderKeyFrame BY <1>16 DEF ConsiderKeyFrame
<1>17. CASE NeedNewKeyFrame BY <1>17 DEF NeedNewKeyFrame
<1>18. CASE CheckAccept BY <1>18 DEF CheckAccept
<1>19. CASE CheckQueue BY <1>19 DEF CheckQueue
<1>20. CASE CreateNewKeyFrame
  <2>1. NextKeyFrame \in KeyFrame
    BY <1>20 DEF CreateNewKeyFrame, NextKeyFrame, KeyFrame
  <2>2. tr.nNextId + 1 \in 0 .. MaxId + 1
    BY <1>20 DEF CreateNewKeyFrame
  <2>3. CASE lm.mbStopped BY <1>20, <2>3 DEF CreateNewKeyFrame
  <2>4. CASE ~lm.mbStopped
    <3>1. tr' = [tr EXCEPT !.pc = "insert", !.nNextId = @ + 1,
                           !.mpReferenceKF = NextKeyFrame]
      BY <1>20, <2>4 DEF CreateNewKeyFrame
    <3>2. TRType' BY <2>1, <2>2, <3>1
    <3>3. ControlInv'
      BY <1>20, <2>1, <3>1 DEF CreateNewKeyFrame
    <3> QED BY <1>20, <3>2, <3>3 DEF CreateNewKeyFrame
  <2> QED BY <2>3, <2>4
<1>21. CASE InsertNew BY <1>21 DEF InsertNew
<1>22. CASE ClearNotStop BY <1>22 DEF ClearNotStop
<1>23. CASE EndTrack BY <1>23 DEF EndTrack
<1>24. CASE Shutdown
  <2>1. PICK b \in BOOLEAN :
          tr' = [tr EXCEPT !.pc = "shutdownLC", !.allStarted = b]
    BY <1>24 DEF Shutdown
  <2>2. tr.pc = "mode" /\ UNCHANGED <<sys, lc, mlpLoopKeyFrameQueue>>
    BY <1>24 DEF Shutdown
  <2>3. TRType' /\ SysType' BY <2>1, <2>2
  <2>4. ControlInv' BY <2>1, <2>2
  <2> QED BY <2>3, <2>4
<1>25. CASE ShutdownCloser BY <1>25 DEF ShutdownCloser
<1>26. CASE MapperHasFinished BY <1>26 DEF MapperHasFinished
<1>28. CASE CloserHasFinished BY <1>28 DEF CloserHasFinished
<1>29. CASE NoGBAIsRunning BY <1>29 DEF NoGBAIsRunning
<1>27. CASE InterruptMapper BY <1>27 DEF InterruptMapper
<1> QED
  BY <1>1, <1>2, <1>3, <1>4, <1>5, <1>6, <1>7, <1>8, <1>9, <1>10, <1>11,
     <1>12, <1>13, <1>14, <1>15, <1>16, <1>17, <1>18, <1>19, <1>20,
     <1>21, <1>22, <1>23, <1>24, <1>25, <1>26, <1>27, <1>28, <1>29
     DEF MainStep

(* They keep the other types. *)
LEMMA MainTypes ==
  ASSUME SlamInv, MainStep
  PROVE  LCType' /\ GBAType' /\ UIType'
<1> USE DEF SlamInv, LCType, GBAType, UIType, loopVars
<1>1. CASE MapperIsReset BY <1>1 DEF MapperIsReset
<1>2. CASE ShutdownCloser BY <1>2 DEF ShutdownCloser
<1>3. CASE UNCHANGED <<loopVars, ui>> BY <1>3
<1> QED
  BY <1>1, <1>2, <1>3
     DEF MainStep,
         CheckMode, EnterLocalization, LeaveLocalization, TRReleaseLock,
         TRReleaseFlags, TRReleaseClear, CheckReset, CloserIsReset,
         ClearAll, BeginTrack, CreateFirst, InsertFirst, TrackOnly,
         TrackLost, ConsiderKeyFrame, NeedNewKeyFrame, CheckAccept,
         InterruptMapper, CheckQueue, CreateNewKeyFrame, InsertNew, ClearNotStop,
         EndTrack, Shutdown, MapperHasFinished, CloserHasFinished,
         NoGBAIsRunning
(* A step that records no new keyframe and hands out no identity keeps     *)
(* IdentityInv, unless it makes the tracker insert.                        *)
LEMMA IdentityQuiet ==
  ASSUME IdentityInv,
         Known' \subseteq Known,
         tr'.epoch = tr.epoch, tr'.nNextId = tr.nNextId,
         tr'.pc \notin {"insert", "insertFirst"}
  PROVE  IdentityInv'
<1>1. \A k : Born(k)' <=> Born(k)
  BY DEF Born
<1> QED BY <1>1 DEF IdentityInv, TRAt

(* A keyframe that is created but not yet inserted is born, and unknown.   *)
LEMMA IdentityCreated ==
  ASSUME IdentityInv, NEW k, Known' = Known, ~Born(k), Born(k)',
         \A j \in Known : Born(j)',
         tr'.pc = "insert", tr'.mpReferenceKF = k
  PROVE  IdentityInv'
<1>1. k \notin Known
  BY DEF IdentityInv
<1> QED BY <1>1 DEF IdentityInv, TRAt, Born

(* Steps of the caller's thread keep identities apart. *)
LEMMA MainIdentity ==
  ASSUME SlamInv, MainStep
  PROVE  IdentityInv'
<1> DEFINE Quiet ==
      /\ tr'.epoch = tr.epoch /\ tr'.nNextId = tr.nNextId
      /\ tr'.pc \notin {"insert", "insertFirst"}
<1> USE DEF SlamInv, LMTypeInv, LMTypeOK, LMType, MapType, TRType, TRAt,
            TRGoto, lmVars
<1>0. /\ \A j \in Known : j.epoch \in Nat /\ j.mnId \in Nat
      /\ tr.epoch \in Nat /\ tr.nNextId \in Nat
  <2>1. Known \subseteq KeyFrame
    BY DEF Known, QueuedKeyFrames
  <2> QED BY <2>1, BoundsAssumption DEF KeyFrame
<1>1. CASE Quiet /\ UNCHANGED map /\ lm'.mlNewKeyFrames = lm.mlNewKeyFrames
  BY <1>1, IdentityQuiet DEF Known, QueuedKeyFrames
<1>2. CASE Quiet /\ CallRelease(Main)
  BY <1>2, IdentityQuiet, ReleaseKeyFrames
<1>3. CASE TRReleaseLock \/ TRReleaseClear
  BY <1>2, <1>3 DEF TRReleaseLock, TRReleaseClear, CallRelease
<1>4. CASE TRReleaseFlags
  BY <1>2, <1>4 DEF TRReleaseFlags, CallRelease
<1>5. CASE BeginTrack \/ EndTrack
  <2>1. /\ map'.mspKeyFrames = map.mspKeyFrames
        /\ map'.deleted = map.deleted
        /\ UNCHANGED lm
    BY <1>5 DEF BeginTrack, EndTrack, LockMap, UnlockMap
  <2>2. Known' = Known
    BY <2>1 DEF Known, QueuedKeyFrames
  <2>3. Quiet
    BY <1>5 DEF BeginTrack, EndTrack
  <2> QED BY <2>2, <2>3, IdentityQuiet
<1>6. CASE ClearAll
  <2>1. Known' = Known
    BY <1>6 DEF ClearAll, ClearMap, Known, QueuedKeyFrames
  <2>2. tr'.epoch = tr.epoch + 1 /\ tr'.pc = "track"
    BY <1>6 DEF ClearAll
  <2>3. \A k \in Known : Born(k)'
    BY <1>0, <2>2 DEF IdentityInv, Born
  <2> QED BY <2>1, <2>2, <2>3 DEF IdentityInv
<1>7. CASE CreateFirst
  <2>1. /\ tr.nNextId = 0
        /\ tr'.pc = "insertFirst" /\ tr'.epoch = tr.epoch /\ tr'.nNextId = 1
        /\ tr'.mpReferenceKF = NextKeyFrame
    BY <1>7 DEF CreateFirst, ControlInv
  <2>2. PICK k : k = NextKeyFrame
    OBVIOUS
  <2>3. /\ lm' = lm
        /\ map'.mspKeyFrames = map.mspKeyFrames \cup {k}
        /\ map'.deleted = map.deleted
    BY <1>7, <2>2 DEF CreateFirst, AddKeyFrame
  <2>4. Known' = Known \cup {k}
    BY <2>3 DEF Known, QueuedKeyFrames
  <2>5. ~Born(k) /\ Born(k)'
    BY <2>1, <2>2 DEF Born, NextKeyFrame
  <2>6. \A j \in Known : Born(j)'
    BY <1>0, <2>1 DEF IdentityInv, Born
  <2>7. k \notin (QueuedKeyFrames \cup map.deleted)'
    BY <2>3, <2>5 DEF IdentityInv, Known, QueuedKeyFrames
  <2> QED BY <2>1, <2>2, <2>4, <2>5, <2>6, <2>7 DEF IdentityInv
<1>8. CASE InsertFirst \/ InsertNew
  <2>1. PICK k : k = tr.mpReferenceKF
    OBVIOUS
  <2>2. /\ lm'.mlNewKeyFrames = Append(lm.mlNewKeyFrames, k)
        /\ map' = map
    BY <1>8, <2>1 DEF InsertFirst, InsertNew, InsertKeyFrame
  <2>3. QueuedKeyFrames' \subseteq QueuedKeyFrames \cup {k}
    BY <2>2 DEF QueuedKeyFrames
  <2>4. Known' \subseteq Known \cup {k}
    BY <2>2, <2>3 DEF Known
  <2>5. Quiet
    BY <1>8 DEF InsertFirst, InsertNew
  <2>6. Born(k)
    BY <1>8, <2>1
       DEF InsertFirst, InsertNew, ControlInv, IdentityInv, Born
  <2>7. \A j \in Known' : Born(j)'
    BY <2>4, <2>5, <2>6 DEF IdentityInv, Born
  <2> QED BY <2>5, <2>7 DEF IdentityInv
<1>9. CASE CreateNewKeyFrame
  <2>1. CASE Quiet
    BY <1>1, <1>9, <2>1 DEF CreateNewKeyFrame, SetNotStop
  <2>2. CASE ~lm.mbStopped
    <3>1. PICK k : k = NextKeyFrame
      OBVIOUS
    <3>2. /\ tr'.pc = "insert" /\ tr'.epoch = tr.epoch
          /\ tr'.nNextId = tr.nNextId + 1
          /\ tr'.mpReferenceKF = k
      BY <1>9, <2>2, <3>1 DEF CreateNewKeyFrame
    <3>3. Known' = Known
      BY <1>9, <2>2
         DEF CreateNewKeyFrame, SetNotStop, Known, QueuedKeyFrames
    <3>4. ~Born(k) /\ Born(k)'
      BY <3>1, <3>2 DEF Born, NextKeyFrame
    <3>5. \A j \in Known : Born(j)'
      BY <1>0, <3>2 DEF IdentityInv, Born
    <3> QED BY <3>2, <3>3, <3>4, <3>5, IdentityCreated
  <2> QED BY <1>9, <2>1, <2>2 DEF CreateNewKeyFrame
<1>10. CASE \/ CheckMode \/ CheckReset \/ InterruptMapper
            \/ ClearNotStop \/ Shutdown
  BY <1>1, <1>10
     DEF CheckMode, CheckReset, InterruptMapper, ClearNotStop, Shutdown,
         RequestStop, RequestReset, InterruptBA, SetNotStop, RequestFinish
<1>11. CASE \/ EnterLocalization \/ LeaveLocalization \/ MapperIsReset
            \/ CloserIsReset \/ TrackOnly \/ TrackLost \/ ConsiderKeyFrame
            \/ NeedNewKeyFrame \/ CheckAccept \/ CheckQueue
            \/ ShutdownCloser \/ MapperHasFinished \/ CloserHasFinished
            \/ NoGBAIsRunning
  <2>1. CASE EnterLocalization BY <1>1, <2>1 DEF EnterLocalization
  <2>2. CASE LeaveLocalization BY <1>1, <2>2 DEF LeaveLocalization
  <2>3. CASE MapperIsReset BY <1>1, <2>3 DEF MapperIsReset
  <2>4. CASE CloserIsReset BY <1>1, <2>4 DEF CloserIsReset
  <2>5. CASE TrackOnly BY <1>1, <2>5 DEF TrackOnly
  <2>6. CASE TrackLost BY <1>1, <2>6 DEF TrackLost
  <2>7. CASE ConsiderKeyFrame BY <1>1, <2>7 DEF ConsiderKeyFrame
  <2>8. CASE NeedNewKeyFrame BY <1>1, <2>8 DEF NeedNewKeyFrame
  <2>9. CASE CheckAccept BY <1>1, <2>9 DEF CheckAccept
  <2>10. CASE CheckQueue BY <1>1, <2>10 DEF CheckQueue
  <2>11. CASE ShutdownCloser BY <1>1, <2>11 DEF ShutdownCloser
  <2>12. CASE MapperHasFinished BY <1>1, <2>12 DEF MapperHasFinished
  <2>13. CASE CloserHasFinished BY <1>1, <2>13 DEF CloserHasFinished
  <2>14. CASE NoGBAIsRunning BY <1>1, <2>14 DEF NoGBAIsRunning
  <2> QED
    BY <1>11, <2>1, <2>2, <2>3, <2>4, <2>5, <2>6, <2>7, <2>8, <2>9,
       <2>10, <2>11, <2>12, <2>13, <2>14
<1> QED
  BY <1>3, <1>4, <1>5, <1>6, <1>7, <1>8, <1>9, <1>10, <1>11 DEF MainStep

(* Together. *)
LEMMA MainKeeps ==
  ASSUME SlamInv, MainStep
  PROVE  SlamInv' /\ MapperOrStutter
<1>0. MapperOrStutter
  BY MainOpen DEF EnvironmentOrStutter, MapperOrStutter, LMNext
<1>1. LMTypeInv'
  BY <1>0, OpenTypes DEF SlamInv
<1> QED
  BY <1>0, <1>1, MainTracker, MainTypes, MainIdentity DEF SlamInv

(* The invariant is inductive, and every step is one of LocalMapping's     *)
(* open specification.                                                     *)
LEMMA SystemKeeps ==
  ASSUME SlamInv, [Next]_vars
  PROVE  SlamInv' /\ MapperOrStutter
<1>1. CASE UNCHANGED vars
  <2>1. MapperOrStutter
    BY <1>1 DEF MapperOrStutter, vars, lmVars
  <2>2. LMTypeInv'
    BY <2>1, OpenTypes DEF SlamInv
  <2>3. /\ LCType' /\ GBAType' /\ SysType' /\ TRType' /\ UIType'
        /\ ControlInv'
    BY <1>1
       DEF SlamInv, vars, LCType, GBAType, SysType, TRType, UIType,
           ControlInv, TRAt, LCAt
  <2>4. IdentityInv'
    BY <1>1, IdentityKept DEF SlamInv, vars, Known, QueuedKeyFrames
  <2> QED BY <2>1, <2>2, <2>3, <2>4 DEF SlamInv
<1> QED
  BY <1>1, MapperKeeps, CloserKeeps, GBAKeeps, MainKeeps, UIKeeps
     DEF Next, Terminated

(* The invariant holds always. *)
LEMMA SlamInvariant == Spec => []SlamInv
<1>1. Init => SlamInv
  <2> SUFFICES ASSUME Init PROVE SlamInv
    OBVIOUS
  <2> USE BoundsAssumption, SystemAssumption, LoopThreadsAssumption
      DEF Init, LMInit, LCInit, MapInit
  <2>1. LMTypeInv
    BY DEF LMTypeInv, HasCurrent, LMTypeOK, LMType, MapType, LMControl
  <2>2. LCType
    BY DEF LCType, LCControl
  <2>3. GBAType
    BY DEF GBAType, GBAControl, Aborted
  <2>4. SysType /\ UIType
    BY DEF SysType, UIType
  <2>5. TRType
    BY DEF TRType, TRControl
  <2>6. ControlInv
    BY DEF ControlInv, TRAt, LCAt
  <2>7. IdentityInv
    BY DEF IdentityInv, Known, QueuedKeyFrames, TRAt
  <2> QED BY <2>1, <2>2, <2>3, <2>4, <2>5, <2>6, <2>7 DEF SlamInv
<1>2. SlamInv /\ [Next]_vars => SlamInv'
  BY SystemKeeps
<1> QED BY <1>1, <1>2, PTL DEF Spec

(* Every variable of the system keeps its type. *)
THEOREM TypeCorrect == Spec => []TypeOK
<1>1. SlamInv => TypeOK
  BY DEF SlamInv, LMTypeInv, TypeOK
<1> QED BY <1>1, SlamInvariant, PTL

(* The threads of the system use LocalMapping only as its open             *)
(* specification allows: what holds of the mapper with any callers holds   *)
(* in the system.                                                          *)
THEOREM ImplementsLocalMapping == Spec => LMSpec
<1>1. Init => LMInit
  BY DEF Init
<1>2. SlamInv /\ [Next]_vars => [LMNext]_lmVars
  BY SystemKeeps DEF MapperOrStutter
<1> QED BY <1>1, <1>2, SlamInvariant, PTL DEF Spec, LMSpec

(***************************************************************************)
(* NotStopHonoured.  The promise rests on two facts: mbNotStop is up while *)
(* the tracker inserts, which keeps Stop from setting mbStopped; and the   *)
(* other place that sets it, SetFinish, is reached only after Shutdown has *)
(* been called, by the thread that would otherwise be inserting.           *)
(***************************************************************************)
Inserting == tr.pc \in {"insert", "clearNotStop"}

ShuttingDown == tr.pc \in {"shutdownLC", "shutdownWait", "shutdownWaitLC",
                           "shutdownWaitGBA", "down"}

NotStopInv ==
  /\ Inserting => lm.mbNotStop /\ ~lm.mbStopped
  /\ lm.mbFinishRequested => ShuttingDown

(* What the mapper does to the flags its callers rely on. *)
LEMMA StepFlags ==
  ASSUME LMTypeInv, LMStep
  PROVE  /\ lm'.mbNotStop = lm.mbNotStop
         /\ lm'.mbFinishRequested = lm.mbFinishRequested
         /\ lm'.mbStopped => lm.mbStopped \/ ~lm.mbNotStop \/ At("setStopped")
         /\ lm.mbStopped => lm'.mbStopped
<1> USE DEF LMTypeInv, LMTypeOK, LMType, At, Goto
<1>1. CASE Stop BY <1>1 DEF Stop
<1>2. CASE SetStopped BY <1>2 DEF SetStopped
<1>3. CASE /\ lm'.mbNotStop = lm.mbNotStop
           /\ lm'.mbFinishRequested = lm.mbFinishRequested
           /\ lm'.mbStopped = lm.mbStopped
  BY <1>3
<1>4. CASE LMStep /\ ~Stop /\ ~SetStopped
  BY <1>3, <1>4
     DEF LMStep, Start, SetBusy, CheckNewKeyFrames, ProcessNewKeyFrame,
         ProcessNothing, SearchInNeighbors, ClearAbort, CheckQueueBeforeBA,
         CheckStopBeforeBA, LocalBundleAdjustment, RecoverOptimized,
         HandOver, Resume, LeaveStop, ResetIfRequested, SetIdle, CheckFinish, SetFinished
<1> QED BY <1>1, <1>2, <1>4

(* Release only lowers mbStopped. *)
LEMMA ReleaseStopped ==
  ASSUME LMTypeInv, NEW t, CallRelease(t)
  PROVE  /\ lm'.mbNotStop = lm.mbNotStop
         /\ lm'.mbFinishRequested = lm.mbFinishRequested
         /\ lm'.mbStopped => lm.mbStopped
<1> USE DEF LMTypeInv, LMTypeOK, LMType
<1>1. CASE ReleaseLock(t) BY <1>1 DEF ReleaseLock
<1>2. CASE ReleaseFlags(t)
  <2>1. CASE lm.mbFinished BY <1>2, <2>1 DEF ReleaseFlags
  <2>2. CASE ~lm.mbFinished
    <3>1. lm' = [lm EXCEPT !.mMutexFinish    = t,
                           !.mbStopped       = FALSE,
                           !.mbStopRequested = FALSE]
      BY <1>2, <2>2 DEF ReleaseFlags
    <3> QED BY <3>1
  <2> QED BY <2>1, <2>2
<1>3. CASE ReleaseClear(t) BY <1>3 DEF ReleaseClear
<1> QED BY <1>1, <1>2, <1>3 DEF CallRelease

(* What the loop closer and the bundle adjustments do to them. *)
LEMMA LoopFlags ==
  ASSUME LMTypeInv,
         CloserStep \/ \E g \in GBAs : GBAThreadStep(g)
  PROVE  /\ lm'.mbNotStop = lm.mbNotStop
         /\ lm'.mbFinishRequested = lm.mbFinishRequested
         /\ lm'.mbStopped => lm.mbStopped
<1> USE DEF LMTypeInv, LMTypeOK, LMType, lmVars
<1>1. CASE RequestStop BY <1>1 DEF RequestStop
<1>2. ASSUME NEW t, CallRelease(t)
      PROVE  /\ lm'.mbNotStop = lm.mbNotStop
             /\ lm'.mbFinishRequested = lm.mbFinishRequested
             /\ lm'.mbStopped => lm.mbStopped
  BY <1>2, ReleaseStopped
<1>3. CASE CloserStep
  <2>1. RequestStop \/ CallRelease(Closer) \/ UNCHANGED lm
    BY <1>3
       DEF CloserStep, LCStep, LCStart, LCCheckNewKeyFrames, DetectLoop,
           LCRequestStop, TestGBA, AbortGBA, WaitStop, LCLockMap,
           LCUnlockMap, FuseAndOptimise, LaunchGBA, SpawnGBA,
           LCReleaseLock, LCReleaseFlags, LCReleaseClear,
           LCResetIfRequested, LCCheckFinish, LCSetFinish, CallRelease
  <2> QED BY <1>1, <1>2, <2>1
<1>4. ASSUME NEW g \in GBAs, GBAThreadStep(g)
      PROVE  /\ lm'.mbNotStop = lm.mbNotStop
             /\ lm'.mbFinishRequested = lm.mbFinishRequested
             /\ lm'.mbStopped => lm.mbStopped
  <2>1. RequestStop \/ CallRelease(g) \/ UNCHANGED lm
    BY <1>4
       DEF GBAThreadStep, GBAStep, GBAStart, GBAOptimise, GBALock,
           GBARequestStop, GBAWaitStop, GBALockMap, GBAUpdate,
           GBAReleaseLock, GBAReleaseFlags, GBAReleaseClear, GBAFinish,
           CallRelease
  <2> QED BY <1>1, <1>2, <2>1
<1> QED BY <1>3, <1>4

(* Steps of the caller's thread keep NotStopInv. *)
LEMMA MainNotStop ==
  ASSUME SlamInv, NotStopInv, MainStep
  PROVE  NotStopInv'
<1> USE DEF SlamInv, LMTypeInv, LMTypeOK, LMType, TRType, NotStopInv,
            Inserting, ShuttingDown, TRAt, TRGoto, lmVars
<1>1. CASE /\ lm'.mbNotStop = lm.mbNotStop
           /\ lm'.mbFinishRequested = lm.mbFinishRequested
           /\ lm'.mbStopped => lm.mbStopped
           /\ ~Inserting'
           /\ ~ShuttingDown
  BY <1>1
<1>2. CASE TRReleaseLock \/ TRReleaseFlags \/ TRReleaseClear
  <2>1. CallRelease(Main) /\ ~Inserting' /\ ~ShuttingDown
    BY <1>2 DEF TRReleaseLock, TRReleaseFlags, TRReleaseClear, CallRelease
  <2> QED BY <1>1, <2>1, ReleaseStopped
<1>3. CASE CreateNewKeyFrame
  BY <1>3 DEF CreateNewKeyFrame, SetNotStop
<1>4. CASE InsertNew
  BY <1>4 DEF InsertNew, InsertKeyFrame
<1>5. CASE ClearNotStop
  BY <1>5 DEF ClearNotStop, SetNotStop
<1>6. CASE Shutdown
  BY <1>6 DEF Shutdown, RequestFinish
<1>7. CASE \/ ShutdownCloser \/ MapperHasFinished \/ CloserHasFinished
           \/ NoGBAIsRunning
  BY <1>7 DEF ShutdownCloser, MapperHasFinished, CloserHasFinished,
              NoGBAIsRunning
<1>8. CASE CheckMode \/ CheckReset \/ InsertFirst \/ InterruptMapper
  <2>1. CASE CheckMode BY <1>1, <2>1 DEF CheckMode, RequestStop
  <2>2. CASE CheckReset BY <1>1, <2>2 DEF CheckReset, RequestReset
  <2>3. CASE InsertFirst BY <1>1, <2>3 DEF InsertFirst, InsertKeyFrame
  <2>4. CASE InterruptMapper
    BY <1>1, <2>4 DEF InterruptMapper, InterruptBA
  <2> QED BY <1>8, <2>1, <2>2, <2>3, <2>4
<1>9. CASE \/ EnterLocalization \/ LeaveLocalization \/ MapperIsReset
           \/ CloserIsReset \/ ClearAll \/ BeginTrack \/ CreateFirst
           \/ TrackOnly \/ TrackLost \/ ConsiderKeyFrame
           \/ NeedNewKeyFrame \/ CheckAccept \/ CheckQueue \/ EndTrack
  <2>0. CASE lm' = lm /\ ~Inserting' /\ ~ShuttingDown BY <1>1, <2>0
  <2>1. CASE EnterLocalization BY <2>0, <2>1 DEF EnterLocalization
  <2>2. CASE LeaveLocalization BY <2>0, <2>2 DEF LeaveLocalization
  <2>3. CASE MapperIsReset BY <2>0, <2>3 DEF MapperIsReset
  <2>4. CASE CloserIsReset BY <2>0, <2>4 DEF CloserIsReset
  <2>5. CASE ClearAll BY <2>0, <2>5 DEF ClearAll
  <2>6. CASE BeginTrack BY <2>0, <2>6 DEF BeginTrack
  <2>7. CASE CreateFirst BY <2>0, <2>7 DEF CreateFirst
  <2>8. CASE TrackOnly BY <2>0, <2>8 DEF TrackOnly
  <2>9. CASE TrackLost BY <2>0, <2>9 DEF TrackLost
  <2>10. CASE ConsiderKeyFrame BY <2>0, <2>10 DEF ConsiderKeyFrame
  <2>11. CASE NeedNewKeyFrame BY <2>0, <2>11 DEF NeedNewKeyFrame
  <2>12. CASE CheckAccept BY <2>0, <2>12 DEF CheckAccept
  <2>13. CASE CheckQueue BY <2>0, <2>13 DEF CheckQueue
  <2>14. CASE EndTrack BY <2>0, <2>14 DEF EndTrack
  <2> QED
    BY <1>9, <2>1, <2>2, <2>3, <2>4, <2>5, <2>6, <2>7, <2>8, <2>9,
       <2>10, <2>11, <2>12, <2>13, <2>14
<1> QED
  BY <1>2, <1>3, <1>4, <1>5, <1>6, <1>7, <1>8, <1>9 DEF MainStep

(* From the moment SetNotStop(true) succeeds until the tracker takes it    *)
(* back, the mapper is not stopped: with any number of loop closures,      *)
(* bundle adjustments, mode changes and resets.                            *)
THEOREM NotStopIsHonoured == Spec => []NotStopHonoured
<1>1. Init => NotStopInv
  BY DEF Init, LMInit, NotStopInv, Inserting
<1>2. SlamInv /\ StopInv /\ NotStopInv /\ [Next]_vars => NotStopInv'
  <2> SUFFICES ASSUME SlamInv, StopInv, NotStopInv, [Next]_vars
               PROVE  NotStopInv'
    OBVIOUS
  <2> USE DEF NotStopInv, Inserting, ShuttingDown
  <2>1. CASE MapperStep
    BY <2>1, StepFlags DEF MapperStep, SlamInv, StopInv, At
  <2>2. CASE CloserStep \/ \E g \in GBAs : GBAThreadStep(g)
    BY <2>2, LoopFlags DEF CloserStep, GBAThreadStep, SlamInv
  <2>3. CASE MainStep
    BY <2>3, MainNotStop
  <2>4. CASE UIStep
    BY <2>4
       DEF UIStep, ActivateLocalizationMode, DeactivateLocalizationMode,
           Reset, lmVars
  <2>5. CASE UNCHANGED vars
    BY <2>5 DEF vars
  <2> QED BY <2>1, <2>2, <2>3, <2>4, <2>5 DEF Next, Terminated
<1>3. NotStopInv => NotStopHonoured
  BY DEF NotStopInv, NotStopHonoured, Inserting
<1> QED
  BY <1>1, <1>2, <1>3, SlamInvariant, ImplementsLocalMapping,
     LMStopInvariant, PTL DEF Spec

(***************************************************************************)
(* Localization mode.  Until a loop is closed the tracker is the only one  *)
(* that releases the mapper, and it leaves localization mode first.        *)
(***************************************************************************)
LocalizationInv ==
  lc.loops = 0 =>
    /\ lc.pc \in {"start", "check", "detect", "reset", "checkFinish",
                  "finish", "done"}
    /\ \A g \in GBAs : GBAAt(g, "idle")
    /\ tr.mbOnlyTracking => lm.mbStopped
    /\ tr.pc \in {"releaseLock", "releaseFlags", "releaseClear"} =>
         ~tr.mbOnlyTracking

(* Steps of the loop closer: without a loop it does not leave its cycle.   *)
LEMMA CloserLocalization ==
  ASSUME SlamInv, LocalizationInv, CloserStep
  PROVE  LocalizationInv'
<1> SUFFICES ASSUME lc'.loops = 0
             PROVE  LocalizationInv'
  BY DEF LocalizationInv
<1> USE DEF SlamInv, LCType, CloserStep, LCAt, LCGoto, lmVars
<1>0. lc.loops + 1 # 0
  <2>1. lc.loops \in 0 .. MaxLoops OBVIOUS
  <2> QED BY <2>1
<1>1. CASE lc.loops = 0
  <2> USE <1>1 DEF LocalizationInv
  <2>1. CASE LCStart BY <2>1 DEF LCStart, GBAAt
  <2>2. CASE LCCheckNewKeyFrames BY <2>2 DEF LCCheckNewKeyFrames, GBAAt
  <2>3. CASE DetectLoop
    <3>1. lc'.pc = "reset" /\ UNCHANGED <<lm, gba, tr>>
      BY <1>0, <2>3 DEF DetectLoop
    <3> QED BY <3>1 DEF GBAAt
  <2>4. CASE LCResetIfRequested BY <2>4 DEF LCResetIfRequested, GBAAt
  <2>5. CASE LCCheckFinish BY <2>5 DEF LCCheckFinish, GBAAt
  <2>6. CASE LCSetFinish BY <2>6 DEF LCSetFinish, GBAAt
  <2> QED
    BY <2>1, <2>2, <2>3, <2>4, <2>5, <2>6
       DEF LCStep, LCRequestStop, TestGBA, AbortGBA, WaitStop, LCLockMap,
           LCUnlockMap, FuseAndOptimise, LaunchGBA, SpawnGBA,
           LCReleaseLock, LCReleaseFlags, LCReleaseClear
<1>2. CASE lc.loops # 0
  <2>1. DetectLoop => lc'.loops # 0
    BY <1>0, <1>2 DEF DetectLoop
  <2>2. LCStep /\ ~DetectLoop => lc'.loops = lc.loops
    BY DEF LCStep, LCStart, LCCheckNewKeyFrames, LCRequestStop, TestGBA,
           AbortGBA, WaitStop, LCLockMap, LCUnlockMap, FuseAndOptimise,
           LaunchGBA, SpawnGBA, LCReleaseLock, LCReleaseFlags,
           LCReleaseClear, LCResetIfRequested, LCCheckFinish, LCSetFinish
  <2> QED BY <1>2, <2>1, <2>2
<1> QED BY <1>1, <1>2

(* Steps of the caller's thread. *)
LEMMA MainLocalization ==
  ASSUME SlamInv, LocalizationInv, MainStep
  PROVE  LocalizationInv'
<1> USE DEF SlamInv, LMTypeInv, LMTypeOK, LMType, LCType, TRType, TRAt,
            TRGoto, lmVars, loopVars
<1>1. lc'.loops = lc.loops /\ lc'.pc = lc.pc /\ gba' = gba
  <2>1. CASE MapperIsReset \/ ShutdownCloser
    BY <2>1 DEF MapperIsReset, ShutdownCloser
  <2>2. CASE UNCHANGED loopVars
    BY <2>2
  <2> QED
    BY <2>1, <2>2
       DEF MainStep, CheckMode, EnterLocalization, LeaveLocalization,
           TRReleaseLock, TRReleaseFlags, TRReleaseClear, CheckReset,
           CloserIsReset, ClearAll, BeginTrack, CreateFirst, InsertFirst,
           TrackOnly, TrackLost, ConsiderKeyFrame, NeedNewKeyFrame,
           CheckAccept, InterruptMapper, CheckQueue, CreateNewKeyFrame,
           InsertNew, ClearNotStop, EndTrack, Shutdown, MapperHasFinished,
           CloserHasFinished, NoGBAIsRunning
<1>2. ASSUME tr.mbOnlyTracking => lm.mbStopped,
             tr.pc \in {"releaseLock", "releaseFlags", "releaseClear"} =>
               ~tr.mbOnlyTracking
      PROVE  /\ tr'.mbOnlyTracking => lm'.mbStopped
             /\ tr'.pc \in {"releaseLock", "releaseFlags", "releaseClear"} =>
                  ~tr'.mbOnlyTracking
  <2>1. CASE EnterLocalization BY <2>1 DEF EnterLocalization, IsStopped
  <2>2. CASE LeaveLocalization BY <1>2, <2>2 DEF LeaveLocalization
  <2>3. CASE TRReleaseLock \/ TRReleaseFlags \/ TRReleaseClear
    BY <1>2, <2>3 DEF TRReleaseLock, TRReleaseFlags, TRReleaseClear
  <2>4. CASE /\ tr'.mbOnlyTracking = tr.mbOnlyTracking
             /\ lm'.mbStopped = lm.mbStopped
             /\ tr'.pc \notin {"releaseLock", "releaseFlags", "releaseClear"}
    BY <1>2, <2>4
  <2>5. CASE \/ CheckMode \/ CheckReset \/ InsertFirst \/ InterruptMapper
             \/ CreateNewKeyFrame \/ InsertNew \/ ClearNotStop \/ Shutdown
    <3>1. CASE CheckMode
      <4>1. lm'.mbStopped = lm.mbStopped
        BY <3>1 DEF CheckMode, RequestStop
      <4> QED BY <2>4, <3>1, <4>1 DEF CheckMode
    <3>2. CASE CheckReset BY <2>4, <3>2 DEF CheckReset, RequestReset
    <3>3. CASE InsertFirst
      <4>1. lm'.mbStopped = lm.mbStopped
        BY <3>3 DEF InsertFirst, InsertKeyFrame
      <4> QED BY <2>4, <3>3, <4>1 DEF InsertFirst
    <3>4. CASE InterruptMapper BY <2>4, <3>4 DEF InterruptMapper, InterruptBA
    <3>5. CASE CreateNewKeyFrame
      BY <2>4, <3>5 DEF CreateNewKeyFrame, SetNotStop
    <3>6. CASE InsertNew BY <2>4, <3>6 DEF InsertNew, InsertKeyFrame
    <3>7. CASE ClearNotStop BY <2>4, <3>7 DEF ClearNotStop, SetNotStop
    <3>8. CASE Shutdown BY <2>4, <3>8 DEF Shutdown, RequestFinish
    <3> QED
      BY <2>5, <3>1, <3>2, <3>3, <3>4, <3>5, <3>6, <3>7, <3>8
  <2>6. CASE \/ MapperIsReset \/ CloserIsReset \/ ClearAll \/ BeginTrack
             \/ CreateFirst \/ TrackOnly \/ TrackLost \/ ConsiderKeyFrame
             \/ NeedNewKeyFrame \/ CheckAccept \/ CheckQueue \/ EndTrack
             \/ ShutdownCloser \/ MapperHasFinished \/ CloserHasFinished
             \/ NoGBAIsRunning
    <3>1. CASE MapperIsReset BY <2>4, <3>1 DEF MapperIsReset
    <3>2. CASE CloserIsReset BY <2>4, <3>2 DEF CloserIsReset
    <3>3. CASE ClearAll BY <2>4, <3>3 DEF ClearAll
    <3>4. CASE BeginTrack BY <2>4, <3>4 DEF BeginTrack
    <3>5. CASE CreateFirst BY <2>4, <3>5 DEF CreateFirst
    <3>6. CASE TrackOnly BY <2>4, <3>6 DEF TrackOnly
    <3>7. CASE TrackLost BY <2>4, <3>7 DEF TrackLost
    <3>8. CASE ConsiderKeyFrame BY <2>4, <3>8 DEF ConsiderKeyFrame
    <3>9. CASE NeedNewKeyFrame BY <2>4, <3>9 DEF NeedNewKeyFrame
    <3>10. CASE CheckAccept BY <2>4, <3>10 DEF CheckAccept
    <3>11. CASE CheckQueue BY <2>4, <3>11 DEF CheckQueue
    <3>12. CASE EndTrack BY <2>4, <3>12 DEF EndTrack
    <3>13. CASE ShutdownCloser BY <2>4, <3>13 DEF ShutdownCloser
    <3>14. CASE MapperHasFinished BY <2>4, <3>14 DEF MapperHasFinished
    <3>15. CASE CloserHasFinished BY <2>4, <3>15 DEF CloserHasFinished
    <3>16. CASE NoGBAIsRunning BY <2>4, <3>16 DEF NoGBAIsRunning
    <3> QED
      BY <2>6, <3>1, <3>2, <3>3, <3>4, <3>5, <3>6, <3>7, <3>8, <3>9,
         <3>10, <3>11, <3>12, <3>13, <3>14, <3>15, <3>16
  <2> QED BY <2>1, <2>2, <2>3, <2>5, <2>6 DEF MainStep
<1> QED BY <1>1, <1>2 DEF LocalizationInv, GBAAt

(* The invariant holds always.                                             *)
LEMMA LocalizationInvariant == Spec => []LocalizationInv
<1>1. Init => LocalizationInv
  BY DEF Init, LMInit, LCInit, LocalizationInv, GBAAt
<1>2. SlamInv /\ LocalizationInv /\ [Next]_vars => LocalizationInv'
  <2> SUFFICES ASSUME SlamInv, LocalizationInv, [Next]_vars
               PROVE  LocalizationInv'
    OBVIOUS
  <2>1. CASE MapperStep
    BY <2>1, StepFlags
       DEF MapperStep, SlamInv, LocalizationInv, loopVars, GBAAt
  <2>2. CASE CloserStep
    BY <2>2, CloserLocalization
  <2>3. ASSUME NEW g \in GBAs, GBAThreadStep(g)
        PROVE  LocalizationInv'
    <3>1. ~GBAAt(g, "idle") /\ lc'.loops = lc.loops
      BY <2>3
         DEF GBAThreadStep, GBAStep, GBAStart, GBAOptimise, GBALock,
             GBARequestStop, GBAWaitStop, GBALockMap, GBAUpdate,
             GBAReleaseLock, GBAReleaseFlags, GBAReleaseClear, GBAFinish,
             GBAAt, GBAGoto, SlamInv, LCType
    <3> QED BY <3>1 DEF LocalizationInv
  <2>4. CASE MainStep
    BY <2>4, MainLocalization
  <2>5. CASE UIStep
    BY <2>5
       DEF UIStep, ActivateLocalizationMode, DeactivateLocalizationMode,
           Reset, lmVars, loopVars, LocalizationInv, GBAAt
  <2>6. CASE UNCHANGED vars
    BY <2>6 DEF vars, LocalizationInv, GBAAt
  <2> QED BY <2>1, <2>2, <2>3, <2>4, <2>5, <2>6 DEF Next, Terminated
<1> QED BY <1>1, <1>2, SlamInvariant, PTL DEF Spec

(* Localization mode keeps the mapper parked until the first loop is       *)
(* closed (LocalizationStopsMapping fails afterwards: CorrectLoop and      *)
(* RunGlobalBundleAdjustment release the mapper whatever the mode).        *)
THEOREM LocalizationBeforeLoops == Spec => []ParkedBeforeLoops
<1>1. LocalizationInv /\ StopInv => ParkedBeforeLoops
  BY DEF LocalizationInv, StopInv, StoppedIsSafe, ParkedBeforeLoops,
         LocalizationStopsMapping
<1> QED
  BY <1>1, LocalizationInvariant, ImplementsLocalMapping, LMStopInvariant, PTL

(***************************************************************************)
(* What is proved of LocalMapping with any callers holds in the system.    *)
(***************************************************************************)

(* isStopped() is true only while the mapper is parked or ending, a local  *)
(* bundle adjustment is aborted when it has to be, and no keyframe is in   *)
(* two places of the pipeline.                                             *)
THEOREM MapperKeepsItsPromises ==
  Spec => [](StoppedIsSafe /\ BAIsAborted /\ ProcessedOnce)
BY ImplementsLocalMapping, LMStops, LMAborts, LMProcessesOnce, PTL

(***************************************************************************)
(* Who changes what: the facts about one step that the next proofs share.  *)
(***************************************************************************)

(* Only the mapper moves the mapper.                                       *)
LEMMA OthersLeaveMapper ==
  ASSUME LMTypeInv, EnvironmentOrStutter
  PROVE  /\ lm'.pc = lm.pc
         /\ lm'.mbFinished = lm.mbFinished
         /\ lm'.mpCurrentKeyFrame = lm.mpCurrentKeyFrame
<1> USE DEF LMTypeInv, LMTypeOK, LMType
<1>1. CASE UNCHANGED lm
  BY <1>1
<1>2. CASE CallInsert
  <2>1. PICK k \in KeyFrame : InsertKeyFrame(k)
    BY <1>2 DEF CallInsert
  <2> QED BY <2>1 DEF InsertKeyFrame
<1>3. CASE CallRequestStop BY <1>3 DEF CallRequestStop, RequestStop
<1>4. CASE CallInterruptBA BY <1>4 DEF CallInterruptBA, InterruptBA
<1>5. CASE CallSetNotStop BY <1>5 DEF CallSetNotStop, SetNotStop
<1>6. CASE CallRequestFinish BY <1>6 DEF CallRequestFinish, RequestFinish
<1>7. CASE CallRequestReset BY <1>7 DEF CallRequestReset, RequestReset
<1>8. ASSUME NEW t \in Callers, CallRelease(t)
      PROVE  /\ lm'.pc = lm.pc
             /\ lm'.mbFinished = lm.mbFinished
             /\ lm'.mpCurrentKeyFrame = lm.mpCurrentKeyFrame
  <2>1. CASE ReleaseLock(t) BY <2>1 DEF ReleaseLock
  <2>2. CASE ReleaseFlags(t)
    <3>1. CASE lm.mbFinished BY <2>2, <3>1 DEF ReleaseFlags
    <3>2. CASE ~lm.mbFinished BY <2>2, <3>2 DEF ReleaseFlags
    <3> QED BY <3>1, <3>2
  <2>3. CASE ReleaseClear(t) BY <2>3 DEF ReleaseClear
  <2> QED BY <1>8, <2>1, <2>2, <2>3 DEF CallRelease
<1> QED
  BY <1>1, <1>2, <1>3, <1>4, <1>5, <1>6, <1>7, <1>8
     DEF EnvironmentOrStutter, LMEnvironment, UseMap, DrainLoopQueue, lmVars

(* Of the loop closer's members the caller's thread writes only the two    *)
(* requests, and the application thread none.                              *)
LEMMA MainLeavesLoops ==
  ASSUME SlamInv, MainStep \/ UIStep
  PROVE  /\ gba' = gba
         /\ lc'.pc = lc.pc /\ lc'.loops = lc.loops
         /\ lc'.mbFinished = lc.mbFinished
         /\ lc'.mbRunningGBA = lc.mbRunningGBA
         /\ lc'.mbStopGBA = lc.mbStopGBA
         /\ lc'.mnFullBAIdx = lc.mnFullBAIdx
         /\ lc'.mpThreadGBA = lc.mpThreadGBA
         /\ lc'.mMutexGBA = lc.mMutexGBA
         /\ lc'.mpCurrentKF = lc.mpCurrentKF
<1> USE DEF SlamInv, LCType
<1>1. CASE MapperIsReset \/ ShutdownCloser
  BY <1>1 DEF MapperIsReset, ShutdownCloser
<1>2. CASE UNCHANGED loopVars
  BY <1>2 DEF loopVars
<1>3. CASE UIStep
  BY <1>2, <1>3
     DEF UIStep, ActivateLocalizationMode, DeactivateLocalizationMode, Reset
<1>4. CASE MainStep
  BY <1>1, <1>2, <1>4
     DEF MainStep, CheckMode, EnterLocalization, LeaveLocalization,
         TRReleaseLock, TRReleaseFlags, TRReleaseClear, CheckReset,
         CloserIsReset, ClearAll, BeginTrack, CreateFirst, InsertFirst,
         TrackOnly, TrackLost, ConsiderKeyFrame, NeedNewKeyFrame,
         CheckAccept, InterruptMapper, CheckQueue, CreateNewKeyFrame,
         InsertNew, ClearNotStop, EndTrack, Shutdown, MapperHasFinished,
         CloserHasFinished, NoGBAIsRunning
<1> QED BY <1>3, <1>4

(***************************************************************************)
(* Shutdown.  "Finished" is what the two threads say of themselves: the    *)
(* constructors say it too, before a thread has run, and the mapper says   *)
(* it while it still has one lock to take.  Shutdown asks one after the    *)
(* other, and what it was told stays true: a thread that has ended does    *)
(* not start again, and only the loop closer launches bundle adjustments.  *)
(***************************************************************************)
AnswersHold ==
  /\ tr.pc \in {"shutdownWaitLC", "shutdownWaitGBA", "down"} => At("done")
  /\ tr.pc \in {"shutdownWaitGBA", "down"} => LCAt("done")
  /\ TRAt("down") => ~lc.mbRunningGBA

EndInv ==
  /\ lm.mbFinished => lm.pc \in {"start", "setStopped", "done"}
  /\ lc.mbFinished => lc.pc \in {"start", "done"}
  /\ tr.allStarted => ~At("start") /\ ~LCAt("start") /\ AnswersHold

(* The mapper clears mbFinished when it starts and sets it when it ends.   *)
LEMMA StepEnd ==
  ASSUME LMTypeInv, LMStep,
         lm.mbFinished => lm.pc \in {"start", "setStopped", "done"}
  PROVE  /\ lm'.mbFinished => lm'.pc \in {"start", "setStopped", "done"}
         /\ ~At("start")'
         /\ ~At("done")
<1> USE DEF LMTypeInv, LMTypeOK, LMType, At, Goto
<1>1. CASE Start BY <1>1 DEF Start
<1>2. CASE SetBusy BY <1>2 DEF SetBusy
<1>3. CASE CheckNewKeyFrames BY <1>3 DEF CheckNewKeyFrames
<1>4. CASE ProcessNewKeyFrame BY <1>4 DEF ProcessNewKeyFrame
<1>5. CASE ProcessNothing BY <1>5 DEF ProcessNothing
<1>6. CASE SearchInNeighbors BY <1>6 DEF SearchInNeighbors
<1>7. CASE ClearAbort BY <1>7 DEF ClearAbort
<1>8. CASE CheckQueueBeforeBA BY <1>8 DEF CheckQueueBeforeBA
<1>9. CASE CheckStopBeforeBA BY <1>9 DEF CheckStopBeforeBA
<1>10. CASE LocalBundleAdjustment BY <1>10 DEF LocalBundleAdjustment
<1>20. CASE RecoverOptimized BY <1>20 DEF RecoverOptimized
<1>11. CASE HandOver BY <1>11 DEF HandOver
<1>12. CASE Stop BY <1>12 DEF Stop
<1>13. CASE Resume BY <1>13 DEF Resume
<1>14. CASE LeaveStop BY <1>14 DEF LeaveStop
<1>15. CASE ResetIfRequested BY <1>15 DEF ResetIfRequested
<1>16. CASE SetIdle BY <1>16 DEF SetIdle
<1>17. CASE CheckFinish BY <1>17 DEF CheckFinish
<1>18. CASE SetFinished BY <1>18 DEF SetFinished
<1>19. CASE SetStopped BY <1>19 DEF SetStopped
<1> QED
  BY <1>1, <1>2, <1>3, <1>4, <1>5, <1>6, <1>7, <1>8, <1>9, <1>10,
     <1>11, <1>12, <1>13, <1>14, <1>15, <1>16, <1>17, <1>18, <1>19, <1>20
     DEF LMStep

(* So does the loop closer.                                                *)
LEMMA CloserEnd ==
  ASSUME SlamInv, LCStep, lc.mbFinished => lc.pc \in {"start", "done"}
  PROVE  /\ lc'.mbFinished => lc'.pc \in {"start", "done"}
         /\ ~LCAt("start")'
         /\ ~LCAt("done")
<1> USE DEF SlamInv, LCType, LCAt, LCGoto
<1>1. CASE LCStart BY <1>1 DEF LCStart
<1>2. CASE LCSetFinish BY <1>2 DEF LCSetFinish
<1>3. CASE /\ lc'.mbFinished = lc.mbFinished
           /\ lc.pc \notin {"start", "done"} /\ lc'.pc \notin {"start", "done"}
  BY <1>3
<1>4. CASE LCCheckNewKeyFrames BY <1>3, <1>4 DEF LCCheckNewKeyFrames
<1>5. CASE DetectLoop
  <2>1. \/ lc' = [lc EXCEPT !.pc = "reset",
                            !.mpCurrentKF = Head(mlpLoopKeyFrameQueue)]
        \/ lc' = [lc EXCEPT !.pc = "requestStop",
                            !.mpCurrentKF = Head(mlpLoopKeyFrameQueue),
                            !.loops = @ + 1]
    BY <1>5 DEF DetectLoop
  <2> QED BY <1>3, <1>5, <2>1 DEF DetectLoop
<1>6. CASE LCRequestStop BY <1>3, <1>6 DEF LCRequestStop
<1>7. CASE TestGBA BY <1>3, <1>7 DEF TestGBA
<1>8. CASE AbortGBA BY <1>3, <1>8 DEF AbortGBA
<1>9. CASE WaitStop BY <1>3, <1>9 DEF WaitStop
<1>10. CASE LCLockMap BY <1>3, <1>10 DEF LCLockMap
<1>11. CASE LCUnlockMap BY <1>3, <1>11 DEF LCUnlockMap
<1>12. CASE FuseAndOptimise BY <1>3, <1>12 DEF FuseAndOptimise
<1>13. CASE LaunchGBA BY <1>3, <1>13 DEF LaunchGBA
<1>14. CASE SpawnGBA BY <1>3, <1>14 DEF SpawnGBA
<1>15. CASE LCReleaseLock BY <1>3, <1>15 DEF LCReleaseLock
<1>16. CASE LCReleaseFlags BY <1>3, <1>16 DEF LCReleaseFlags
<1>17. CASE LCReleaseClear BY <1>3, <1>17 DEF LCReleaseClear
<1>18. CASE LCResetIfRequested BY <1>3, <1>18 DEF LCResetIfRequested
<1>19. CASE LCCheckFinish BY <1>3, <1>19 DEF LCCheckFinish
<1> QED
  BY <1>1, <1>2, <1>4, <1>5, <1>6, <1>7, <1>8, <1>9, <1>10, <1>11, <1>12,
     <1>13, <1>14, <1>15, <1>16, <1>17, <1>18, <1>19 DEF LCStep

(* A step of the caller's thread moves neither thread; it goes on to ask   *)
(* the next only when the one before has said that it has finished.        *)
LEMMA MainEnd ==
  ASSUME SlamInv, StopInv, EndInv, MainStep
  PROVE  EndInv'
<1>1. /\ lm'.pc = lm.pc /\ lm'.mbFinished = lm.mbFinished
      /\ lc'.pc = lc.pc /\ lc'.mbFinished = lc.mbFinished
      /\ lc'.mbRunningGBA = lc.mbRunningGBA
  BY MainOpen, OthersLeaveMapper, MainLeavesLoops DEF SlamInv
<1>2. tr'.allStarted => ~At("start") /\ ~LCAt("start") /\ AnswersHold'
  <2> USE DEF SlamInv, TRType, TRAt, TRGoto, EndInv, At, LCAt
  <2>1. CASE /\ tr'.allStarted = tr.allStarted
             /\ tr'.pc \notin {"shutdownWaitLC", "shutdownWaitGBA", "down"}
    BY <2>1 DEF AnswersHold
  <2>2. CASE Shutdown
    <3>1. /\ tr'.pc = "shutdownLC"
          /\ tr'.allStarted => lm.pc # "start" /\ lc.pc # "start"
      BY <2>2 DEF Shutdown
    <3> QED BY <3>1 DEF AnswersHold
  <2>3. CASE MapperHasFinished
    <3>1. /\ tr'.allStarted = tr.allStarted /\ tr'.pc = "shutdownWaitLC"
          /\ lm.mMutexFinish = Nobody /\ lm.mbFinished
      BY <2>3 DEF MapperHasFinished, IsFinished, FinishIsFree
    <3>2. lm.pc # "setStopped"
      BY <3>1, ThreadsAssumption DEF StopInv
    <3> QED BY <1>1, <3>1, <3>2 DEF AnswersHold
  <2>29. CASE CloserHasFinished
    <3>1. /\ tr.pc = "shutdownWaitLC" /\ tr'.allStarted = tr.allStarted
          /\ tr'.pc = IF lc.mbFinished THEN "shutdownWaitGBA"
                                       ELSE "shutdownWait"
      BY <2>29 DEF CloserHasFinished
    <3> QED BY <1>1, <3>1 DEF AnswersHold
  <2>30. CASE NoGBAIsRunning
    <3>1. /\ tr.pc = "shutdownWaitGBA" /\ tr'.allStarted = tr.allStarted
          /\ tr'.pc = IF lc.mbRunningGBA THEN "shutdownWait" ELSE "down"
      BY <2>30 DEF NoGBAIsRunning
    <3> QED BY <1>1, <3>1 DEF AnswersHold
  <2>4. CASE CheckMode BY <2>1, <2>4 DEF CheckMode
  <2>5. CASE EnterLocalization BY <2>1, <2>5 DEF EnterLocalization
  <2>6. CASE LeaveLocalization
    <3>1. \/ tr' = [tr EXCEPT !.pc = "releaseLock", !.mbOnlyTracking = FALSE]
          \/ tr' = [tr EXCEPT !.pc = "checkReset"]
      BY <2>6 DEF LeaveLocalization
    <3> QED BY <2>1, <3>1
  <2>7. CASE TRReleaseLock BY <2>1, <2>7 DEF TRReleaseLock
  <2>8. CASE TRReleaseFlags BY <2>1, <2>8 DEF TRReleaseFlags
  <2>9. CASE TRReleaseClear BY <2>1, <2>9 DEF TRReleaseClear
  <2>10. CASE CheckReset BY <2>1, <2>10 DEF CheckReset
  <2>11. CASE MapperIsReset BY <2>1, <2>11 DEF MapperIsReset
  <2>12. CASE CloserIsReset BY <2>1, <2>12 DEF CloserIsReset
  <2>13. CASE ClearAll BY <2>1, <2>13 DEF ClearAll
  <2>14. CASE BeginTrack BY <2>1, <2>14 DEF BeginTrack
  <2>15. CASE CreateFirst BY <2>1, <2>15 DEF CreateFirst
  <2>16. CASE InsertFirst BY <2>1, <2>16 DEF InsertFirst
  <2>17. CASE TrackOnly BY <2>1, <2>17 DEF TrackOnly
  <2>18. CASE TrackLost BY <2>1, <2>18 DEF TrackLost
  <2>19. CASE ConsiderKeyFrame BY <2>1, <2>19 DEF ConsiderKeyFrame
  <2>20. CASE NeedNewKeyFrame BY <2>1, <2>20 DEF NeedNewKeyFrame
  <2>21. CASE CheckAccept BY <2>1, <2>21 DEF CheckAccept
  <2>22. CASE InterruptMapper BY <2>1, <2>22 DEF InterruptMapper
  <2>23. CASE CheckQueue BY <2>1, <2>23 DEF CheckQueue
  <2>24. CASE CreateNewKeyFrame
    <3>1. \/ tr' = [tr EXCEPT !.pc = "endTrack"]
          \/ tr' = [tr EXCEPT !.pc = "insert", !.nNextId = @ + 1,
                              !.mpReferenceKF = NextKeyFrame]
      BY <2>24 DEF CreateNewKeyFrame
    <3> QED BY <2>1, <3>1
  <2>25. CASE InsertNew BY <2>1, <2>25 DEF InsertNew
  <2>26. CASE ClearNotStop BY <2>1, <2>26 DEF ClearNotStop
  <2>27. CASE EndTrack BY <2>1, <2>27 DEF EndTrack
  <2>28. CASE ShutdownCloser BY <2>1, <2>28 DEF ShutdownCloser
  <2> QED
    BY <2>2, <2>3, <2>4, <2>5, <2>6, <2>7, <2>8, <2>9, <2>10, <2>11, <2>12,
       <2>13, <2>14, <2>15, <2>16, <2>17, <2>18, <2>19, <2>20, <2>21,
       <2>22, <2>23, <2>24, <2>25, <2>26, <2>27, <2>28, <2>29, <2>30
       DEF MainStep
<1> QED BY <1>1, <1>2 DEF EndInv, At, LCAt

(* The invariant holds always. *)
LEMMA EndInvariant == Spec => []EndInv
<1>1. Init => EndInv
  BY DEF Init, LMInit, LCInit, EndInv
<1>2. SlamInv /\ StopInv /\ EndInv /\ [Next]_vars => EndInv'
  <2> SUFFICES ASSUME SlamInv, StopInv, EndInv, [Next]_vars
               PROVE  EndInv'
    OBVIOUS
  <2> USE DEF EndInv, AnswersHold, TRAt, At, LCAt
  <2>1. CASE MapperStep
    BY <2>1, StepEnd DEF MapperStep, loopVars, SlamInv
  <2>2. CASE CloserStep
    <3>1. lm'.pc = lm.pc /\ lm'.mbFinished = lm.mbFinished
      BY <2>2, CloserOpen, OthersLeaveMapper DEF SlamInv
    <3> QED BY <2>2, <3>1, CloserEnd DEF CloserStep
  <2>3. ASSUME NEW g \in GBAs, GBAThreadStep(g)
        PROVE  EndInv'
    <3>1. lm'.pc = lm.pc /\ lm'.mbFinished = lm.mbFinished
      BY <2>3, GBAOpen, OthersLeaveMapper DEF SlamInv
    <3>2. lc'.pc = lc.pc
      BY <2>3, GBATypes
    <3>3. /\ lc'.mbFinished = lc.mbFinished
          /\ lc'.mbRunningGBA => lc.mbRunningGBA
      BY <2>3
         DEF GBAThreadStep, GBAStep, GBAStart, GBAOptimise, GBALock,
             GBARequestStop, GBAWaitStop, GBALockMap, GBAUpdate,
             GBAReleaseLock, GBAReleaseFlags, GBAReleaseClear, GBAFinish,
             SlamInv, LCType
    <3> QED BY <2>3, <3>1, <3>2, <3>3 DEF GBAThreadStep
  <2>4. CASE MainStep
    BY <2>4, MainEnd
  <2>5. CASE UIStep
    BY <2>5
       DEF UIStep, ActivateLocalizationMode, DeactivateLocalizationMode,
           Reset, lmVars, loopVars
  <2>6. CASE UNCHANGED vars
    BY <2>6 DEF vars
  <2> QED BY <2>1, <2>2, <2>3, <2>4, <2>5, <2>6 DEF Next, Terminated
<1> QED
  BY <1>1, <1>2, SlamInvariant, ImplementsLocalMapping,
     LMStopInvariant, PTL DEF Spec

(***************************************************************************)
(* The global bundle adjustments exclude each other, and a stop request    *)
(* excludes that any of them applies its result: mMutexGBA is held from    *)
(* the check of the request to the end, and AbortGBA takes it to make the  *)
(* request.                                                                *)
(***************************************************************************)
Holding == {"requestStop", "waitStop", "lockMap", "update", "releaseLock",
            "releaseFlags", "releaseClear", "finish"}

(* Where the closer is between a stop request and the launch that takes it *)
(* back.                                                                   *)
AfterAbort == {"waitStop", "lockMap", "correct", "fuse", "launch", "spawn"}

GBAInv ==
  /\ \A g \in GBAs : gba[g].pc \in Holding => lc.mMutexGBA = g
  /\ lc.mbStopGBA =>
       lc.pc \in AfterAbort /\ \A g \in GBAs : ~GBAApplying(g)

LEMMA NobodyIsNoThread == Nobody \notin GBAs
BY ThreadsAssumption, LoopThreadsAssumption

(* Steps of the loop closer.                                               *)
LEMMA CloserExclusion ==
  ASSUME SlamInv, GBAInv, LCStep
  PROVE  GBAInv'
<1> USE NobodyIsNoThread
    DEF SlamInv, LCType, GBAInv, AfterAbort, LCAt, LCGoto
<1>1. CASE UNCHANGED gba /\ lc'.mMutexGBA = lc.mMutexGBA
           /\ lc'.mbStopGBA = lc.mbStopGBA
           /\ (lc.pc \in AfterAbort => lc'.pc \in AfterAbort)
  BY <1>1 DEF GBAApplying
<1>2. CASE AbortGBA
  <2>1. \A g \in GBAs : gba'[g].pc = gba[g].pc
    BY <1>2 DEF AbortGBA, GBAType
  <2>2. /\ lc'.pc = "waitStop" /\ lc'.mMutexGBA = lc.mMutexGBA
        /\ lc.mMutexGBA = Nobody
    BY <1>2 DEF AbortGBA, GBAIsFree
  <2>3. \A g \in GBAs : gba[g].pc \notin Holding
    BY <2>2
  <2>4. \A g \in GBAs : ~GBAApplying(g)'
    BY <2>1, <2>3 DEF GBAApplying, Holding
  <2> QED BY <2>1, <2>2, <2>3, <2>4
<1>3. CASE SpawnGBA
  <2>1. PICK g \in GBAs :
          /\ gba[g].pc = "idle"
          /\ gba' = [gba EXCEPT ![g] = [pc |-> "start", idx |-> FALSE,
                                        aborted |-> "no"]]
          /\ lc' = [lc EXCEPT !.pc = "releaseLock", !.mbStopGBA = FALSE,
                              !.mpThreadGBA = g]
    BY <1>3 DEF SpawnGBA
  <2>2. gba'[g].pc = "start" /\ \A h \in GBAs \ {g} : gba'[h] = gba[h]
    BY <2>1 DEF GBAType
  <2>3. lc'.mMutexGBA = lc.mMutexGBA /\ ~lc'.mbStopGBA
    BY <2>1
  <2> QED BY <2>2, <2>3 DEF Holding
<1>4. CASE LCStart BY <1>1, <1>4 DEF LCStart
<1>5. CASE LCCheckNewKeyFrames BY <1>1, <1>5 DEF LCCheckNewKeyFrames
<1>6. CASE DetectLoop
  <2>1. \/ lc' = [lc EXCEPT !.pc = "reset",
                            !.mpCurrentKF = Head(mlpLoopKeyFrameQueue)]
        \/ lc' = [lc EXCEPT !.pc = "requestStop",
                            !.mpCurrentKF = Head(mlpLoopKeyFrameQueue),
                            !.loops = @ + 1]
    BY <1>6 DEF DetectLoop
  <2> QED BY <1>1, <1>6, <2>1 DEF DetectLoop
<1>7. CASE LCRequestStop BY <1>1, <1>7 DEF LCRequestStop
<1>8. CASE TestGBA BY <1>1, <1>8 DEF TestGBA
<1>9. CASE WaitStop BY <1>1, <1>9 DEF WaitStop
<1>10. CASE LCLockMap BY <1>1, <1>10 DEF LCLockMap
<1>11. CASE LCUnlockMap BY <1>1, <1>11 DEF LCUnlockMap
<1>12. CASE FuseAndOptimise BY <1>1, <1>12 DEF FuseAndOptimise
<1>13. CASE LaunchGBA BY <1>1, <1>13 DEF LaunchGBA
<1>14. CASE LCReleaseLock BY <1>1, <1>14 DEF LCReleaseLock
<1>15. CASE LCReleaseFlags BY <1>1, <1>15 DEF LCReleaseFlags
<1>16. CASE LCReleaseClear BY <1>1, <1>16 DEF LCReleaseClear
<1>17. CASE LCResetIfRequested BY <1>1, <1>17 DEF LCResetIfRequested
<1>18. CASE LCCheckFinish BY <1>1, <1>18 DEF LCCheckFinish
<1>19. CASE LCSetFinish BY <1>1, <1>19 DEF LCSetFinish
<1> QED
  BY <1>2, <1>3, <1>4, <1>5, <1>6, <1>7, <1>8, <1>9, <1>10, <1>11, <1>12,
     <1>13, <1>14, <1>15, <1>16, <1>17, <1>18, <1>19 DEF LCStep

(* One step of a bundle adjustment, as the proofs below need it: which     *)
(* slot it changes and how, and what it does to the closer's members.      *)
LEMMA GBAProgress ==
  ASSUME SlamInv, NEW g \in GBAs, GBAStep(g)
  PROVE  /\ \A h \in GBAs \ {g} : gba'[h] = gba[h]
         /\ gba'[g].aborted = gba[g].aborted
         /\ lc'.pc = lc.pc /\ lc'.loops = lc.loops
         /\ lc'.mbStopGBA = lc.mbStopGBA /\ lc'.mnFullBAIdx = lc.mnFullBAIdx
         /\ lc'.mpThreadGBA = lc.mpThreadGBA
         /\ lc'.mbFinished = lc.mbFinished
         /\ lc'.mbResetRequested = lc.mbResetRequested
         /\ lc'.mpCurrentKF = lc.mpCurrentKF
         /\ \/ /\ gba[g].pc = "start" /\ gba'[g].pc = "optimise"
               /\ gba'[g].idx = lc.mnFullBAIdx
               /\ lc' = lc
            \/ /\ gba[g].pc = "optimise" /\ gba'[g].pc = "lockGBA"
               /\ gba'[g].idx = gba[g].idx
               /\ lc' = lc
            \/ /\ gba[g].pc = "lockGBA" /\ gba'[g].pc = "idle"
               /\ lc.mMutexGBA = Nobody
               /\ gba'[g].idx = gba[g].idx /\ gba[g].idx # lc.mnFullBAIdx
               /\ lc' = lc
            \/ /\ gba[g].pc = "lockGBA"
               /\ gba'[g].pc = IF lc.mbStopGBA THEN "finish" ELSE "requestStop"
               /\ gba'[g].idx = gba[g].idx /\ gba[g].idx = lc.mnFullBAIdx
               /\ lc.mMutexGBA = Nobody /\ lc'.mMutexGBA = g
               /\ lc'.mbRunningGBA = lc.mbRunningGBA
            \/ /\ gba[g].pc \in Holding \ {"finish"}
               /\ gba'[g].pc \in Holding \ {"requestStop"}
               /\ gba'[g].idx = gba[g].idx
               /\ lc' = lc
            \/ /\ gba[g].pc = "finish" /\ gba'[g].pc = "idle"
               /\ gba'[g].idx = gba[g].idx
               /\ lc'.mMutexGBA = Nobody /\ ~lc'.mbRunningGBA
<1> USE DEF SlamInv, GBAType, LCType, GBAAt, GBAGoto, Holding
<1>1. CASE GBAStart(g)
  <2>1. gba' = [gba EXCEPT ![g] = [@ EXCEPT !.pc = "optimise",
                                            !.idx = lc.mnFullBAIdx]]
    BY <1>1 DEF GBAStart
  <2> QED BY <1>1, <2>1 DEF GBAStart
<1>2. CASE GBAOptimise(g) BY <1>2 DEF GBAOptimise
<1>3. CASE GBALock(g) /\ gba[g].idx # lc.mnFullBAIdx
  BY <1>3 DEF GBALock, GBAIsFree
<1>4. CASE GBALock(g) /\ gba[g].idx = lc.mnFullBAIdx
  BY <1>4 DEF GBALock, GBAIsFree
<1>5. CASE GBARequestStop(g) BY <1>5 DEF GBARequestStop
<1>6. CASE GBAWaitStop(g) BY <1>6 DEF GBAWaitStop
<1>7. CASE GBALockMap(g) BY <1>7 DEF GBALockMap
<1>8. CASE GBAUpdate(g) BY <1>8 DEF GBAUpdate
<1>9. CASE GBAReleaseLock(g) BY <1>9 DEF GBAReleaseLock
<1>10. CASE GBAReleaseFlags(g)
  <2>1. CASE lm.mbFinished BY <1>10, <2>1 DEF GBAReleaseFlags
  <2>2. CASE ~lm.mbFinished BY <1>10, <2>2 DEF GBAReleaseFlags
  <2> QED BY <2>1, <2>2
<1>11. CASE GBAReleaseClear(g) BY <1>11 DEF GBAReleaseClear
<1>12. CASE GBAFinish(g) BY <1>12 DEF GBAFinish
<1> QED
  BY <1>1, <1>2, <1>3, <1>4, <1>5, <1>6, <1>7, <1>8, <1>9, <1>10, <1>11,
     <1>12 DEF GBAStep

(* Steps of a bundle adjustment.                                           *)
LEMMA GBAExclusion ==
  ASSUME SlamInv, GBAInv, NEW g \in GBAs, GBAStep(g)
  PROVE  GBAInv'
<1>1. \A h \in GBAs : gba'[h].pc \in Holding => lc'.mMutexGBA = h
  BY GBAProgress, NobodyIsNoThread DEF GBAInv, Holding
<1>2. ASSUME lc'.mbStopGBA
      PROVE  lc'.pc \in AfterAbort /\ \A h \in GBAs : ~GBAApplying(h)'
  <2>1. lc.mbStopGBA /\ lc'.pc = lc.pc
    BY <1>2, GBAProgress
  <2>2. ~GBAApplying(g)'
    BY <2>1, GBAProgress DEF GBAInv, GBAApplying, Holding
  <2>3. \A h \in GBAs \ {g} : gba'[h] = gba[h]
    BY GBAProgress
  <2>4. \A h \in GBAs \ {g} : ~GBAApplying(h)'
    BY <2>1, <2>3 DEF GBAInv, GBAApplying
  <2> QED BY <2>1, <2>2, <2>4 DEF GBAInv
<1> QED BY <1>1, <1>2 DEF GBAInv

(* The invariant holds always. *)
LEMMA ExclusionInvariant == Spec => []GBAInv
<1>1. Init => GBAInv
  BY DEF Init, LCInit, GBAInv, Holding
<1>2. SlamInv /\ GBAInv /\ [Next]_vars => GBAInv'
  <2> SUFFICES ASSUME SlamInv, GBAInv, [Next]_vars
               PROVE  GBAInv'
    OBVIOUS
  <2>1. CASE MapperStep
    BY <2>1 DEF MapperStep, loopVars, GBAInv, GBAApplying
  <2>2. CASE CloserStep
    BY <2>2, CloserExclusion DEF CloserStep
  <2>3. CASE \E g \in GBAs : GBAThreadStep(g)
    BY <2>3, GBAExclusion DEF GBAThreadStep
  <2>4. CASE MainStep \/ UIStep
    BY <2>4, MainLeavesLoops DEF GBAInv, GBAApplying
  <2>5. CASE UNCHANGED vars
    BY <2>5 DEF vars, GBAInv, GBAApplying
  <2> QED BY <2>1, <2>2, <2>3, <2>4, <2>5 DEF Next, Terminated
<1> QED BY <1>1, <1>2, SlamInvariant, PTL DEF Spec

(* Two bundle adjustments never apply their results at the same time, and  *)
(* none applies while a stop request stands: with any number of loops and  *)
(* threads, although old threads are only detached and a launch resets the *)
(* flags of the one before.                                                *)
THEOREM OneGBAApplies ==
  Spec => [](/\ \A g, h \in GBAs : GBAApplying(g) /\ GBAApplying(h) => g = h
             /\ lc.mbStopGBA => \A g \in GBAs : ~GBAApplying(g))
<1>1. GBAInv =>
        /\ \A g, h \in GBAs : GBAApplying(g) /\ GBAApplying(h) => g = h
        /\ lc.mbStopGBA => \A g \in GBAs : ~GBAApplying(g)
  BY DEF GBAInv, GBAApplying, Holding
<1> QED BY <1>1, ExclusionInvariant, PTL

(***************************************************************************)
(* The loop closer and the bundle adjustments it has launched.  mnFullBAIdx*)
(* is a bool, so it tells the first launch from a later one and no more;   *)
(* and the flags belong to all launches together.  What the code says of   *)
(* an aborted bundle adjustment therefore holds up to the second loop, and *)
(* the invariant says how: before the first launch there is no thread;     *)
(* after it the only thread is mpThreadGBA, mbRunningGBA is up as long as  *)
(* it lives, and when the closer has passed its test the thread has ended  *)
(* or the stop request stands.                                             *)
(***************************************************************************)
InCorrectLoop == AfterAbort \cup {"requestStop", "testGBA", "abortGBA"}

(* Bundle adjustments launched so far.                                     *)
Launched == IF lc.pc \in InCorrectLoop THEN lc.loops - 1 ELSE lc.loops

UnusedSlot == [pc |-> "idle", idx |-> FALSE, aborted |-> "no"]

BeforeFirstGBA ==
  /\ \A g \in GBAs : gba[g] = UnusedSlot
  /\ lc.mbRunningGBA <=> LCAt("spawn")
  /\ ~lc.mbStopGBA /\ ~lc.mnFullBAIdx /\ ~LCAt("abortGBA")

OnlyFirstGBA ==
  /\ \A g \in GBAs \ {lc.mpThreadGBA} : GBAAt(g, "idle")
  /\ lc.pc \in AfterAbort => lc.mbStopGBA \/ \A g \in GBAs : GBAAt(g, "idle")
  /\ lc.pc \notin AfterAbort =>
       /\ ~lc.mbStopGBA /\ ~lc.mnFullBAIdx
       /\ \A g \in GBAs : ~gba[g].idx /\ gba[g].aborted = "no"
       /\ lc.mbRunningGBA \/ \A g \in GBAs : GBAAt(g, "idle")

AbortedIsStale ==
  \A g \in GBAs : gba[g].aborted = "late" =>
    /\ gba[g].pc \in {"idle", "optimise", "lockGBA"}
    /\ ~gba[g].idx /\ lc.mnFullBAIdx

(* A stop request stands until the next launch, which takes it back        *)
(* together with the name of the thread it was meant for.                  *)
AbortStands ==
  \A g \in GBAs : gba[g].aborted # "no" /\ lc.mpThreadGBA = g => lc.mbStopGBA

LoopInv ==
  /\ AbortStands
  /\ lc.pc \in InCorrectLoop => lc.loops # 0
  /\ Launched = 0 => BeforeFirstGBA
  /\ Launched = 1 => OnlyFirstGBA
  /\ lc.loops <= 2 => AbortedIsStale

(* Most steps of the closer change nothing of this.                        *)
LEMMA QuietCloser ==
  ASSUME LoopInv, gba' = gba, Launched' = Launched,
         lc'.mbRunningGBA = lc.mbRunningGBA, lc'.mbStopGBA = lc.mbStopGBA,
         lc'.mnFullBAIdx = lc.mnFullBAIdx, lc'.mpThreadGBA = lc.mpThreadGBA,
         lc'.loops <= 2 => lc.loops <= 2,
         lc'.pc \in AfterAbort <=> lc.pc \in AfterAbort,
         lc'.pc \in InCorrectLoop => lc'.loops # 0,
         lc'.pc \notin {"spawn", "abortGBA"}, lc.pc # "spawn"
  PROVE  LoopInv'
<1>1. BeforeFirstGBA => BeforeFirstGBA'
  BY DEF BeforeFirstGBA, LCAt
<1>2. OnlyFirstGBA => OnlyFirstGBA'
  BY DEF OnlyFirstGBA, GBAAt
<1>3. AbortedIsStale => AbortedIsStale'
  BY DEF AbortedIsStale
<1>4. AbortStands => AbortStands'
  BY DEF AbortStands
<1> QED BY <1>1, <1>2, <1>3, <1>4 DEF LoopInv

(* The stop request is made under mMutexGBA: the thread it is meant for    *)
(* has not passed its check.                                               *)
LEMMA AbortKeepsLoops ==
  ASSUME SlamInv, GBAInv, LoopInv, AbortGBA
  PROVE  LoopInv'
<1> USE NobodyIsNoThread
    DEF SlamInv, LCType, GBAType, LCAt, AfterAbort, InCorrectLoop, Launched
<1>1. /\ lc.pc = "abortGBA" /\ lc.mMutexGBA = Nobody
      /\ lc'.pc = "waitStop" /\ lc'.mbStopGBA /\ lc'.mnFullBAIdx
      /\ lc'.loops = lc.loops /\ lc'.mpThreadGBA = lc.mpThreadGBA
  BY DEF AbortGBA, BumpFullBAIdx, GBAIsFree
<1>2. \A g \in GBAs :
        /\ gba'[g].pc = gba[g].pc
        /\ gba'[g].idx = gba[g].idx
        /\ gba'[g].aborted = "late" =>
             gba[g].aborted = "late" \/ gba[g].pc \notin {"idle", "start"}
  BY DEF AbortGBA, WhenTold
<1>3. lc.loops # 0 /\ Launched # 0 /\ Launched' # 0 /\ lc.loops \in Nat
  BY <1>1 DEF LoopInv, BeforeFirstGBA
<1>4. Launched' = 1 => OnlyFirstGBA'
  BY <1>1, <1>2 DEF LoopInv, OnlyFirstGBA, GBAAt
<1>5. ASSUME lc.loops <= 2, NEW g \in GBAs,
             gba'[g].aborted = "late"
      PROVE  /\ gba'[g].pc \in {"idle", "optimise", "lockGBA"}
             /\ ~gba'[g].idx
  <2>1. Launched = 1
    BY <1>1, <1>3, <1>5
  <2>2. ~gba[g].idx /\ gba[g].aborted = "no"
    BY <1>1, <2>1 DEF LoopInv, OnlyFirstGBA
  <2>3. gba[g].pc \notin Holding
    BY <1>1 DEF GBAInv
  <2> QED BY <1>2, <1>5, <2>2, <2>3 DEF GBAControl, Holding
<1> QED BY <1>1, <1>3, <1>4, <1>5 DEF LoopInv, AbortedIsStale, AbortStands

(* After the first launch the new thread is the only one.                  *)
LEMMA SpawnKeepsLoops ==
  ASSUME SlamInv, LoopInv, SpawnGBA
  PROVE  LoopInv'
<1> USE DEF SlamInv, LCType, LCAt, AfterAbort, InCorrectLoop, Launched
<1>1. PICK g \in GBAs :
        /\ gba' = [gba EXCEPT ![g] = [pc |-> "start", idx |-> FALSE,
                                      aborted |-> "no"]]
        /\ lc' = [lc EXCEPT !.pc = "releaseLock", !.mbStopGBA = FALSE,
                            !.mpThreadGBA = g]
  BY DEF SpawnGBA
<1>2. /\ lc.pc = "spawn" /\ lc'.pc = "releaseLock"
      /\ lc'.loops = lc.loops /\ lc.loops \in Nat
      /\ ~lc'.mbStopGBA /\ lc'.mpThreadGBA = g
      /\ lc'.mnFullBAIdx = lc.mnFullBAIdx
      /\ lc'.mbRunningGBA = lc.mbRunningGBA
  <2>1. lc.pc = "spawn" BY DEF SpawnGBA
  <2>2. lc.loops \in Nat OBVIOUS
  <2> QED BY <1>1, <2>1, <2>2
<1>3. /\ \A h \in GBAs \ {g} : gba'[h] = gba[h]
      /\ gba'[g].pc = "start" /\ ~gba'[g].idx /\ gba'[g].aborted = "no"
  BY <1>1 DEF GBAType
<1>4. lc.loops # 0 /\ Launched' = Launched + 1
  BY <1>2 DEF LoopInv
<1>5. ASSUME Launched = 0
      PROVE  OnlyFirstGBA'
  <2>1. BeforeFirstGBA
    BY <1>5 DEF LoopInv
  <2>2. /\ lc.mbRunningGBA /\ ~lc.mnFullBAIdx
        /\ \A h \in GBAs : gba[h] = UnusedSlot
    BY <1>2, <2>1 DEF BeforeFirstGBA
  <2>3. \A h \in GBAs : ~gba'[h].idx /\ gba'[h].aborted = "no"
    BY <1>3, <2>2 DEF UnusedSlot
  <2>4. \A h \in GBAs \ {g} : GBAAt(h, "idle")'
    BY <1>3, <2>2 DEF UnusedSlot, GBAAt
  <2> QED BY <1>2, <2>2, <2>3, <2>4 DEF OnlyFirstGBA
<1>6. AbortedIsStale => AbortedIsStale'
  BY <1>2, <1>3 DEF AbortedIsStale
<1>8. AbortStands'
  BY <1>2, <1>3 DEF AbortStands
<1>7. Launched \in Nat /\ Launched' # 0 /\ (Launched' = 1 => Launched = 0)
  BY <1>2, <1>4
<1> HIDE DEF Launched
<1> QED BY <1>2, <1>5, <1>6, <1>7, <1>8 DEF LoopInv

(* Steps of the loop closer.                                               *)
LEMMA CloserLoops ==
  ASSUME SlamInv, GBAInv, LoopInv, LCStep
  PROVE  LoopInv'
<1> USE DEF SlamInv, LCType, LCAt, LCGoto, AfterAbort, InCorrectLoop,
            Launched
<1>0. lc.loops \in Nat
  OBVIOUS
<1>1. CASE TestGBA
  <2>1. /\ lc.pc = "testGBA" /\ gba' = gba
        /\ lc'.pc = IF lc.mbRunningGBA THEN "abortGBA" ELSE "waitStop"
        /\ lc'.loops = lc.loops /\ lc'.mbRunningGBA = lc.mbRunningGBA
        /\ lc'.mbStopGBA = lc.mbStopGBA /\ lc'.mnFullBAIdx = lc.mnFullBAIdx
        /\ lc'.mpThreadGBA = lc.mpThreadGBA
    BY <1>1 DEF TestGBA
  <2>2. Launched' = Launched
    BY <2>1
  <2>3. BeforeFirstGBA => BeforeFirstGBA'
    BY <2>1 DEF BeforeFirstGBA
  <2>4. OnlyFirstGBA => OnlyFirstGBA'
    BY <2>1 DEF OnlyFirstGBA, GBAAt
  <2>5. AbortedIsStale => AbortedIsStale'
    BY <2>1 DEF AbortedIsStale
  <2>6. AbortStands => AbortStands'
    BY <2>1 DEF AbortStands
  <2> QED BY <2>1, <2>2, <2>3, <2>4, <2>5, <2>6 DEF LoopInv
<1>2. CASE LaunchGBA
  <2>1. /\ lc.pc = "launch" /\ lc'.pc = "spawn" /\ gba' = gba
        /\ lc'.loops = lc.loops /\ lc'.mbRunningGBA
        /\ lc'.mbStopGBA = lc.mbStopGBA /\ lc'.mnFullBAIdx = lc.mnFullBAIdx
        /\ lc'.mpThreadGBA = lc.mpThreadGBA
    BY <1>2 DEF LaunchGBA
  <2>2. Launched' = Launched
    BY <2>1
  <2>3. BeforeFirstGBA => BeforeFirstGBA'
    BY <2>1 DEF BeforeFirstGBA
  <2>4. OnlyFirstGBA => OnlyFirstGBA'
    BY <2>1 DEF OnlyFirstGBA, GBAAt
  <2>5. AbortedIsStale => AbortedIsStale'
    BY <2>1 DEF AbortedIsStale
  <2>6. AbortStands => AbortStands'
    BY <2>1 DEF AbortStands
  <2> QED BY <2>1, <2>2, <2>3, <2>4, <2>5, <2>6 DEF LoopInv
<1>3. CASE DetectLoop
  <2>1. \/ lc' = [lc EXCEPT !.pc = "reset",
                            !.mpCurrentKF = Head(mlpLoopKeyFrameQueue)]
        \/ lc' = [lc EXCEPT !.pc = "requestStop",
                            !.mpCurrentKF = Head(mlpLoopKeyFrameQueue),
                            !.loops = @ + 1]
    BY <1>3 DEF DetectLoop
  <2>2. lc.pc = "detect" /\ gba' = gba
    BY <1>3 DEF DetectLoop
  <2>3. CASE lc' = [lc EXCEPT !.pc = "reset",
                              !.mpCurrentKF = Head(mlpLoopKeyFrameQueue)]
    BY <2>2, <2>3, QuietCloser
  <2>4. CASE lc' = [lc EXCEPT !.pc = "requestStop",
                              !.mpCurrentKF = Head(mlpLoopKeyFrameQueue),
                              !.loops = @ + 1]
    <3>1. /\ lc'.pc = "requestStop" /\ lc'.loops = lc.loops + 1
          /\ lc'.mbRunningGBA = lc.mbRunningGBA
          /\ lc'.mbStopGBA = lc.mbStopGBA
          /\ lc'.mnFullBAIdx = lc.mnFullBAIdx
          /\ lc'.mpThreadGBA = lc.mpThreadGBA
      BY <2>4
    <3>2. Launched' = Launched /\ lc'.loops # 0
          /\ (lc'.loops <= 2 => lc.loops <= 2)
      BY <1>0, <2>2, <3>1
    <3>3. /\ lc.pc \notin AfterAbort /\ lc'.pc \notin AfterAbort
          /\ lc.pc # "spawn" /\ lc'.pc \notin {"spawn", "abortGBA"}
      BY <2>2, <3>1
    <3> HIDE DEF Launched, AfterAbort, InCorrectLoop
    <3> QED BY <2>2, <3>1, <3>2, <3>3, QuietCloser
  <2> QED BY <2>1, <2>3, <2>4
<1>4. CASE AbortGBA BY <1>4, AbortKeepsLoops
<1>5. CASE SpawnGBA BY <1>5, SpawnKeepsLoops
<1>6. CASE LCStart BY <1>6, QuietCloser DEF LCStart
<1>7. CASE LCCheckNewKeyFrames
  BY <1>7, QuietCloser DEF LCCheckNewKeyFrames
<1>8. CASE LCRequestStop BY <1>8, QuietCloser DEF LCRequestStop, LoopInv
<1>9. CASE WaitStop BY <1>9, QuietCloser DEF WaitStop, LoopInv
<1>10. CASE LCLockMap BY <1>10, QuietCloser DEF LCLockMap, LoopInv
<1>11. CASE LCUnlockMap BY <1>11, QuietCloser DEF LCUnlockMap, LoopInv
<1>12. CASE FuseAndOptimise
  BY <1>12, QuietCloser DEF FuseAndOptimise, LoopInv
<1>13. CASE LCReleaseLock BY <1>13, QuietCloser DEF LCReleaseLock
<1>14. CASE LCReleaseFlags BY <1>14, QuietCloser DEF LCReleaseFlags
<1>15. CASE LCReleaseClear BY <1>15, QuietCloser DEF LCReleaseClear
<1>16. CASE LCResetIfRequested BY <1>16, QuietCloser DEF LCResetIfRequested
<1>17. CASE LCCheckFinish BY <1>17, QuietCloser DEF LCCheckFinish
<1>18. CASE LCSetFinish BY <1>18, QuietCloser DEF LCSetFinish
<1> QED
  BY <1>1, <1>2, <1>3, <1>4, <1>5, <1>6, <1>7, <1>8, <1>9, <1>10, <1>11,
     <1>12, <1>13, <1>14, <1>15, <1>16, <1>17, <1>18 DEF LCStep

(* Steps of a bundle adjustment: up to the second loop it is the first     *)
(* one, and if it was aborted its index no longer matches.                 *)
LEMMA GBALoops ==
  ASSUME SlamInv, LoopInv, NEW g \in GBAs, GBAStep(g)
  PROVE  LoopInv'
<1>1. Launched' = Launched /\ lc'.pc = lc.pc /\ lc'.loops = lc.loops
  BY GBAProgress DEF Launched
<1>2. ~BeforeFirstGBA
  BY GBAProgress DEF BeforeFirstGBA, UnusedSlot, Holding
<1>3. ASSUME OnlyFirstGBA
      PROVE  OnlyFirstGBA'
  <2>1. gba[g].pc # "idle"
    BY GBAProgress DEF Holding
  <2>2. g = lc.mpThreadGBA /\ g = lc'.mpThreadGBA
    BY <1>3, <2>1, GBAProgress DEF OnlyFirstGBA, GBAAt
  <2>3. \A h \in GBAs \ {g} : GBAAt(h, "idle")'
    BY <1>3, <2>2, GBAProgress DEF OnlyFirstGBA, GBAAt
  <2>4. ASSUME lc.pc \in AfterAbort
        PROVE  lc'.mbStopGBA
    BY <1>3, <2>1, <2>4, GBAProgress DEF OnlyFirstGBA, GBAAt
  <2>5. ASSUME lc.pc \notin AfterAbort
        PROVE  /\ ~lc'.mbStopGBA /\ ~lc'.mnFullBAIdx
               /\ \A h \in GBAs : ~gba'[h].idx /\ gba'[h].aborted = "no"
               /\ lc'.mbRunningGBA \/ GBAAt(g, "idle")'
    <3>1. /\ ~lc.mbStopGBA /\ ~lc.mnFullBAIdx /\ lc.mbRunningGBA
          /\ \A h \in GBAs : ~gba[h].idx /\ gba[h].aborted = "no"
      BY <1>3, <2>1, <2>5 DEF OnlyFirstGBA, GBAAt
    <3>2. ~gba'[g].idx /\ gba'[g].aborted = "no"
      BY <3>1, GBAProgress
    <3>3. lc'.mbRunningGBA \/ GBAAt(g, "idle")'
      BY <3>1, GBAProgress DEF GBAAt
    <3>4. \A h \in GBAs \ {g} : gba'[h] = gba[h]
      BY GBAProgress
    <3>5. ~lc'.mbStopGBA /\ ~lc'.mnFullBAIdx
      BY <3>1, GBAProgress
    <3> QED BY <3>1, <3>2, <3>3, <3>4, <3>5
  <2> QED BY <1>1, <2>2, <2>3, <2>4, <2>5 DEF OnlyFirstGBA
<1>4. ASSUME AbortedIsStale
      PROVE  AbortedIsStale'
  <2>1. /\ \A h \in GBAs \ {g} : gba'[h] = gba[h]
        /\ lc'.mnFullBAIdx = lc.mnFullBAIdx
    BY GBAProgress
  <2>2. ASSUME gba'[g].aborted = "late"
        PROVE  /\ gba'[g].pc \in {"idle", "optimise", "lockGBA"}
               /\ ~gba'[g].idx /\ lc.mnFullBAIdx
    <3>1. /\ gba[g].pc \in {"idle", "optimise", "lockGBA"}
          /\ ~gba[g].idx /\ lc.mnFullBAIdx
      BY <1>4, <2>2, GBAProgress DEF AbortedIsStale
    <3> QED BY <3>1, GBAProgress DEF Holding
  <2> QED BY <1>4, <2>1, <2>2 DEF AbortedIsStale
<1>5. AbortStands => AbortStands'
  BY GBAProgress DEF AbortStands
<1> QED BY <1>1, <1>2, <1>3, <1>4, <1>5 DEF LoopInv

(* The invariant holds always. *)
LEMMA LoopInvariant == Spec => []LoopInv
<1>1. Init => LoopInv
  BY DEF Init, LCInit, LoopInv, Launched, BeforeFirstGBA, UnusedSlot,
         AbortedIsStale, AbortStands, InCorrectLoop, AfterAbort, LCAt
<1>2. SlamInv /\ GBAInv /\ LoopInv /\ [Next]_vars => LoopInv'
  <2> SUFFICES ASSUME SlamInv, GBAInv, LoopInv, [Next]_vars
               PROVE  LoopInv'
    OBVIOUS
  <2>0. ASSUME gba' = gba, lc'.pc = lc.pc, lc'.loops = lc.loops,
               lc'.mbRunningGBA = lc.mbRunningGBA,
               lc'.mbStopGBA = lc.mbStopGBA,
               lc'.mnFullBAIdx = lc.mnFullBAIdx,
               lc'.mpThreadGBA = lc.mpThreadGBA
        PROVE  LoopInv'
    BY <2>0
       DEF LoopInv, Launched, BeforeFirstGBA, OnlyFirstGBA, AbortedIsStale,
           AbortStands, LCAt, GBAAt
  <2>1. CASE MapperStep
    BY <2>0, <2>1 DEF MapperStep, loopVars
  <2>2. CASE CloserStep
    BY <2>2, CloserLoops DEF CloserStep
  <2>3. CASE \E g \in GBAs : GBAThreadStep(g)
    BY <2>3, GBALoops DEF GBAThreadStep
  <2>4. CASE MainStep \/ UIStep
    BY <2>0, <2>4, MainLeavesLoops
  <2>5. CASE UNCHANGED vars
    BY <2>0, <2>5 DEF vars
  <2> QED BY <2>1, <2>2, <2>3, <2>4, <2>5 DEF Next, Terminated
<1> QED BY <1>1, <1>2, SlamInvariant, ExclusionInvariant, PTL DEF Spec

(* Up to the second loop, whatever the bounds: while a loop is corrected   *)
(* the earlier bundle adjustment has ended, or has not got to its check,   *)
(* or skips the update.  (With a third loop it is false: the thread of the *)
(* first one, when it ends, clears the mbRunningGBA of the second.)        *)
THEOREM CorrectionExcludes == Spec => []CorrectionExcludesGBA
<1>1. ASSUME SlamInv, GBAInv, LoopInv, lc.loops <= 2, Correcting,
             NEW g \in GBAs
      PROVE  gba[g].pc \in {"idle", "start", "optimise", "lockGBA", "finish"}
  <2>1. lc.pc \in AfterAbort /\ lc.pc \in InCorrectLoop
    BY <1>1 DEF Correcting, AfterAbort, InCorrectLoop
  <2>2. Launched = 0 \/ Launched = 1
    BY <1>1, <2>1 DEF Launched, LoopInv, SlamInv, LCType
  <2>3. CASE Launched = 0
    BY <1>1, <2>3 DEF LoopInv, BeforeFirstGBA, UnusedSlot
  <2>4. CASE Launched = 1
    <3>1. lc.mbStopGBA \/ GBAAt(g, "idle")
      BY <1>1, <2>1, <2>4 DEF LoopInv, OnlyFirstGBA
    <3>2. gba[g].pc \in GBAControl
      BY <1>1 DEF SlamInv, GBAType
    <3> QED
      BY <1>1, <3>1, <3>2 DEF GBAInv, GBAApplying, GBAAt, GBAControl
  <2> QED BY <2>2, <2>3, <2>4
<1>2. SlamInv /\ GBAInv /\ LoopInv => CorrectionExcludesGBA
  BY <1>1 DEF CorrectionExcludesGBA
<1> QED BY <1>2, SlamInvariant, ExclusionInvariant, LoopInvariant, PTL

(* Up to the second loop, whatever the bounds: a bundle adjustment that    *)
(* has read its index and is then told to stop never applies its result;   *)
(* one that is told before applies it only when the next one has been      *)
(* launched.  (With a third loop the first half is false: mnFullBAIdx is   *)
(* true before and after the second request.)                              *)
THEOREM AbortedIsDiscarded == Spec => []AbortedGBADiscarded
<1>1. ASSUME SlamInv, GBAInv, LoopInv, lc.loops <= 2,
             NEW g \in GBAs, gba[g].aborted # "no", GBAApplying(g)
      PROVE  gba[g].aborted = "early" /\ lc.mpThreadGBA # g
  <2>1. gba[g].aborted # "late"
    BY <1>1 DEF LoopInv, AbortedIsStale, GBAApplying
  <2>2. gba[g].aborted \in Aborted
    BY <1>1 DEF SlamInv, GBAType
  <2>3. ~lc.mbStopGBA
    BY <1>1 DEF GBAInv
  <2> QED BY <1>1, <2>1, <2>2, <2>3 DEF Aborted, LoopInv, AbortStands
<1>2. SlamInv /\ GBAInv /\ LoopInv => AbortedGBADiscarded
  BY <1>1 DEF AbortedGBADiscarded
<1> QED BY <1>2, SlamInvariant, ExclusionInvariant, LoopInvariant, PTL

(* Shutdown returns only when both threads have ended, provided they were  *)
(* running when it was called; and, if no second loop was closed, when no  *)
(* bundle adjustment is left: mbRunningGBA is up as long as the only one   *)
(* lives.                                                                  *)
THEOREM ShutdownWaitsForThreads == Spec => []ShutdownWaits
<1>1. ASSUME SlamInv, EndInv, LoopInv, TRAt("down"), tr.allStarted
      PROVE  /\ At("done") /\ LCAt("done")
             /\ lc.loops <= 1 => GBAAlive = {}
  <2>1. At("done") /\ LCAt("done") /\ ~lc.mbRunningGBA
    BY <1>1 DEF EndInv, AnswersHold, TRAt
  <2>2. ASSUME lc.loops <= 1
        PROVE  \A g \in GBAs : GBAAt(g, "idle")
    <3>1. lc.pc \notin InCorrectLoop /\ lc.pc \notin AfterAbort
      BY <2>1 DEF InCorrectLoop, AfterAbort, LCAt
    <3>2. Launched = 0 \/ Launched = 1
      BY <1>1, <2>2, <3>1 DEF Launched, SlamInv, LCType
    <3>3. CASE Launched = 0
      BY <1>1, <3>3 DEF LoopInv, BeforeFirstGBA, UnusedSlot, GBAAt
    <3>4. CASE Launched = 1
      BY <1>1, <2>1, <3>1, <3>4 DEF LoopInv, OnlyFirstGBA
    <3> QED BY <3>2, <3>3, <3>4
  <2> QED BY <2>1, <2>2 DEF GBAAlive, GBAAt
<1>2. SlamInv /\ EndInv /\ LoopInv => ShutdownWaits
  BY <1>1 DEF ShutdownWaits
<1> QED BY <1>2, SlamInvariant, EndInvariant, LoopInvariant, PTL

(***************************************************************************)
(* The caller's thread while the application leaves the mode alone.        *)
(***************************************************************************)
ChangingMode == {"waitStop", "releaseLock", "releaseFlags", "releaseClear"}

Resetting == {"resetLM", "resetLC", "clearMap"}

(* A step that neither moves keyframes nor begins one of the tracker's     *)
(* conversations with the other threads.                                   *)
QuietMain ==
  /\ lm'.mlNewKeyFrames = lm.mlNewKeyFrames
  /\ lm'.mbStopped = lm.mbStopped
  /\ lm'.mbResetRequested = lm.mbResetRequested
  /\ map'.mspKeyFrames = map.mspKeyFrames /\ map'.deleted = map.deleted
  /\ mlpLoopKeyFrameQueue' = mlpLoopKeyFrameQueue
  /\ lc'.mbResetRequested = lc.mbResetRequested
  /\ tr'.mState = tr.mState /\ tr'.mpReferenceKF = tr.mpReferenceKF
  /\ tr'.pc \notin ChangingMode \cup Resetting
  /\ sys'.mbActivateLocalizationMode => sys.mbActivateLocalizationMode
  /\ sys'.mbDeactivateLocalizationMode = sys.mbDeactivateLocalizationMode
  /\ ui' = ui

LEMMA MainCases ==
  ASSUME SlamInv, MainStep
  PROVE  \/ CheckMode \/ LeaveLocalization
         \/ TRReleaseLock \/ TRReleaseFlags \/ TRReleaseClear
         \/ CheckReset \/ MapperIsReset \/ CloserIsReset \/ ClearAll
         \/ CreateFirst \/ InsertFirst \/ CreateNewKeyFrame \/ InsertNew
         \/ QuietMain
<1> USE DEF SlamInv, LMTypeInv, LMTypeOK, LMType, MapType, LCType, TRType,
            SysType, TRAt, TRGoto, lmVars, loopVars, QuietMain,
            ChangingMode, Resetting
<1>1. CASE EnterLocalization BY <1>1 DEF EnterLocalization
<1>2. CASE BeginTrack BY <1>2 DEF BeginTrack, LockMap
<1>3. CASE TrackOnly BY <1>3 DEF TrackOnly
<1>4. CASE TrackLost BY <1>4 DEF TrackLost
<1>5. CASE ConsiderKeyFrame BY <1>5 DEF ConsiderKeyFrame
<1>6. CASE NeedNewKeyFrame BY <1>6 DEF NeedNewKeyFrame
<1>7. CASE CheckAccept BY <1>7 DEF CheckAccept
<1>8. CASE InterruptMapper BY <1>8 DEF InterruptMapper, InterruptBA
<1>9. CASE CheckQueue BY <1>9 DEF CheckQueue
<1>10. CASE ClearNotStop BY <1>10 DEF ClearNotStop, SetNotStop
<1>11. CASE EndTrack BY <1>11 DEF EndTrack, UnlockMap
<1>12. CASE Shutdown BY <1>12 DEF Shutdown, RequestFinish
<1>13. CASE ShutdownCloser BY <1>13 DEF ShutdownCloser
<1>14. CASE MapperHasFinished BY <1>14 DEF MapperHasFinished
<1>15. CASE CloserHasFinished BY <1>15 DEF CloserHasFinished
<1>16. CASE NoGBAIsRunning BY <1>16 DEF NoGBAIsRunning
<1> QED
  BY <1>1, <1>2, <1>3, <1>4, <1>5, <1>6, <1>7, <1>8, <1>9, <1>10, <1>11,
     <1>12, <1>13, <1>14, <1>15, <1>16 DEF MainStep

(* As long as the application has not touched the mode, the tracker does   *)
(* not stop or release the mapper.                                         *)
ModeInv ==
  ui.toggles = 0 =>
    /\ ~sys.mbActivateLocalizationMode /\ ~sys.mbDeactivateLocalizationMode
    /\ tr.pc \notin ChangingMode

LEMMA MainMode ==
  ASSUME SlamInv, ModeInv, MainStep
  PROVE  ModeInv'
<1> USE DEF SlamInv, SysType, TRType, TRAt, TRGoto, ChangingMode, ModeInv
<1>1. CASE CheckMode BY <1>1 DEF CheckMode
<1>2. CASE LeaveLocalization BY <1>2 DEF LeaveLocalization
<1>3. CASE TRReleaseLock \/ TRReleaseFlags \/ TRReleaseClear
  BY <1>3 DEF TRReleaseLock, TRReleaseFlags, TRReleaseClear
<1>4. CASE CheckReset BY <1>4 DEF CheckReset
<1>5. CASE MapperIsReset \/ CloserIsReset
  BY <1>5 DEF MapperIsReset, CloserIsReset
<1>6. CASE ClearAll BY <1>6 DEF ClearAll
<1>7. CASE CreateFirst BY <1>7 DEF CreateFirst
<1>8. CASE InsertFirst BY <1>8 DEF InsertFirst
<1>9. CASE CreateNewKeyFrame BY <1>9 DEF CreateNewKeyFrame
<1>10. CASE InsertNew BY <1>10 DEF InsertNew
<1>11. CASE QuietMain BY <1>11 DEF QuietMain
<1> QED
  BY MainCases, <1>1, <1>2, <1>3, <1>4, <1>5, <1>6, <1>7, <1>8, <1>9,
     <1>10, <1>11

(* The application thread counts its changes of mode.                      *)
LEMMA UICounts ==
  ASSUME SlamInv, UIStep, ui'.toggles = 0
  PROVE  /\ ui.toggles = 0
         /\ UNCHANGED <<lmVars, loopVars, tr>>
         /\ sys'.mbActivateLocalizationMode = sys.mbActivateLocalizationMode
         /\ sys'.mbDeactivateLocalizationMode
              = sys.mbDeactivateLocalizationMode
<1> USE DEF SlamInv, UIType, SysType
<1>1. CASE ActivateLocalizationMode \/ DeactivateLocalizationMode
  <2>1. ui'.toggles = ui.toggles + 1
    BY <1>1 DEF ActivateLocalizationMode, DeactivateLocalizationMode
  <2> QED BY <2>1
<1>2. CASE Reset BY <1>2 DEF Reset
<1> QED BY <1>1, <1>2 DEF UIStep

LEMMA ModeInvariant == Spec => []ModeInv
<1>1. Init => ModeInv
  BY DEF Init, ModeInv, ChangingMode
<1>2. SlamInv /\ ModeInv /\ [Next]_vars => ModeInv'
  <2> SUFFICES ASSUME SlamInv, ModeInv, [Next]_vars
               PROVE  ModeInv'
    OBVIOUS
  <2>1. CASE MapperStep \/ CloserStep \/ \E g \in GBAs : GBAThreadStep(g)
    BY <2>1 DEF MapperStep, CloserStep, GBAThreadStep, ModeInv
  <2>2. CASE MainStep
    BY <2>2, MainMode
  <2>3. CASE UIStep
    BY <2>3, UICounts DEF ModeInv
  <2>4. CASE UNCHANGED vars
    BY <2>4 DEF vars, ModeInv
  <2> QED BY <2>1, <2>2, <2>3, <2>4 DEF Next, Terminated
<1> QED BY <1>1, <1>2, SlamInvariant, PTL DEF Spec

(***************************************************************************)
(* The first loop is corrected with the mapper parked: nobody else         *)
(* releases it, and the tracker does not insert into a parked mapper.      *)
(***************************************************************************)
ParkedInv ==
  Correcting /\ ui.toggles = 0 /\ lc.loops = 1 => lm.mbStopped

(* Steps of the loop closer: it corrects only after its wait.              *)
LEMMA CloserParks ==
  ASSUME SlamInv, ParkedInv, CloserStep
  PROVE  ParkedInv'
<1> USE DEF SlamInv, LCType, CloserStep, LCAt, LCGoto, lmVars, ParkedInv,
            Correcting
<1>1. CASE WaitStop BY <1>1 DEF WaitStop, IsStopped
<1>2. CASE /\ lm' = lm /\ lc'.loops = lc.loops
           /\ lc.pc \in {"lockMap", "correct", "fuse", "launch", "spawn"}
  BY <1>2
<1>3. CASE LCLockMap BY <1>2, <1>3 DEF LCLockMap
<1>4. CASE LCUnlockMap BY <1>2, <1>4 DEF LCUnlockMap
<1>5. CASE FuseAndOptimise BY <1>2, <1>5 DEF FuseAndOptimise
<1>6. CASE LaunchGBA BY <1>2, <1>6 DEF LaunchGBA
<1>7. CASE SpawnGBA BY <1>7 DEF SpawnGBA
<1>8. CASE LCStart BY <1>8 DEF LCStart
<1>9. CASE LCCheckNewKeyFrames BY <1>9 DEF LCCheckNewKeyFrames
<1>10. CASE DetectLoop
  <2>1. \/ lc' = [lc EXCEPT !.pc = "reset",
                            !.mpCurrentKF = Head(mlpLoopKeyFrameQueue)]
        \/ lc' = [lc EXCEPT !.pc = "requestStop",
                            !.mpCurrentKF = Head(mlpLoopKeyFrameQueue),
                            !.loops = @ + 1]
    BY <1>10 DEF DetectLoop
  <2> QED BY <2>1
<1>11. CASE LCRequestStop BY <1>11 DEF LCRequestStop
<1>12. CASE TestGBA BY <1>12 DEF TestGBA
<1>13. CASE AbortGBA BY <1>13 DEF AbortGBA
<1>14. CASE LCReleaseLock BY <1>14 DEF LCReleaseLock
<1>15. CASE LCReleaseFlags BY <1>15 DEF LCReleaseFlags
<1>16. CASE LCReleaseClear BY <1>16 DEF LCReleaseClear
<1>17. CASE LCResetIfRequested BY <1>17 DEF LCResetIfRequested
<1>18. CASE LCCheckFinish BY <1>18 DEF LCCheckFinish
<1>19. CASE LCSetFinish BY <1>19 DEF LCSetFinish
<1> QED
  BY <1>1, <1>3, <1>4, <1>5, <1>6, <1>7, <1>8, <1>9, <1>10, <1>11, <1>12,
     <1>13, <1>14, <1>15, <1>16, <1>17, <1>18, <1>19 DEF LCStep

(* Steps of the caller's thread: only a Release lowers mbStopped.          *)
LEMMA MainKeepsStopped ==
  ASSUME SlamInv, MainStep, tr.pc \notin ChangingMode
  PROVE  lm'.mbStopped = lm.mbStopped
<1> USE DEF SlamInv, LMTypeInv, LMTypeOK, LMType, TRAt, TRGoto, lmVars,
            ChangingMode
<1>1. CASE CheckMode BY <1>1 DEF CheckMode, RequestStop
<1>2. CASE LeaveLocalization BY <1>2 DEF LeaveLocalization
<1>3. CASE TRReleaseLock \/ TRReleaseFlags \/ TRReleaseClear
  BY <1>3 DEF TRReleaseLock, TRReleaseFlags, TRReleaseClear
<1>4. CASE CheckReset BY <1>4 DEF CheckReset, RequestReset
<1>5. CASE MapperIsReset \/ CloserIsReset
  BY <1>5 DEF MapperIsReset, CloserIsReset
<1>6. CASE ClearAll BY <1>6 DEF ClearAll
<1>7. CASE CreateFirst BY <1>7 DEF CreateFirst
<1>8. CASE InsertFirst BY <1>8 DEF InsertFirst, InsertKeyFrame
<1>9. CASE CreateNewKeyFrame BY <1>9 DEF CreateNewKeyFrame, SetNotStop
<1>10. CASE InsertNew BY <1>10 DEF InsertNew, InsertKeyFrame
<1>11. CASE QuietMain BY <1>11 DEF QuietMain
<1> QED
  BY MainCases, <1>1, <1>2, <1>3, <1>4, <1>5, <1>6, <1>7, <1>8, <1>9,
     <1>10, <1>11

LEMMA ParkedInvariant == Spec => []ParkedInv
<1>1. Init => ParkedInv
  BY DEF Init, LCInit, ParkedInv, Correcting
<1>2. SlamInv /\ LoopInv /\ ModeInv /\ ParkedInv /\ [Next]_vars => ParkedInv'
  <2> SUFFICES ASSUME SlamInv, LoopInv, ModeInv, ParkedInv, [Next]_vars
               PROVE  ParkedInv'
    OBVIOUS
  <2>1. CASE MapperStep
    BY <2>1, StepFlags
       DEF MapperStep, loopVars, SlamInv, ParkedInv, Correcting
  <2>2. CASE CloserStep
    BY <2>2, CloserParks
  <2>3. ASSUME NEW g \in GBAs, GBAThreadStep(g)
        PROVE  ParkedInv'
    <3>1. ~BeforeFirstGBA
      BY <2>3, GBAProgress
         DEF GBAThreadStep, BeforeFirstGBA, UnusedSlot, Holding
    <3>2. ~(Correcting /\ lc.loops = 1)
      BY <3>1
         DEF LoopInv, Launched, Correcting, InCorrectLoop, AfterAbort
    <3>3. lc'.pc = lc.pc /\ lc'.loops = lc.loops
      BY <2>3, GBAProgress DEF GBAThreadStep
    <3> QED BY <3>2, <3>3 DEF ParkedInv, Correcting
  <2>4. CASE MainStep
    <3>1. /\ lc'.pc = lc.pc /\ lc'.loops = lc.loops
      BY <2>4, MainLeavesLoops
    <3>2. ui' = ui
      BY <2>4, MainCases
         DEF QuietMain, CheckMode, LeaveLocalization, TRReleaseLock,
             TRReleaseFlags, TRReleaseClear, CheckReset, MapperIsReset,
             CloserIsReset, ClearAll, CreateFirst, InsertFirst,
             CreateNewKeyFrame, InsertNew
    <3> QED
      BY <2>4, <3>1, <3>2, MainKeepsStopped
         DEF ModeInv, ParkedInv, Correcting
  <2>5. CASE UIStep
    BY <2>5, UICounts DEF ParkedInv, Correcting, lmVars, loopVars
  <2>6. CASE UNCHANGED vars
    BY <2>6 DEF vars, ParkedInv, Correcting
  <2> QED BY <2>1, <2>2, <2>3, <2>4, <2>5, <2>6 DEF Next, Terminated
<1> QED
  BY <1>1, <1>2, SlamInvariant, LoopInvariant, ModeInvariant, PTL DEF Spec

(* No keyframe is inserted while the first loop is corrected, if the       *)
(* application does not change the mode: for any bounds, with the mapper   *)
(* parked and the tracker honouring its flag.                              *)
THEOREM NoInsertionInFirstCorrection == Spec => []NoInsertionDuringCorrection
<1>1. ParkedInv /\ NotStopHonoured => NoInsertionDuringCorrection
  BY DEF ParkedInv, NotStopHonoured, NoInsertionDuringCorrection
<1> QED BY <1>1, ParkedInvariant, NotStopIsHonoured, PTL

(***************************************************************************)
(* No dangling keyframe.  The reset is a conversation in two rounds: once  *)
(* the mapper has answered, nothing is left in its hands, and it finds     *)
(* nothing to take up again because the thread that feeds it is the one    *)
(* that resets; then the same for the loop closer.  Only then are the      *)
(* keyframes destroyed.                                                    *)
(***************************************************************************)

(* Whatever holds a keyframe while no loop is being corrected.             *)
InReach ==
  QueuedKeyFrames \cup InProcess \cup ForLoopClosing \cup map.mspKeyFrames
    \cup (IF tr.mState = "OK" THEN {tr.mpReferenceKF} ELSE {})

MapperAnswered ==
  \/ tr.pc \in {"resetLC", "clearMap"}
  \/ TRAt("resetLM") /\ ~lm.mbResetRequested

CloserAnswered ==
  \/ TRAt("clearMap")
  \/ TRAt("resetLC") /\ ~lc.mbResetRequested

ResetInv ==
  NeverReleased =>
    /\ InReach \cap map.deleted = {}
    /\ At("process") => lm.mlNewKeyFrames # << >>
    /\ MapperAnswered => lm.mlNewKeyFrames = << >> /\ InProcess = {}
    /\ CloserAnswered => mlpLoopKeyFrameQueue = << >>

(* The queue of the mapper, as a set.                                      *)
LEMMA QueueAsSet ==
  ASSUME LMTypeInv
  PROVE  /\ lm.mlNewKeyFrames = << >> => QueuedKeyFrames = {}
         /\ mlpLoopKeyFrameQueue = << >> => ForLoopClosing = {}
BY DEF QueuedKeyFrames, ForLoopClosing

(* A step of the mapper passes keyframes on, reaches for no other, destroys*)
(* none, and does not take one out of an empty queue.                      *)
LEMMA StepReach ==
  ASSUME LMTypeInv, LMStep, UNCHANGED tr,
         At("process") => lm.mlNewKeyFrames # << >>
  PROVE  /\ InReach' \subseteq InReach
         /\ map'.deleted = map.deleted
         /\ At("process")' => lm'.mlNewKeyFrames # << >>
         /\ lm.mlNewKeyFrames = << >> /\ InProcess = {} =>
              /\ lm'.mlNewKeyFrames = << >> /\ InProcess' = {}
              /\ mlpLoopKeyFrameQueue' = mlpLoopKeyFrameQueue
         /\ \/ lm'.mbResetRequested = lm.mbResetRequested
            \/ lm'.mlNewKeyFrames = << >> /\ InProcess' = {}
<1> USE DEF LMTypeInv, LMTypeOK, LMType, MapType, At, Goto
<1>1. CASE /\ lm'.mlNewKeyFrames = lm.mlNewKeyFrames
           /\ lm'.mbResetRequested = lm.mbResetRequested
           /\ InProcess' \subseteq InProcess
           /\ lm'.pc # "process"
           /\ UNCHANGED <<map, mlpLoopKeyFrameQueue>>
  BY <1>1 DEF InReach, QueuedKeyFrames, ForLoopClosing
<1>2. CASE ProcessNewKeyFrame
  <2>1. /\ Head(lm.mlNewKeyFrames) \in QueuedKeyFrames
        /\ QueuedKeyFrames' \subseteq QueuedKeyFrames
    <3>1. \A i \in DOMAIN Tail(lm.mlNewKeyFrames) :
            /\ i + 1 \in DOMAIN lm.mlNewKeyFrames
            /\ Tail(lm.mlNewKeyFrames)[i] = lm.mlNewKeyFrames[i + 1]
      BY <1>2 DEF ProcessNewKeyFrame
    <3>2. /\ 1 \in DOMAIN lm.mlNewKeyFrames
          /\ Head(lm.mlNewKeyFrames) = lm.mlNewKeyFrames[1]
      BY <1>2 DEF ProcessNewKeyFrame
    <3> QED BY <1>2, <3>1, <3>2 DEF ProcessNewKeyFrame, QueuedKeyFrames
  <2>2. /\ InProcess' = {Head(lm.mlNewKeyFrames)}
        /\ map'.mspKeyFrames
             = map.mspKeyFrames \cup {Head(lm.mlNewKeyFrames)}
        /\ map'.deleted = map.deleted
        /\ mlpLoopKeyFrameQueue' = mlpLoopKeyFrameQueue
        /\ lm'.mbResetRequested = lm.mbResetRequested
        /\ lm.mlNewKeyFrames # << >> /\ lm'.pc = "fuse"
    BY <1>2 DEF ProcessNewKeyFrame, AddKeyFrame, InProcess
  <2>3. ForLoopClosing' = ForLoopClosing
    BY <2>2 DEF ForLoopClosing
  <2> HIDE DEF LMTypeInv, LMTypeOK, LMType, MapType
  <2> QED BY <2>1, <2>2, <2>3 DEF InReach
<1>3. CASE HandOver
  <2>1. /\ lm'.mlNewKeyFrames = lm.mlNewKeyFrames /\ map' = map
        /\ lm'.mbResetRequested = lm.mbResetRequested
        /\ lm'.pc = "reset" /\ InProcess = {lm.mpCurrentKeyFrame}
        /\ InProcess' = {}
    BY <1>3 DEF HandOver, InProcess
  <2>2. \/ mlpLoopKeyFrameQueue' = mlpLoopKeyFrameQueue
        \/ mlpLoopKeyFrameQueue'
             = Append(mlpLoopKeyFrameQueue, lm.mpCurrentKeyFrame)
    BY <1>3 DEF HandOver
  <2>3. ForLoopClosing' \subseteq ForLoopClosing \cup InProcess
    BY <2>1, <2>2 DEF ForLoopClosing
  <2>4. QueuedKeyFrames' = QueuedKeyFrames
    BY <2>1 DEF QueuedKeyFrames
  <2> HIDE DEF LMTypeInv, LMTypeOK, LMType, MapType
  <2> QED BY <2>1, <2>3, <2>4 DEF InReach
<1>4. CASE ResetIfRequested
  <2>1. CASE lm.mbResetRequested
    <3>1. /\ lm'.mlNewKeyFrames = << >> /\ lm'.pc = "setIdle"
          /\ UNCHANGED <<map, mlpLoopKeyFrameQueue>>
      BY <1>4, <2>1 DEF ResetIfRequested
    <3>2. InProcess' = {} /\ QueuedKeyFrames' = {}
      BY <3>1 DEF InProcess, QueuedKeyFrames
    <3> QED BY <3>1, <3>2 DEF InReach, ForLoopClosing
  <2>2. CASE ~lm.mbResetRequested
    BY <1>1, <1>4, <2>2 DEF ResetIfRequested, InProcess
  <2> QED BY <2>1, <2>2
<1>5. CASE CheckNewKeyFrames
  <2>1. /\ lm'.mlNewKeyFrames = lm.mlNewKeyFrames
        /\ lm'.mbResetRequested = lm.mbResetRequested
        /\ lm'.pc = IF lm.mlNewKeyFrames # << >> THEN "process" ELSE "tryStop"
        /\ UNCHANGED <<map, mlpLoopKeyFrameQueue>>
    BY <1>5 DEF CheckNewKeyFrames
  <2>2. InProcess' = {}
    BY <2>1 DEF InProcess
  <2> QED BY <2>1, <2>2 DEF InReach, QueuedKeyFrames, ForLoopClosing
<1>6. CASE Start BY <1>1, <1>6 DEF Start, InProcess
<1>7. CASE SetBusy BY <1>1, <1>7 DEF SetBusy, InProcess
<1>8. CASE ProcessNothing BY <1>8 DEF ProcessNothing
<1>9. CASE SearchInNeighbors BY <1>1, <1>9 DEF SearchInNeighbors, InProcess
<1>10. CASE ClearAbort BY <1>1, <1>10 DEF ClearAbort, InProcess
<1>11. CASE CheckQueueBeforeBA
  BY <1>1, <1>11 DEF CheckQueueBeforeBA, InProcess
<1>12. CASE CheckStopBeforeBA
  BY <1>1, <1>12 DEF CheckStopBeforeBA, InProcess
<1>13. CASE LocalBundleAdjustment
  BY <1>1, <1>13 DEF LocalBundleAdjustment, InProcess
<1>21. CASE RecoverOptimized BY <1>1, <1>21 DEF RecoverOptimized, InProcess
<1>14. CASE Stop BY <1>1, <1>14 DEF Stop, InProcess
<1>15. CASE Resume BY <1>1, <1>15 DEF Resume, InProcess
<1>16. CASE LeaveStop BY <1>1, <1>16 DEF LeaveStop, InProcess
<1>17. CASE SetIdle BY <1>1, <1>17 DEF SetIdle, InProcess
<1>18. CASE CheckFinish BY <1>1, <1>18 DEF CheckFinish, InProcess
<1>19. CASE SetFinished BY <1>1, <1>19 DEF SetFinished, InProcess
<1>20. CASE SetStopped BY <1>1, <1>20 DEF SetStopped, InProcess
<1> QED
  BY <1>2, <1>3, <1>4, <1>5, <1>6, <1>7, <1>8, <1>9, <1>10, <1>11, <1>12,
     <1>13, <1>14, <1>15, <1>16, <1>17, <1>18, <1>19, <1>20, <1>21
     DEF LMStep

(* The mapper keeps ResetInv.                                              *)
LEMMA MapperReset ==
  ASSUME SlamInv, ResetInv, MapperStep
  PROVE  ResetInv'
<1> SUFFICES ASSUME NeverReleased
             PROVE  /\ (InReach \cap map.deleted)' = {}
                    /\ At("process")' => lm'.mlNewKeyFrames # << >>
                    /\ MapperAnswered' =>
                         lm'.mlNewKeyFrames = << >> /\ InProcess' = {}
                    /\ CloserAnswered' => mlpLoopKeyFrameQueue' = << >>
  BY DEF ResetInv, NeverReleased, MapperStep, loopVars
<1>1. /\ LMTypeInv /\ LMStep /\ UNCHANGED <<tr, lc>>
      /\ At("process") => lm.mlNewKeyFrames # << >>
  BY DEF SlamInv, MapperStep, loopVars, ResetInv
<1>2. (InReach \cap map.deleted)' = {}
  BY <1>1, StepReach DEF ResetInv
<1>3. ASSUME MapperAnswered'
      PROVE  lm'.mlNewKeyFrames = << >> /\ InProcess' = {}
  <2>1. CASE MapperAnswered
    BY <1>1, <2>1, StepReach DEF ResetInv
  <2>2. CASE ~MapperAnswered
    <3>1. lm'.mbResetRequested # lm.mbResetRequested
      BY <1>1, <1>3, <2>2 DEF MapperAnswered, TRAt
    <3> QED BY <1>1, <3>1, StepReach
  <2> QED BY <2>1, <2>2
<1>4. ASSUME CloserAnswered'
      PROVE  mlpLoopKeyFrameQueue' = << >>
  <2>1. CloserAnswered /\ MapperAnswered
    BY <1>1, <1>4 DEF CloserAnswered, MapperAnswered, TRAt
  <2> QED BY <1>1, <2>1, StepReach DEF ResetInv
<1> QED BY <1>1, <1>2, <1>3, <1>4, StepReach

(* The loop closer drops keyframes, and on a reset all of them.            *)
LEMMA CloserReset ==
  ASSUME SlamInv, LocalizationInv, ResetInv, CloserStep
  PROVE  ResetInv'
<1> SUFFICES ASSUME NeverReleased, lc'.loops = 0
             PROVE  ResetInv'
  <2>1. ASSUME NeverReleased'
        PROVE  NeverReleased /\ lc'.loops = 0
    <3>1. ui.toggles = 0 /\ lc'.loops = 0
      BY <2>1 DEF NeverReleased, CloserStep
    <3>2. lc'.loops = lc.loops \/ lc'.loops = lc.loops + 1
      BY DEF CloserStep, LCStep, LCStart, LCCheckNewKeyFrames, DetectLoop,
             LCRequestStop, TestGBA, AbortGBA, WaitStop, LCLockMap,
             LCUnlockMap, FuseAndOptimise, LaunchGBA, SpawnGBA,
             LCReleaseLock, LCReleaseFlags, LCReleaseClear,
             LCResetIfRequested, LCCheckFinish, LCSetFinish, SlamInv,
             LCType, LCGoto
    <3>3. lc.loops \in Nat
      BY DEF SlamInv, LCType
    <3> QED BY <3>1, <3>2, <3>3 DEF NeverReleased
  <2> QED BY <2>1 DEF ResetInv
<1> USE DEF LCAt, LCGoto, lmVars
<1>1. /\ lc.pc \in {"start", "check", "detect", "reset", "checkFinish",
                    "finish", "done"}
      /\ lc.loops = 0 /\ UNCHANGED tr
      /\ lc \in [pc : LCControl, mbResetRequested : BOOLEAN,
                 mbFinishRequested : BOOLEAN, mbFinished : BOOLEAN,
                 mpCurrentKF : KeyFrame \cup {Nobody},
                 mbRunningGBA : BOOLEAN, mbFinishedGBA : BOOLEAN,
                 mbStopGBA : BOOLEAN, mnFullBAIdx : BOOLEAN,
                 mpThreadGBA : GBAs \cup {Nobody},
                 mMutexGBA : Callers \cup {Nobody}, loops : 0 .. MaxLoops]
  BY DEF LocalizationInv, NeverReleased, CloserStep, SlamInv, LCType
<1>2. ASSUME UNCHANGED <<lm, map>>,
             ForLoopClosing' \subseteq ForLoopClosing,
             CloserAnswered' => mlpLoopKeyFrameQueue' = << >>
      PROVE  ResetInv'
  <2>1. /\ QueuedKeyFrames' = QueuedKeyFrames /\ InProcess' = InProcess
        /\ MapperAnswered' <=> MapperAnswered
        /\ At("process")' <=> At("process")
    BY <1>1, <1>2
       DEF QueuedKeyFrames, InProcess, MapperAnswered, TRAt, At
  <2>2. InReach' \subseteq InReach
    BY <1>1, <1>2, <2>1 DEF InReach
  <2> QED BY <1>2, <2>1, <2>2 DEF ResetInv
<1>3. CASE UNCHANGED lmVars /\ lc'.mbResetRequested = lc.mbResetRequested
  <2>1. ForLoopClosing' = ForLoopClosing /\ (CloserAnswered' <=> CloserAnswered)
    BY <1>1, <1>3 DEF ForLoopClosing, CloserAnswered, TRAt
  <2> QED BY <1>2, <1>3, <2>1 DEF ResetInv
<1>4. CASE LCStart BY <1>1, <1>3, <1>4 DEF LCStart
<1>5. CASE LCCheckNewKeyFrames BY <1>1, <1>3, <1>5 DEF LCCheckNewKeyFrames
<1>6. CASE DetectLoop
  <2>1. /\ mlpLoopKeyFrameQueue # << >>
        /\ mlpLoopKeyFrameQueue \in Seq(KeyFrame)
        /\ mlpLoopKeyFrameQueue' = Tail(mlpLoopKeyFrameQueue)
        /\ UNCHANGED <<lm, map>>
    BY <1>6
       DEF DetectLoop, SlamInv, ControlInv, LMTypeInv, LMTypeOK
  <2>2. \A i \in DOMAIN Tail(mlpLoopKeyFrameQueue) :
          /\ i + 1 \in DOMAIN mlpLoopKeyFrameQueue
          /\ Tail(mlpLoopKeyFrameQueue)[i] = mlpLoopKeyFrameQueue[i + 1]
    BY <2>1
  <2>3. ForLoopClosing' \subseteq ForLoopClosing
    BY <2>1, <2>2 DEF ForLoopClosing
  <2>4. lc'.mbResetRequested = lc.mbResetRequested
    BY <1>1, <1>6 DEF DetectLoop
  <2>5. CloserAnswered' <=> CloserAnswered
    BY <1>1, <2>4 DEF CloserAnswered, TRAt
  <2>6. ~CloserAnswered
    BY <2>1 DEF ResetInv
  <2> QED BY <1>2, <2>1, <2>3, <2>5, <2>6
<1>7. CASE LCResetIfRequested
  <2>1. CASE lc.mbResetRequested
    <3>1. mlpLoopKeyFrameQueue' = << >> /\ UNCHANGED <<lm, map>>
      BY <1>7, <2>1 DEF LCResetIfRequested
    <3>2. ForLoopClosing' = {}
      BY <3>1 DEF ForLoopClosing
    <3> QED BY <1>2, <3>1, <3>2
  <2>2. CASE ~lc.mbResetRequested
    <3>1. UNCHANGED lmVars /\ lc'.mbResetRequested = FALSE
      BY <1>1, <1>7, <2>2 DEF LCResetIfRequested
    <3>2. lc.mbResetRequested = FALSE
      BY <1>1, <2>2
    <3> QED BY <1>3, <3>1, <3>2
  <2> QED BY <2>1, <2>2
<1>8. CASE LCCheckFinish BY <1>1, <1>3, <1>8 DEF LCCheckFinish
<1>9. CASE LCSetFinish BY <1>1, <1>3, <1>9 DEF LCSetFinish
<1> QED
  BY <1>1, <1>4, <1>5, <1>6, <1>7, <1>8, <1>9
     DEF CloserStep, LCStep, LCRequestStop, TestGBA, AbortGBA, WaitStop,
         LCLockMap, LCUnlockMap, FuseAndOptimise, LaunchGBA, SpawnGBA,
         LCReleaseLock, LCReleaseFlags, LCReleaseClear

LEMMA AppendNotEmpty ==
  ASSUME NEW S, NEW s \in Seq(S), NEW x \in S
  PROVE  Append(s, x) # << >>
<1>1. Len(Append(s, x)) = Len(s) + 1 /\ Len(s) \in Nat
  OBVIOUS
<1> QED BY <1>1

(* The tracker: it feeds the mapper only new keyframes, and only when it   *)
(* is not resetting; it destroys the map's keyframes when the two others   *)
(* have answered.                                                          *)
LEMMA MainReset ==
  ASSUME SlamInv, ModeInv, ResetInv, MainStep
  PROVE  ResetInv'
<1> SUFFICES ASSUME NeverReleased
             PROVE  ResetInv'
  <2>1. ui' = ui
    BY MainCases
       DEF QuietMain, CheckMode, LeaveLocalization, TRReleaseLock,
           TRReleaseFlags, TRReleaseClear, CheckReset, MapperIsReset,
           CloserIsReset, ClearAll, CreateFirst, InsertFirst,
           CreateNewKeyFrame, InsertNew
  <2>2. lc'.loops = lc.loops
    BY MainLeavesLoops
  <2> QED BY <2>1, <2>2 DEF ResetInv, NeverReleased
<1> USE DEF TRAt, TRGoto, lmVars, loopVars
<1>0. /\ InReach \cap map.deleted = {}
      /\ At("process") => lm.mlNewKeyFrames # << >>
      /\ MapperAnswered => lm.mlNewKeyFrames = << >> /\ InProcess = {}
      /\ CloserAnswered => mlpLoopKeyFrameQueue = << >>
      /\ tr.pc \notin ChangingMode
  BY DEF ResetInv, ModeInv, NeverReleased
<1>a. /\ \A k \in Known : Born(k)
      /\ map.deleted \subseteq Known
      /\ ~Born(NextKeyFrame)
  BY DEF SlamInv, IdentityInv, Known, Born, NextKeyFrame, TRType
<1>b. /\ At("process")' <=> At("process")
      /\ InProcess' = InProcess
  BY MainOpen, OthersLeaveMapper DEF SlamInv, At, InProcess
<1>c. /\ lm.mlNewKeyFrames \in Seq(KeyFrame)
      /\ mlpLoopKeyFrameQueue \in Seq(KeyFrame)
  BY DEF SlamInv, LMTypeInv, LMTypeOK, LMType
\* Nothing comes into reach, nothing is destroyed, no reset is under way.
<1>1. ASSUME lm'.mlNewKeyFrames = lm.mlNewKeyFrames,
             mlpLoopKeyFrameQueue' = mlpLoopKeyFrameQueue,
             map'.mspKeyFrames = map.mspKeyFrames,
             map'.deleted = map.deleted,
             tr'.mState = tr.mState, tr'.mpReferenceKF = tr.mpReferenceKF,
             MapperAnswered' => MapperAnswered,
             CloserAnswered' => CloserAnswered
      PROVE  ResetInv'
  <2>1. InReach' = InReach
    BY <1>1, <1>b DEF InReach, QueuedKeyFrames, ForLoopClosing
  <2> QED BY <1>0, <1>1, <1>b, <2>1 DEF ResetInv
\* A new keyframe comes into reach.
<1>2. ASSUME NEW k, k \notin map.deleted,
             InReach' \subseteq InReach \cup {k},
             map'.deleted = map.deleted,
             lm.mlNewKeyFrames # << >> => lm'.mlNewKeyFrames # << >>,
             tr'.pc \notin Resetting
      PROVE  ResetInv'
  <2>1. ~MapperAnswered' /\ ~CloserAnswered'
    BY <1>2 DEF MapperAnswered, CloserAnswered, Resetting
  <2> QED BY <1>0, <1>2, <1>b, <2>1 DEF ResetInv
<1>3. CASE CheckMode
  <2>1. lm'.mlNewKeyFrames = lm.mlNewKeyFrames
    BY <1>3 DEF CheckMode, RequestStop, SlamInv, LMTypeInv, LMTypeOK, LMType
  <2>2. /\ tr'.pc \notin Resetting
        /\ tr'.mState = tr.mState /\ tr'.mpReferenceKF = tr.mpReferenceKF
    BY <1>3 DEF CheckMode, Resetting, SlamInv, TRType
  <2> QED
    BY <1>1, <1>3, <2>1, <2>2
       DEF CheckMode, MapperAnswered, CloserAnswered, Resetting
<1>4. CASE LeaveLocalization
  <2>1. \/ tr' = [tr EXCEPT !.pc = "releaseLock", !.mbOnlyTracking = FALSE]
        \/ tr' = [tr EXCEPT !.pc = "checkReset"]
    BY <1>4 DEF LeaveLocalization
  <2>2. /\ tr'.pc \notin Resetting
        /\ tr'.mState = tr.mState /\ tr'.mpReferenceKF = tr.mpReferenceKF
    BY <2>1 DEF Resetting, SlamInv, TRType
  <2> QED
    BY <1>1, <1>4, <2>2
       DEF LeaveLocalization, MapperAnswered, CloserAnswered, Resetting
<1>5. CASE TRReleaseLock \/ TRReleaseFlags \/ TRReleaseClear
  BY <1>0, <1>5
     DEF TRReleaseLock, TRReleaseFlags, TRReleaseClear, ChangingMode
<1>6. CASE CheckReset
  <2>1. /\ lm'.mlNewKeyFrames = lm.mlNewKeyFrames
        /\ sys.mbReset => lm'.mbResetRequested
    BY <1>6 DEF CheckReset, RequestReset, SlamInv, LMTypeInv, LMTypeOK, LMType
  <2>2. /\ tr'.pc = IF sys.mbReset THEN "resetLM" ELSE "track"
        /\ tr'.mState = tr.mState /\ tr'.mpReferenceKF = tr.mpReferenceKF
    BY <1>6 DEF CheckReset, SlamInv, TRType
  <2>3. ~MapperAnswered' /\ ~CloserAnswered'
    BY <2>1, <2>2 DEF MapperAnswered, CloserAnswered
  <2> QED BY <1>1, <1>6, <2>1, <2>2, <2>3 DEF CheckReset
<1>7. CASE MapperIsReset
  <2>1. /\ MapperAnswered /\ tr'.pc = "resetLC" /\ lc'.mbResetRequested
        /\ tr'.mState = tr.mState /\ tr'.mpReferenceKF = tr.mpReferenceKF
    BY <1>7 DEF MapperIsReset, MapperAnswered, SlamInv, TRType, LCType
  <2>2. ~CloserAnswered'
    BY <2>1 DEF CloserAnswered
  <2> QED BY <1>1, <1>7, <2>1, <2>2 DEF MapperIsReset
<1>8. CASE CloserIsReset
  <2>1. /\ MapperAnswered /\ CloserAnswered
        /\ tr'.mState = tr.mState /\ tr'.mpReferenceKF = tr.mpReferenceKF
    BY <1>8
       DEF CloserIsReset, MapperAnswered, CloserAnswered, SlamInv, TRType
  <2> QED BY <1>1, <1>8, <2>1 DEF CloserIsReset
<1>9. CASE ClearAll
  <2>1. /\ lm.mlNewKeyFrames = << >> /\ InProcess = {}
        /\ mlpLoopKeyFrameQueue = << >>
    BY <1>0, <1>9 DEF ClearAll, MapperAnswered, CloserAnswered
  <2>2. /\ lm' = lm /\ mlpLoopKeyFrameQueue' = mlpLoopKeyFrameQueue
        /\ map'.mspKeyFrames = {}
        /\ tr'.mState = "NOT_INITIALIZED" /\ tr'.pc = "track"
    BY <1>9
       DEF ClearAll, ClearMap, SlamInv, LMTypeInv, LMTypeOK, MapType, TRType
  <2>3. QueuedKeyFrames' = {} /\ ForLoopClosing' = {}
    BY <2>1, <2>2 DEF QueuedKeyFrames, ForLoopClosing
  <2>4. InReach' = {}
    BY <1>b, <2>1, <2>2, <2>3 DEF InReach
  <2>5. ~MapperAnswered' /\ ~CloserAnswered'
    BY <2>2 DEF MapperAnswered, CloserAnswered
  <2> QED BY <1>0, <1>b, <2>2, <2>4, <2>5 DEF ResetInv
<1>10. CASE CreateFirst
  <2>1. PICK k : k = NextKeyFrame
    OBVIOUS
  <2>2. /\ lm' = lm /\ mlpLoopKeyFrameQueue' = mlpLoopKeyFrameQueue
        /\ map'.mspKeyFrames = map.mspKeyFrames \cup {k}
        /\ map'.deleted = map.deleted
        /\ tr.mState = "NOT_INITIALIZED" /\ tr'.mState = tr.mState
        /\ tr'.pc = "insertFirst"
    BY <1>10, <2>1
       DEF CreateFirst, AddKeyFrame, SlamInv, LMTypeInv, LMTypeOK, MapType,
           TRType
  <2>3. InReach' \subseteq InReach \cup {k}
    BY <1>b, <2>2 DEF InReach, QueuedKeyFrames, ForLoopClosing
  <2>4. k \notin map.deleted
    BY <1>a, <2>1
  <2> QED BY <1>2, <2>2, <2>3, <2>4 DEF Resetting
<1>11. CASE InsertFirst \/ InsertNew
  <2>1. PICK k : k = tr.mpReferenceKF
    OBVIOUS
  <2>2. /\ lm'.mlNewKeyFrames = Append(lm.mlNewKeyFrames, k)
        /\ UNCHANGED <<map, mlpLoopKeyFrameQueue>>
        /\ tr'.mpReferenceKF = k
        /\ tr'.pc \in {"endTrack", "clearNotStop"}
    BY <1>11, <2>1
       DEF InsertFirst, InsertNew, InsertKeyFrame, SlamInv, LMTypeInv,
           LMTypeOK, LMType, TRType
  <2>3. k \notin map.deleted
    BY <1>11, <2>1
       DEF InsertFirst, InsertNew, SlamInv, IdentityInv, Known
  <2>4. QueuedKeyFrames' \subseteq QueuedKeyFrames \cup {k}
    BY <1>c, <2>2 DEF QueuedKeyFrames
  <2>5. ForLoopClosing' = ForLoopClosing /\ lm'.mlNewKeyFrames # << >>
    <3>1. k \in KeyFrame
      BY <1>11, <2>1, BoundsAssumption
         DEF InsertFirst, InsertNew, SlamInv, ControlInv, KeyFrame, TRType
    <3>2. Append(lm.mlNewKeyFrames, k) # << >>
      BY <1>c, <3>1, AppendNotEmpty
    <3>3. lm'.mlNewKeyFrames # << >>
      BY <2>2, <3>2
    <3> QED BY <2>2, <3>3 DEF ForLoopClosing
  <2>6. InReach' \subseteq InReach \cup {k}
    BY <1>b, <2>2, <2>4, <2>5 DEF InReach
  <2> QED BY <1>2, <2>2, <2>3, <2>5, <2>6 DEF Resetting
<1>12. CASE CreateNewKeyFrame
  <2>1. PICK k : k = NextKeyFrame
    OBVIOUS
  <2>2. /\ lm'.mlNewKeyFrames = lm.mlNewKeyFrames
        /\ UNCHANGED <<map, mlpLoopKeyFrameQueue>>
    BY <1>12
       DEF CreateNewKeyFrame, SetNotStop, SlamInv, LMTypeInv, LMTypeOK, LMType
  <2>3. /\ tr'.mpReferenceKF \in {tr.mpReferenceKF, k}
        /\ tr'.mState = tr.mState
        /\ tr'.pc \in {"endTrack", "insert"}
    <3>1. CASE lm.mbStopped
      BY <1>12, <3>1 DEF CreateNewKeyFrame, SlamInv, TRType
    <3>2. CASE ~lm.mbStopped
      BY <1>12, <2>1, <3>2 DEF CreateNewKeyFrame, SlamInv, TRType
    <3> QED BY <3>1, <3>2
  <2>4. InReach' \subseteq InReach \cup {k}
    BY <1>b, <2>2, <2>3 DEF InReach, QueuedKeyFrames, ForLoopClosing
  <2>5. k \notin map.deleted
    BY <1>a, <2>1
  <2> QED BY <1>2, <2>2, <2>3, <2>4, <2>5 DEF Resetting
<1>13. CASE QuietMain
  <2>1. ~MapperAnswered' /\ ~CloserAnswered'
    BY <1>13 DEF QuietMain, MapperAnswered, CloserAnswered, Resetting
  <2> QED BY <1>1, <1>13, <2>1 DEF QuietMain
<1> QED
  BY MainCases, <1>3, <1>4, <1>5, <1>6, <1>7, <1>8, <1>9, <1>10, <1>11,
     <1>12, <1>13

LEMMA ResetInvariant == Spec => []ResetInv
<1>1. Init => ResetInv
  <2> SUFFICES ASSUME Init PROVE ResetInv
    OBVIOUS
  <2>1. map.deleted = {} /\ lm.mlNewKeyFrames = << >>
    BY DEF Init, LMInit, MapInit
  <2>2. lm.pc = "start" /\ tr.pc = "mode"
    BY DEF Init, LMInit
  <2> QED
    BY <2>1, <2>2 DEF ResetInv, At, TRAt, MapperAnswered, CloserAnswered
<1>2. SlamInv /\ LocalizationInv /\ ModeInv /\ ResetInv /\ [Next]_vars
        => ResetInv'
  <2> SUFFICES ASSUME SlamInv, LocalizationInv, ModeInv, ResetInv,
                      [Next]_vars
               PROVE  ResetInv'
    OBVIOUS
  <2>0. ASSUME UNCHANGED <<lmVars, loopVars, tr>>,
               NeverReleased' => NeverReleased
        PROVE  ResetInv'
    BY <2>0
       DEF ResetInv, InReach, QueuedKeyFrames, InProcess, ForLoopClosing,
           MapperAnswered, CloserAnswered, TRAt, At, lmVars, loopVars
  <2>1. CASE MapperStep
    BY <2>1, MapperReset
  <2>2. CASE CloserStep
    BY <2>2, CloserReset
  <2>3. ASSUME NEW g \in GBAs, GBAThreadStep(g)
        PROVE  ResetInv'
    <3>1. ~GBAAt(g, "idle") /\ lc'.loops = lc.loops
      BY <2>3, GBAProgress DEF GBAThreadStep, GBAAt, Holding
    <3> QED BY <3>1 DEF LocalizationInv, ResetInv, NeverReleased
  <2>4. CASE MainStep
    BY <2>4, MainReset
  <2>5. CASE UIStep
    <3>1. NeverReleased' => NeverReleased /\ UNCHANGED <<lmVars, loopVars, tr>>
      BY <2>5, UICounts
         DEF NeverReleased, UIStep, ActivateLocalizationMode,
             DeactivateLocalizationMode, Reset, loopVars
    <3> QED BY <2>0, <3>1 DEF ResetInv
  <2>6. CASE UNCHANGED vars
    BY <2>0, <2>6 DEF vars, lmVars, loopVars, NeverReleased
  <2> QED BY <2>1, <2>2, <2>3, <2>4, <2>5, <2>6 DEF Next, Terminated
<1> QED
  BY <1>1, <1>2, SlamInvariant, LocalizationInvariant, ModeInvariant, PTL
     DEF Spec

(* Until the mapper is released for the first time, no thread can reach a  *)
(* keyframe that a reset has destroyed: for any number of resets,          *)
(* keyframes and bounds.                                                   *)
THEOREM NothingDangles == Spec => []NoDanglingKeyFrame
<1>1. LocalizationInv /\ ResetInv => NoDanglingKeyFrame
  BY DEF LocalizationInv, ResetInv, NoDanglingKeyFrame, NeverReleased,
         InUse, InReach
<1> QED BY <1>1, LocalizationInvariant, ResetInvariant, PTL
=============================================================================
