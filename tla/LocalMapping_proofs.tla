------------------------ MODULE LocalMapping_proofs ------------------------
(***************************************************************************)
(* What LocalMapping guarantees its callers, for any number of callers,    *)
(* any bounds, and any order of calls.                                     *)
(***************************************************************************)
EXTENDS LocalMapping, FiniteSetTheorems, TLAPS

(***************************************************************************)
(* Type correctness.  HandOver gives mpCurrentKeyFrame to loop closing, so *)
(* the types are inductive only together with the fact that the thread has *)
(* a current keyframe from ProcessNewKeyFrame on.                          *)
(***************************************************************************)
HasCurrent ==
  lm.pc \in {"fuse", "clearAbort", "checkQueue", "checkStop", "localBA",
             "optimise", "handOver"} => lm.mpCurrentKeyFrame \in KeyFrame

LMTypeInv == LMTypeOK /\ HasCurrent

(* The steps of the thread preserve the types. *)
LEMMA StepType ==
  ASSUME LMTypeInv, LMStep
  PROVE  LMTypeInv'
<1> USE DEF LMTypeInv, HasCurrent, LMTypeOK, LMType, MapType, LMControl,
            At, Goto
<1>1. CASE Start BY <1>1 DEF Start
<1>2. CASE SetBusy BY <1>2 DEF SetBusy
<1>3. CASE CheckNewKeyFrames BY <1>3 DEF CheckNewKeyFrames
<1>4. CASE ProcessNewKeyFrame
  <2>1. Head(lm.mlNewKeyFrames) \in KeyFrame
    BY <1>4 DEF ProcessNewKeyFrame
  <2>2. Tail(lm.mlNewKeyFrames) \in Seq(KeyFrame)
    BY <1>4 DEF ProcessNewKeyFrame
  <2>3. LMType' /\ HasCurrent'
    BY <1>4, <2>1, <2>2 DEF ProcessNewKeyFrame
  <2>4. MapType(Threads)'
    BY <1>4, <2>1 DEF ProcessNewKeyFrame, AddKeyFrame
  <2> QED BY <1>4, <2>3, <2>4 DEF ProcessNewKeyFrame
<1>5. CASE ProcessNothing BY <1>5 DEF ProcessNothing
<1>6. CASE SearchInNeighbors BY <1>6 DEF SearchInNeighbors
<1>7. CASE ClearAbort BY <1>7 DEF ClearAbort
<1>8. CASE CheckQueueBeforeBA BY <1>8 DEF CheckQueueBeforeBA
<1>9. CASE CheckStopBeforeBA BY <1>9 DEF CheckStopBeforeBA
<1>10. CASE LocalBundleAdjustment BY <1>10 DEF LocalBundleAdjustment
<1>20. CASE RecoverOptimized BY <1>20 DEF RecoverOptimized
<1>11. CASE HandOver
  <2>1. Append(mlpLoopKeyFrameQueue, lm.mpCurrentKeyFrame) \in Seq(KeyFrame)
    BY <1>11 DEF HandOver
  <2>2. mlpLoopKeyFrameQueue' \in Seq(KeyFrame) BY <1>11, <2>1 DEF HandOver
  <2>3. LMType' /\ HasCurrent' BY <1>11 DEF HandOver
  <2> QED BY <1>11, <2>2, <2>3 DEF HandOver
<1>12. CASE Stop
  <2>1. \/ lm' = [lm EXCEPT !.pc = "stopped", !.mbStopped = TRUE]
        \/ lm' = [lm EXCEPT !.pc = "reset"]
    BY <1>12 DEF Stop
  <2>2. CASE lm' = [lm EXCEPT !.pc = "stopped", !.mbStopped = TRUE]
    <3>1. LMType' BY <2>2
    <3>2. HasCurrent' BY <2>2
    <3> QED BY <1>12, <3>1, <3>2 DEF Stop
  <2>3. CASE lm' = [lm EXCEPT !.pc = "reset"]
    <3>1. LMType' BY <2>3
    <3>2. HasCurrent' BY <2>3
    <3> QED BY <1>12, <3>1, <3>2 DEF Stop
  <2> QED BY <2>1, <2>2, <2>3
<1>13. CASE Resume BY <1>13 DEF Resume
<1>14. CASE LeaveStop BY <1>14 DEF LeaveStop
<1>15. CASE ResetIfRequested
  <2>1. << >> \in Seq(KeyFrame) OBVIOUS
  <2>2. CASE lm.mbResetRequested
    <3>1. /\ lm' = [lm EXCEPT !.pc               = "setIdle",
                              !.mlNewKeyFrames   = << >>,
                              !.mbResetRequested = FALSE]
          /\ UNCHANGED <<map, mlpLoopKeyFrameQueue>>
      BY <1>15, <2>2 DEF ResetIfRequested
    <3>2. LMType' /\ HasCurrent' BY <2>1, <3>1
    <3> QED BY <3>1, <3>2
  <2>3. CASE ~lm.mbResetRequested
    BY <1>15, <2>3 DEF ResetIfRequested
  <2> QED BY <2>2, <2>3
<1>16. CASE SetIdle BY <1>16 DEF SetIdle
<1>17. CASE CheckFinish BY <1>17 DEF CheckFinish
<1>18. CASE SetFinished BY <1>18 DEF SetFinished, Threads
<1>19. CASE SetStopped BY <1>19 DEF SetStopped
<1> QED
  BY <1>1, <1>2, <1>3, <1>4, <1>5, <1>6, <1>7, <1>8, <1>9, <1>10,
     <1>11, <1>12, <1>13, <1>14, <1>15, <1>16, <1>17, <1>18, <1>19, <1>20
  DEF LMStep

(* The calls of the other threads preserve them. *)
LEMMA EnvironmentType ==
  ASSUME LMTypeInv, LMEnvironment
  PROVE  LMTypeInv'
<1> USE DEF LMTypeInv, HasCurrent, LMTypeOK, LMType, MapType, LMControl
<1>1. CASE CallInsert
  <2>1. PICK k \in KeyFrame : InsertKeyFrame(k)
    BY <1>1 DEF CallInsert
  <2>2. Append(lm.mlNewKeyFrames, k) \in Seq(KeyFrame)
    OBVIOUS
  <2> QED BY <1>1, <2>1, <2>2 DEF CallInsert, InsertKeyFrame
<1>2. CASE CallRequestStop BY <1>2 DEF CallRequestStop, RequestStop
<1>3. CASE CallInterruptBA BY <1>3 DEF CallInterruptBA, InterruptBA
<1>4. CASE CallSetNotStop BY <1>4 DEF CallSetNotStop, SetNotStop
<1>5. CASE CallRequestFinish BY <1>5 DEF CallRequestFinish, RequestFinish
<1>6. CASE CallRequestReset BY <1>6 DEF CallRequestReset, RequestReset
<1>7. ASSUME NEW t \in Callers, CallRelease(t)
      PROVE  LMTypeInv'
  <2>1. t \in Threads BY DEF Threads
  <2>2. CASE ReleaseLock(t) /\ UNCHANGED <<map, mlpLoopKeyFrameQueue>>
    BY <2>1, <2>2 DEF ReleaseLock
  <2>3. CASE ReleaseFlags(t) /\ UNCHANGED mlpLoopKeyFrameQueue
    <3>1. QueuedKeyFrames \subseteq KeyFrame
      BY DEF QueuedKeyFrames
    <3>2. MapType(Threads)'
      BY <2>3, <3>1 DEF ReleaseFlags, DeleteKeyFrames
    <3>3. LMType' /\ HasCurrent'
      <4>1. CASE lm.mbFinished BY <2>3, <4>1 DEF ReleaseFlags
      <4>2. CASE ~lm.mbFinished
        <5>1. lm' = [lm EXCEPT !.mMutexFinish    = t,
                               !.mbStopped       = FALSE,
                               !.mbStopRequested = FALSE]
          BY <2>3, <4>2 DEF ReleaseFlags
        <5>2. LMType' BY <2>1, <5>1
        <5>3. HasCurrent' BY <5>1
        <5> QED BY <5>2, <5>3
      <4> QED BY <4>1, <4>2
    <3> QED BY <2>3, <3>2, <3>3
  <2>4. CASE ReleaseClear(t) /\ UNCHANGED <<map, mlpLoopKeyFrameQueue>>
    <3>1. << >> \in Seq(KeyFrame) OBVIOUS
    <3> QED BY <2>4, <3>1 DEF ReleaseClear
  <2> QED BY <1>7, <2>2, <2>3, <2>4 DEF CallRelease
<1>8. ASSUME NEW t \in Callers, UseMap(t)
      PROVE  LMTypeInv'
  <2>1. MapType(Threads)'
    <3>1. CASE \E k \in KeyFrame : k.mnId = 0 /\ AddKeyFrame(k)
      <4>1. PICK k \in KeyFrame : AddKeyFrame(k)
        BY <3>1
      <4> QED BY <4>1 DEF AddKeyFrame
    <3>2. CASE LockMap(t) BY <3>2 DEF LockMap, Threads
    <3>3. CASE UnlockMap(t) BY <3>3 DEF UnlockMap
    <3>4. CASE ClearMap BY <3>4 DEF ClearMap
    <3> QED BY <1>8, <3>1, <3>2, <3>3, <3>4 DEF UseMap
  <2> QED BY <1>8, <2>1 DEF UseMap
<1>9. CASE DrainLoopQueue
  <2>1. Tail(mlpLoopKeyFrameQueue) \in Seq(KeyFrame)
    BY <1>9 DEF DrainLoopQueue
  <2>2. << >> \in Seq(KeyFrame)
    OBVIOUS
  <2>3. mlpLoopKeyFrameQueue' \in Seq(KeyFrame)
    BY <1>9, <2>1, <2>2 DEF DrainLoopQueue
  <2> QED BY <1>9, <2>3 DEF DrainLoopQueue
<1> QED
  BY <1>1, <1>2, <1>3, <1>4, <1>5, <1>6, <1>7, <1>8, <1>9 DEF LMEnvironment

(* The types and the presence of a current keyframe hold always. *)
LEMMA LMTypeInvariant == LMSpec => []LMTypeInv
<1>1. LMInit => LMTypeInv
  BY DEF LMInit, MapInit, LMTypeInv, HasCurrent, LMTypeOK, LMType, MapType,
         LMControl
<1>2. LMTypeInv /\ [LMNext]_lmVars => LMTypeInv'
  <2> SUFFICES ASSUME LMTypeInv, [LMNext]_lmVars
               PROVE  LMTypeInv'
    OBVIOUS
  <2>1. CASE UNCHANGED lmVars
    BY <2>1 DEF lmVars, LMTypeInv, HasCurrent, LMTypeOK, LMType, MapType
  <2> QED BY <2>1, StepType, EnvironmentType DEF LMNext
<1> QED BY <1>1, <1>2, PTL DEF LMSpec

(* Every member of the component keeps its type, whoever calls it. *)
THEOREM LMTypeCorrect == LMSpec => []LMTypeOK
<1>1. LMTypeInv => LMTypeOK
  BY DEF LMTypeInv
<1> QED BY <1>1, LMTypeInvariant, PTL
(***************************************************************************)
(* The thread stops only where it is safe.  StoppedIsSafe alone is not     *)
(* inductive: the thread leaves the waiting loop with mbStopped still set  *)
(* when it is asked to finish, and must then be on its way out; so the     *)
(* request, once made, is never taken back.  EndedMapperLooksStopped needs *)
(* that mbFinished keeps Release from lowering mbStopped, and that nobody  *)
(* else holds mMutexFinish while the thread is between its two locks.      *)
(***************************************************************************)
StopInv ==
  /\ StoppedIsSafe
  /\ At("leaveStop") /\ lm.mbStopped => lm.mbFinishRequested
  /\ lm.pc \in {"setFinished", "setStopped", "done"} => lm.mbFinishRequested
  /\ At("setStopped") => lm.mbFinished /\ lm.mMutexFinish = Mapper
  /\ At("done") => lm.mbFinished /\ lm.mbStopped

(* The steps of the thread preserve it. *)
LEMMA StepStop ==
  ASSUME LMTypeInv, StopInv, LMStep
  PROVE  StopInv'
<1> USE DEF LMTypeInv, LMTypeOK, LMType, StopInv, StoppedIsSafe, SafeArea,
            At, Goto
<1>1. CASE Start BY <1>1 DEF Start
<1>2. CASE SetBusy BY <1>2 DEF SetBusy
<1>3. CASE CheckNewKeyFrames BY <1>3 DEF CheckNewKeyFrames
<1>4. CASE ProcessNewKeyFrame BY <1>4 DEF ProcessNewKeyFrame
<1>5. CASE ProcessNothing BY <1>5 DEF ProcessNothing
<1>6. CASE SearchInNeighbors BY <1>6 DEF SearchInNeighbors
<1>7. CASE ClearAbort BY <1>7 DEF ClearAbort
<1>8. CASE CheckQueueBeforeBA BY <1>8 DEF CheckQueueBeforeBA
<1>9. CASE CheckStopBeforeBA BY <1>9 DEF CheckStopBeforeBA
<1>10. CASE LocalBundleAdjustment BY <1>10 DEF LocalBundleAdjustment
<1>20. CASE RecoverOptimized BY <1>20 DEF RecoverOptimized
<1>11. CASE HandOver BY <1>11 DEF HandOver
<1>12. CASE Stop BY <1>12 DEF Stop
<1>13. CASE Resume BY <1>13 DEF Resume
<1>14. CASE LeaveStop BY <1>14 DEF LeaveStop
<1>15. CASE ResetIfRequested BY <1>15 DEF ResetIfRequested
<1>16. CASE SetIdle BY <1>16 DEF SetIdle
<1>17. CASE CheckFinish BY <1>17 DEF CheckFinish
<1>18. CASE SetFinished BY <1>18 DEF SetFinished
<1>19. CASE SetStopped BY <1>19 DEF SetStopped
<1> QED
  BY <1>1, <1>2, <1>3, <1>4, <1>5, <1>6, <1>7, <1>8, <1>9, <1>10,
     <1>11, <1>12, <1>13, <1>14, <1>15, <1>16, <1>17, <1>18, <1>19, <1>20
  DEF LMStep

(* So do the calls of the other threads. *)
LEMMA EnvironmentStop ==
  ASSUME LMTypeInv, StopInv, LMEnvironment
  PROVE  StopInv'
<1> USE ThreadsAssumption
    DEF LMTypeInv, LMTypeOK, LMType, StopInv, StoppedIsSafe, SafeArea, At
<1>1. CASE CallInsert
  <2>1. PICK k \in KeyFrame : InsertKeyFrame(k)
    BY <1>1 DEF CallInsert
  <2> QED BY <2>1 DEF InsertKeyFrame
<1>2. CASE CallRequestStop BY <1>2 DEF CallRequestStop, RequestStop
<1>3. CASE CallInterruptBA BY <1>3 DEF CallInterruptBA, InterruptBA
<1>4. CASE CallSetNotStop BY <1>4 DEF CallSetNotStop, SetNotStop
<1>5. CASE CallRequestFinish BY <1>5 DEF CallRequestFinish, RequestFinish
<1>6. CASE CallRequestReset BY <1>6 DEF CallRequestReset, RequestReset
<1>7. ASSUME NEW t \in Callers, CallRelease(t)
      PROVE  StopInv'
  <2>1. CASE ReleaseLock(t) BY <2>1 DEF ReleaseLock
  <2>2. CASE ReleaseFlags(t)
    <3>1. CASE lm.mbFinished BY <2>2, <3>1 DEF ReleaseFlags
    <3>2. CASE ~lm.mbFinished
      <4>1. Nobody # Mapper OBVIOUS
      <4>2. lm.pc \notin {"setStopped", "done"}
        BY <2>2, <3>2, <4>1 DEF ReleaseFlags, FinishIsFree
      <4>3. lm' = [lm EXCEPT !.mMutexFinish    = t,
                             !.mbStopped       = FALSE,
                             !.mbStopRequested = FALSE]
        BY <2>2, <3>2 DEF ReleaseFlags
      <4> QED BY <4>2, <4>3
    <3> QED BY <3>1, <3>2
  <2>3. CASE ReleaseClear(t) BY <2>3 DEF ReleaseClear
  <2> QED BY <1>7, <2>1, <2>2, <2>3 DEF CallRelease
<1>8. ASSUME NEW t \in Callers, UseMap(t)
      PROVE  StopInv'
  BY <1>8 DEF UseMap
<1>9. CASE DrainLoopQueue BY <1>9 DEF DrainLoopQueue
<1> QED
  BY <1>1, <1>2, <1>3, <1>4, <1>5, <1>6, <1>7, <1>8, <1>9 DEF LMEnvironment

(* The strengthened invariant holds always. *)
LEMMA LMStopInvariant == LMSpec => []StopInv
<1>1. LMInit => StopInv
  BY DEF LMInit, StopInv, StoppedIsSafe, SafeArea, At
<1>2. LMTypeInv /\ StopInv /\ [LMNext]_lmVars => StopInv'
  <2> SUFFICES ASSUME LMTypeInv, StopInv, [LMNext]_lmVars
               PROVE  StopInv'
    OBVIOUS
  <2>1. CASE UNCHANGED lmVars
    BY <2>1 DEF lmVars, StopInv, StoppedIsSafe, SafeArea, At
  <2> QED BY <2>1, StepStop, EnvironmentStop DEF LMNext
<1> QED BY <1>1, <1>2, LMTypeInvariant, PTL DEF LMSpec

(* With any callers, isStopped() is true only while the mapper is parked   *)
(* or on its way out, and it is true of a mapper that has ended.           *)
THEOREM LMStops == LMSpec => [](StoppedIsSafe /\ EndedMapperLooksStopped)
<1>1. StopInv => StoppedIsSafe /\ EndedMapperLooksStopped
  BY DEF StopInv, EndedMapperLooksStopped, At
<1> QED BY <1>1, LMStopInvariant, PTL

(***************************************************************************)
(* A local bundle adjustment is never left running.  Between the lowering  *)
(* of mbAbortBA and the adjustment the thread looks at the queue and at    *)
(* the stop request, in that order; whatever arrives behind its back       *)
(* raises mbAbortBA again.                                                 *)
(***************************************************************************)
AbortInv ==
  /\ BAIsAborted
  /\ At("checkStop") /\ lm.mlNewKeyFrames # << >> => lm.mbAbortBA

(* The steps of the thread preserve it. *)
LEMMA StepAbort ==
  ASSUME LMTypeInv, AbortInv, LMStep
  PROVE  AbortInv'
<1> USE DEF LMTypeInv, LMTypeOK, LMType, AbortInv, BAIsAborted, At, Goto
<1>1. CASE Start BY <1>1 DEF Start
<1>2. CASE SetBusy BY <1>2 DEF SetBusy
<1>3. CASE CheckNewKeyFrames BY <1>3 DEF CheckNewKeyFrames
<1>4. CASE ProcessNewKeyFrame BY <1>4 DEF ProcessNewKeyFrame
<1>5. CASE ProcessNothing BY <1>5 DEF ProcessNothing
<1>6. CASE SearchInNeighbors BY <1>6 DEF SearchInNeighbors
<1>7. CASE ClearAbort BY <1>7 DEF ClearAbort
<1>8. CASE CheckQueueBeforeBA BY <1>8 DEF CheckQueueBeforeBA
<1>9. CASE CheckStopBeforeBA BY <1>9 DEF CheckStopBeforeBA
<1>10. CASE LocalBundleAdjustment BY <1>10 DEF LocalBundleAdjustment
<1>20. CASE RecoverOptimized BY <1>20 DEF RecoverOptimized
<1>11. CASE HandOver BY <1>11 DEF HandOver
<1>12. CASE Stop BY <1>12 DEF Stop
<1>13. CASE Resume BY <1>13 DEF Resume
<1>14. CASE LeaveStop BY <1>14 DEF LeaveStop
<1>15. CASE ResetIfRequested BY <1>15 DEF ResetIfRequested
<1>16. CASE SetIdle BY <1>16 DEF SetIdle
<1>17. CASE CheckFinish BY <1>17 DEF CheckFinish
<1>18. CASE SetFinished BY <1>18 DEF SetFinished
<1>19. CASE SetStopped BY <1>19 DEF SetStopped
<1> QED
  BY <1>1, <1>2, <1>3, <1>4, <1>5, <1>6, <1>7, <1>8, <1>9, <1>10,
     <1>11, <1>12, <1>13, <1>14, <1>15, <1>16, <1>17, <1>18, <1>19, <1>20
  DEF LMStep

(* So do the calls of the other threads: the two that could break it, a    *)
(* stop request and an insertion, raise mbAbortBA themselves.              *)
LEMMA EnvironmentAbort ==
  ASSUME LMTypeInv, AbortInv, LMEnvironment
  PROVE  AbortInv'
<1> USE DEF LMTypeInv, LMTypeOK, LMType, AbortInv, BAIsAborted, At
<1>1. CASE CallInsert
  <2>1. PICK k \in KeyFrame : InsertKeyFrame(k)
    BY <1>1 DEF CallInsert
  <2> QED BY <2>1 DEF InsertKeyFrame
<1>2. CASE CallRequestStop BY <1>2 DEF CallRequestStop, RequestStop
<1>3. CASE CallInterruptBA BY <1>3 DEF CallInterruptBA, InterruptBA
<1>4. CASE CallSetNotStop BY <1>4 DEF CallSetNotStop, SetNotStop
<1>5. CASE CallRequestFinish BY <1>5 DEF CallRequestFinish, RequestFinish
<1>6. CASE CallRequestReset BY <1>6 DEF CallRequestReset, RequestReset
<1>7. ASSUME NEW t \in Callers, CallRelease(t)
      PROVE  AbortInv'
  <2>1. CASE ReleaseLock(t) BY <2>1 DEF ReleaseLock
  <2>2. CASE ReleaseFlags(t)
    <3>1. CASE lm.mbFinished BY <2>2, <3>1 DEF ReleaseFlags
    <3>2. CASE ~lm.mbFinished BY <2>2, <3>2 DEF ReleaseFlags
    <3> QED BY <3>1, <3>2
  <2>3. CASE ReleaseClear(t) BY <2>3 DEF ReleaseClear
  <2> QED BY <1>7, <2>1, <2>2, <2>3 DEF CallRelease
<1>8. ASSUME NEW t \in Callers, UseMap(t)
      PROVE  AbortInv'
  BY <1>8 DEF UseMap
<1>9. CASE DrainLoopQueue BY <1>9 DEF DrainLoopQueue
<1> QED
  BY <1>1, <1>2, <1>3, <1>4, <1>5, <1>6, <1>7, <1>8, <1>9 DEF LMEnvironment

(* No local bundle adjustment runs on un-aborted while a stop is requested *)
(* or a keyframe waits, whoever calls and in whatever order.               *)
THEOREM LMAborts == LMSpec => []BAIsAborted
<1>1. LMInit => AbortInv
  BY DEF LMInit, AbortInv, BAIsAborted, At
<1>2. LMTypeInv /\ AbortInv /\ [LMNext]_lmVars => AbortInv'
  <2> SUFFICES ASSUME LMTypeInv, AbortInv, [LMNext]_lmVars
               PROVE  AbortInv'
    OBVIOUS
  <2>1. CASE UNCHANGED lmVars
    BY <2>1 DEF lmVars, AbortInv, BAIsAborted, At
  <2> QED BY <2>1, StepAbort, EnvironmentAbort DEF LMNext
<1>3. AbortInv => BAIsAborted
  BY DEF AbortInv
<1> QED BY <1>1, <1>2, <1>3, LMTypeInvariant, PTL DEF LMSpec

(***************************************************************************)
(* Queues without repetition.                                              *)
(***************************************************************************)
Elements(s) == { s[i] : i \in DOMAIN s }

Distinct(s) == \A i, j \in DOMAIN s : s[i] = s[j] => i = j

(* As many elements as places.                                             *)
LEMMA DistinctCardinality ==
  ASSUME NEW S, NEW s \in Seq(S), Distinct(s)
  PROVE  Cardinality(Elements(s)) = Len(s)
<1>1. /\ DOMAIN s = 1 .. Len(s) /\ Len(s) \in Nat
      /\ s \in [1 .. Len(s) -> Elements(s)]
  BY DEF Elements
<1>2. s \in Bijection(1 .. Len(s), Elements(s))
  <2>1. s \in Injection(1 .. Len(s), Elements(s))
    BY <1>1 DEF Injection, IsInjective, Distinct
  <2>2. \A x \in Elements(s) : \E i \in 1 .. Len(s) : s[i] = x
    BY <1>1 DEF Elements
  <2> QED BY <1>1, <2>1, <2>2 DEF Bijection, Surjection
<1>3. ExistsBijection(1 .. Len(s), Elements(s))
  BY <1>2 DEF ExistsBijection
<1>4. IsFiniteSet(1 .. Len(s)) /\ Cardinality(1 .. Len(s)) = Len(s)
  BY <1>1, FS_Interval
<1> QED BY <1>3, <1>4, FS_Bijection

(* A new element at the end.                                               *)
LEMMA DistinctAppend ==
  ASSUME NEW S, NEW s \in Seq(S), NEW x \in S, Distinct(s),
         x \notin Elements(s)
  PROVE  /\ Distinct(Append(s, x))
         /\ Elements(Append(s, x)) = Elements(s) \cup {x}
<1>1. PICK t : t = Append(s, x)
  OBVIOUS
<1>2. /\ t \in Seq(S) /\ Len(t) = Len(s) + 1 /\ Len(s) \in Nat
      /\ t[Len(s) + 1] = x
      /\ \A i \in 1 .. Len(s) : t[i] = s[i]
  BY <1>1
<1>3. DOMAIN t = 1 .. Len(s) + 1 /\ DOMAIN s = 1 .. Len(s)
  BY <1>2
<1>4. \A i \in DOMAIN t : i \in DOMAIN s \/ i = Len(s) + 1
  BY <1>2, <1>3
<1>5. Distinct(t)
  BY <1>2, <1>3, <1>4 DEF Distinct, Elements
<1>6. Elements(t) = Elements(s) \cup {x}
  <2>1. \A y \in Elements(t) : y \in Elements(s) \cup {x}
    BY <1>2, <1>3, <1>4 DEF Elements
  <2>2. \A y \in Elements(s) : y \in Elements(t)
    BY <1>2, <1>3 DEF Elements
  <2>3. x \in Elements(t)
    BY <1>2, <1>3 DEF Elements
  <2> QED BY <2>1, <2>2, <2>3
<1> QED BY <1>1, <1>5, <1>6

(* The first element taken away.                                           *)
LEMMA DistinctTail ==
  ASSUME NEW S, NEW s \in Seq(S), Distinct(s), s # << >>
  PROVE  /\ Tail(s) \in Seq(S)
         /\ Distinct(Tail(s))
         /\ Head(s) \in Elements(s)
         /\ Elements(Tail(s)) \subseteq Elements(s) \ {Head(s)}
<1>1. PICK t : t = Tail(s)
  OBVIOUS
<1>2. /\ t \in Seq(S) /\ Len(t) = Len(s) - 1 /\ Len(s) \in Nat \ {0}
      /\ Head(s) = s[1]
      /\ \A i \in 1 .. Len(t) : t[i] = s[i + 1]
  BY <1>1
<1>3. DOMAIN t = 1 .. Len(s) - 1 /\ DOMAIN s = 1 .. Len(s) /\ 1 \in DOMAIN s
  BY <1>2
<1>4. \A i \in DOMAIN t : i + 1 \in DOMAIN s /\ t[i] = s[i + 1] /\ i + 1 # 1
  BY <1>2, <1>3
<1>5. Distinct(t)
  BY <1>3, <1>4 DEF Distinct
<1>6. Elements(t) \subseteq Elements(s) \ {Head(s)}
  BY <1>2, <1>3, <1>4 DEF Elements, Distinct
<1> QED BY <1>1, <1>2, <1>3, <1>5, <1>6 DEF Elements

(* An empty queue.                                                         *)
LEMMA DistinctEmpty == Distinct(<< >>) /\ Elements(<< >>) = {}
BY DEF Distinct, Elements

(***************************************************************************)
(* A keyframe is processed once.  Ids tell keyframes apart only because    *)
(* nothing re-enters the pipeline: what the thread has taken from its      *)
(* queue is, or was, in the map, and Fresh refuses what is there.  (The    *)
(* first keyframe of a map is in it before it is inserted, but it never    *)
(* goes on to loop closing.)                                               *)
(***************************************************************************)
PipelineInv ==
  /\ Distinct(lm.mlNewKeyFrames)
  /\ Distinct(mlpLoopKeyFrameQueue)
  /\ \A k \in ForLoopClosing : k.mnId # 0
  /\ InProcess \cap ForLoopClosing = {}
  /\ { k \in QueuedKeyFrames : k.mnId # 0 }
       \cap (InProcess \cup ForLoopClosing) = {}
  /\ InProcess \cup ForLoopClosing \subseteq map.mspKeyFrames \cup map.deleted

(* The queues as sets.                                                     *)
LEMMA QueuesAreElements ==
  /\ QueuedKeyFrames = Elements(lm.mlNewKeyFrames)
  /\ ForLoopClosing = Elements(mlpLoopKeyFrameQueue)
BY DEF QueuedKeyFrames, ForLoopClosing, Elements

LEMMA QueuesAreElementsNext ==
  /\ QueuedKeyFrames' = Elements(lm'.mlNewKeyFrames)
  /\ ForLoopClosing' = Elements(mlpLoopKeyFrameQueue')
BY DEF QueuedKeyFrames, ForLoopClosing, Elements

(* Keyframes that leave the pipeline, or the map, disturb nothing.         *)
LEMMA PipelineShrinks ==
  ASSUME PipelineInv,
         Distinct(lm'.mlNewKeyFrames), QueuedKeyFrames' \subseteq QueuedKeyFrames,
         Distinct(mlpLoopKeyFrameQueue'), ForLoopClosing' \subseteq ForLoopClosing,
         InProcess' \subseteq InProcess,
         map.mspKeyFrames \cup map.deleted
           \subseteq map'.mspKeyFrames \cup map'.deleted
  PROVE  PipelineInv'
<1>1. /\ \A k \in ForLoopClosing' : k.mnId # 0
      /\ InProcess' \cap ForLoopClosing' = {}
  BY DEF PipelineInv
<1>2. { k \in QueuedKeyFrames' : k.mnId # 0 }
        \cap (InProcess' \cup ForLoopClosing') = {}
  BY DEF PipelineInv
<1>3. InProcess' \cup ForLoopClosing'
        \subseteq map'.mspKeyFrames \cup map'.deleted
  BY DEF PipelineInv
<1> QED BY <1>1, <1>2, <1>3 DEF PipelineInv

(* ProcessNewKeyFrame: from the queue into the map.                        *)
LEMMA ProcessPipeline ==
  ASSUME LMTypeInv, PipelineInv, ProcessNewKeyFrame
  PROVE  PipelineInv'
<1> DEFINE k == Head(lm.mlNewKeyFrames)
<1>1. /\ lm.mlNewKeyFrames \in Seq(KeyFrame)
      /\ Distinct(lm.mlNewKeyFrames)
      /\ lm.mlNewKeyFrames # << >>
  BY DEF LMTypeInv, LMTypeOK, LMType, PipelineInv, ProcessNewKeyFrame
<1>2. /\ Distinct(Tail(lm.mlNewKeyFrames))
      /\ k \in Elements(lm.mlNewKeyFrames)
      /\ Elements(Tail(lm.mlNewKeyFrames))
           \subseteq Elements(lm.mlNewKeyFrames) \ {k}
  BY <1>1, DistinctTail
<1>3. /\ lm'.mlNewKeyFrames = Tail(lm.mlNewKeyFrames)
      /\ lm'.mpCurrentKeyFrame = k /\ lm'.pc = "fuse"
      /\ mlpLoopKeyFrameQueue' = mlpLoopKeyFrameQueue
      /\ map'.mspKeyFrames = map.mspKeyFrames \cup {k}
      /\ map'.deleted = map.deleted
  BY DEF ProcessNewKeyFrame, AddKeyFrame, LMTypeInv, LMTypeOK, LMType, MapType
<1>4. /\ QueuedKeyFrames' \subseteq QueuedKeyFrames \ {k}
      /\ k \in QueuedKeyFrames
      /\ InProcess' = {k}
      /\ ForLoopClosing' = ForLoopClosing
  BY <1>2, <1>3, QueuesAreElements, QueuesAreElementsNext DEF InProcess
<1> HIDE DEF k
<1>5. InProcess' \cap ForLoopClosing' = {}
  BY <1>4 DEF PipelineInv
<1>6. { q \in QueuedKeyFrames' : q.mnId # 0 }
        \cap (InProcess' \cup ForLoopClosing') = {}
  BY <1>4 DEF PipelineInv
<1>7. InProcess' \cup ForLoopClosing'
        \subseteq map'.mspKeyFrames \cup map'.deleted
  BY <1>3, <1>4 DEF PipelineInv
<1> QED BY <1>2, <1>3, <1>4, <1>5, <1>6, <1>7 DEF PipelineInv

(* HandOver: from the thread to loop closing.                              *)
LEMMA HandOverPipeline ==
  ASSUME LMTypeInv, PipelineInv, HandOver
  PROVE  PipelineInv'
<1> DEFINE k == lm.mpCurrentKeyFrame
<1>1. /\ k \in KeyFrame /\ InProcess = {k}
      /\ lm'.pc = "reset" /\ lm'.mlNewKeyFrames = lm.mlNewKeyFrames
      /\ map' = map
  BY DEF HandOver, At, Goto, LMTypeInv, HasCurrent, LMTypeOK, LMType, InProcess
<1>2. InProcess' = {} /\ QueuedKeyFrames' = QueuedKeyFrames
  BY <1>1, QueuesAreElements, QueuesAreElementsNext DEF InProcess
<1>3. CASE k.mnId = 0
  <2>1. mlpLoopKeyFrameQueue' = mlpLoopKeyFrameQueue
    BY <1>3 DEF HandOver
  <2>2. ForLoopClosing' = ForLoopClosing
    BY <2>1, QueuesAreElements, QueuesAreElementsNext
  <2> QED
    BY <1>1, <1>2, <2>1, <2>2, PipelineShrinks DEF PipelineInv
<1>4. CASE k.mnId # 0
  <2>1. /\ mlpLoopKeyFrameQueue' = Append(mlpLoopKeyFrameQueue, k)
        /\ mlpLoopKeyFrameQueue \in Seq(KeyFrame)
        /\ Distinct(mlpLoopKeyFrameQueue)
        /\ k \notin Elements(mlpLoopKeyFrameQueue)
    BY <1>1, <1>4, QueuesAreElements
       DEF HandOver, PipelineInv, LMTypeInv, LMTypeOK
  <2>2. /\ Distinct(mlpLoopKeyFrameQueue')
        /\ ForLoopClosing' = ForLoopClosing \cup {k}
    BY <1>1, <2>1, DistinctAppend, QueuesAreElements, QueuesAreElementsNext
  <2>3. \A q \in ForLoopClosing' : q.mnId # 0
    BY <1>4, <2>2 DEF PipelineInv
  <2>4. { q \in QueuedKeyFrames' : q.mnId # 0 }
          \cap (InProcess' \cup ForLoopClosing') = {}
    BY <1>1, <1>2, <2>2 DEF PipelineInv
  <2>5. InProcess' \cup ForLoopClosing'
          \subseteq map'.mspKeyFrames \cup map'.deleted
    BY <1>1, <1>2, <2>2 DEF PipelineInv
  <2> QED BY <1>1, <1>2, <2>2, <2>3, <2>4, <2>5 DEF PipelineInv
<1> QED BY <1>3, <1>4

(* The steps of the thread preserve it.                                    *)
LEMMA StepPipeline ==
  ASSUME LMTypeInv, PipelineInv, LMStep
  PROVE  PipelineInv'
<1> USE DEF LMTypeInv, LMTypeOK, LMType, At, Goto
<1>1. CASE /\ lm'.mlNewKeyFrames = lm.mlNewKeyFrames
           /\ InProcess' \subseteq InProcess
           /\ UNCHANGED <<map, mlpLoopKeyFrameQueue>>
  <2>1. QueuedKeyFrames' = QueuedKeyFrames /\ ForLoopClosing' = ForLoopClosing
    BY <1>1, QueuesAreElements, QueuesAreElementsNext
  <2> QED BY <1>1, <2>1, PipelineShrinks DEF PipelineInv
<1>2. CASE ResetIfRequested
  <2>1. /\ lm'.mlNewKeyFrames \in {lm.mlNewKeyFrames, << >>}
        /\ lm'.pc = "setIdle"
        /\ UNCHANGED <<map, mlpLoopKeyFrameQueue>>
    BY <1>2 DEF ResetIfRequested
  <2>2. /\ Distinct(lm'.mlNewKeyFrames) /\ QueuedKeyFrames' \subseteq QueuedKeyFrames
        /\ ForLoopClosing' = ForLoopClosing
        /\ InProcess' = {}
    BY <2>1, DistinctEmpty, QueuesAreElements, QueuesAreElementsNext
       DEF PipelineInv, InProcess
  <2> QED BY <2>1, <2>2, PipelineShrinks DEF PipelineInv
<1> USE DEF InProcess
<1>3. CASE Start BY <1>1, <1>3 DEF Start
<1>4. CASE SetBusy BY <1>1, <1>4 DEF SetBusy
<1>5. CASE CheckNewKeyFrames BY <1>1, <1>5 DEF CheckNewKeyFrames
<1>6. CASE ProcessNothing BY <1>1, <1>6 DEF ProcessNothing
<1>7. CASE SearchInNeighbors BY <1>1, <1>7 DEF SearchInNeighbors
<1>8. CASE ClearAbort BY <1>1, <1>8 DEF ClearAbort
<1>9. CASE CheckQueueBeforeBA BY <1>1, <1>9 DEF CheckQueueBeforeBA
<1>10. CASE CheckStopBeforeBA BY <1>1, <1>10 DEF CheckStopBeforeBA
<1>11. CASE LocalBundleAdjustment BY <1>1, <1>11 DEF LocalBundleAdjustment
<1>19. CASE RecoverOptimized BY <1>1, <1>19 DEF RecoverOptimized
<1>12. CASE Stop BY <1>1, <1>12 DEF Stop
<1>13. CASE Resume BY <1>1, <1>13 DEF Resume
<1>14. CASE LeaveStop BY <1>1, <1>14 DEF LeaveStop
<1>15. CASE SetIdle BY <1>1, <1>15 DEF SetIdle
<1>16. CASE CheckFinish BY <1>1, <1>16 DEF CheckFinish
<1>17. CASE SetFinished BY <1>1, <1>17 DEF SetFinished
<1>18. CASE SetStopped BY <1>1, <1>18 DEF SetStopped
<1> QED
  BY <1>2, <1>3, <1>4, <1>5, <1>6, <1>7, <1>8, <1>9, <1>10, <1>11, <1>12,
     <1>13, <1>14, <1>15, <1>16, <1>17, <1>18, <1>19, ProcessPipeline,
     HandOverPipeline DEF LMStep

(* An insertion preserves it, because it is of a fresh keyframe.           *)
LEMMA InsertPipeline ==
  ASSUME LMTypeInv, PipelineInv, CallInsert
  PROVE  PipelineInv'
<1>1. PICK k \in KeyFrame : Fresh(k) /\ InsertKeyFrame(k)
  BY DEF CallInsert
<1>2. /\ lm.mlNewKeyFrames \in Seq(KeyFrame)
      /\ Distinct(lm.mlNewKeyFrames)
      /\ k \notin Elements(lm.mlNewKeyFrames)
      /\ lm'.mlNewKeyFrames = Append(lm.mlNewKeyFrames, k)
      /\ lm'.pc = lm.pc /\ lm'.mpCurrentKeyFrame = lm.mpCurrentKeyFrame
      /\ UNCHANGED <<map, mlpLoopKeyFrameQueue>>
  BY <1>1, QueuesAreElements
     DEF CallInsert, InsertKeyFrame, Fresh, PipelineInv, LMTypeInv, LMTypeOK,
         LMType
<1>3. /\ Distinct(lm'.mlNewKeyFrames)
      /\ QueuedKeyFrames' = QueuedKeyFrames \cup {k}
      /\ ForLoopClosing' = ForLoopClosing
      /\ InProcess' = InProcess
  BY <1>2, DistinctAppend, QueuesAreElements, QueuesAreElementsNext
     DEF InProcess
<1>4. k.mnId # 0 => k \notin InProcess \cup ForLoopClosing
  BY <1>1 DEF Fresh, PipelineInv
<1>5. { q \in QueuedKeyFrames' : q.mnId # 0 }
        \cap (InProcess' \cup ForLoopClosing') = {}
  BY <1>3, <1>4 DEF PipelineInv
<1> QED BY <1>2, <1>3, <1>5 DEF PipelineInv

(* So do the other calls.                                                  *)
LEMMA EnvironmentPipeline ==
  ASSUME LMTypeInv, PipelineInv, LMEnvironment
  PROVE  PipelineInv'
<1> USE DEF LMTypeInv, LMTypeOK, LMType, MapType
<1>1. CASE /\ lm'.mlNewKeyFrames \in {lm.mlNewKeyFrames, << >>}
           /\ lm'.pc = lm.pc /\ lm'.mpCurrentKeyFrame = lm.mpCurrentKeyFrame
           /\ map.mspKeyFrames \cup map.deleted
                \subseteq map'.mspKeyFrames \cup map'.deleted
           /\ UNCHANGED mlpLoopKeyFrameQueue
  <2>1. /\ Distinct(lm'.mlNewKeyFrames) /\ QueuedKeyFrames' \subseteq QueuedKeyFrames
        /\ ForLoopClosing' = ForLoopClosing
        /\ InProcess' = InProcess
    BY <1>1, DistinctEmpty, QueuesAreElements, QueuesAreElementsNext
       DEF PipelineInv, InProcess
  <2> QED BY <1>1, <2>1, PipelineShrinks DEF PipelineInv
<1>2. CASE CallRequestStop BY <1>1, <1>2 DEF CallRequestStop, RequestStop
<1>3. CASE CallInterruptBA BY <1>1, <1>3 DEF CallInterruptBA, InterruptBA
<1>4. CASE CallSetNotStop BY <1>1, <1>4 DEF CallSetNotStop, SetNotStop
<1>5. CASE CallRequestFinish BY <1>1, <1>5 DEF CallRequestFinish, RequestFinish
<1>6. CASE CallRequestReset BY <1>1, <1>6 DEF CallRequestReset, RequestReset
<1>7. ASSUME NEW t \in Callers, CallRelease(t)
      PROVE  PipelineInv'
  <2>1. CASE ReleaseLock(t) /\ UNCHANGED <<map, mlpLoopKeyFrameQueue>>
    BY <1>1, <2>1 DEF ReleaseLock
  <2>2. CASE ReleaseFlags(t) /\ UNCHANGED mlpLoopKeyFrameQueue
    <3>1. CASE lm.mbFinished BY <1>1, <2>2, <3>1 DEF ReleaseFlags
    <3>2. CASE ~lm.mbFinished
      <4>1. lm' = [lm EXCEPT !.mMutexFinish    = t,
                             !.mbStopped       = FALSE,
                             !.mbStopRequested = FALSE]
        BY <2>2, <3>2 DEF ReleaseFlags
      <4>2. map.mspKeyFrames \cup map.deleted
              \subseteq map'.mspKeyFrames \cup map'.deleted
        BY <2>2, <3>2 DEF ReleaseFlags, DeleteKeyFrames
      <4> QED BY <1>1, <2>2, <4>1, <4>2
    <3> QED BY <3>1, <3>2
  <2>3. CASE ReleaseClear(t) /\ UNCHANGED <<map, mlpLoopKeyFrameQueue>>
    BY <1>1, <2>3 DEF ReleaseClear
  <2> QED BY <1>7, <2>1, <2>2, <2>3 DEF CallRelease
<1>8. ASSUME NEW t \in Callers, UseMap(t)
      PROVE  PipelineInv'
  <2>1. map.mspKeyFrames \cup map.deleted
          \subseteq map'.mspKeyFrames \cup map'.deleted
    BY <1>8 DEF UseMap, AddKeyFrame, LockMap, UnlockMap, ClearMap
  <2> QED BY <1>1, <1>8, <2>1 DEF UseMap
<1>9. CASE DrainLoopQueue
  <2>1. /\ mlpLoopKeyFrameQueue \in Seq(KeyFrame)
        /\ Distinct(mlpLoopKeyFrameQueue)
        /\ mlpLoopKeyFrameQueue # << >>
        /\ mlpLoopKeyFrameQueue' \in {Tail(mlpLoopKeyFrameQueue), << >>}
        /\ UNCHANGED <<lm, map>>
    BY <1>9 DEF DrainLoopQueue, PipelineInv
  <2>2. /\ Distinct(mlpLoopKeyFrameQueue')
        /\ Elements(mlpLoopKeyFrameQueue') \subseteq Elements(mlpLoopKeyFrameQueue)
    <3>1. CASE mlpLoopKeyFrameQueue' = Tail(mlpLoopKeyFrameQueue)
      BY <2>1, <3>1, DistinctTail
    <3>2. CASE mlpLoopKeyFrameQueue' = << >>
      BY <3>2, DistinctEmpty
    <3> QED BY <2>1, <3>1, <3>2
  <2>3. /\ QueuedKeyFrames' = QueuedKeyFrames
        /\ ForLoopClosing' \subseteq ForLoopClosing
        /\ InProcess' = InProcess
    BY <2>1, <2>2, QueuesAreElements, QueuesAreElementsNext DEF InProcess
  <2> QED BY <2>1, <2>2, <2>3, PipelineShrinks DEF PipelineInv
<1> QED
  BY <1>2, <1>3, <1>4, <1>5, <1>6, <1>7, <1>8, <1>9, InsertPipeline
     DEF LMEnvironment

LEMMA LMPipelineInvariant == LMSpec => []PipelineInv
<1>1. LMInit => PipelineInv
  BY DistinctEmpty, QueuesAreElements
     DEF LMInit, MapInit, PipelineInv, InProcess
<1>2. LMTypeInv /\ PipelineInv /\ [LMNext]_lmVars => PipelineInv'
  <2> SUFFICES ASSUME LMTypeInv, PipelineInv, [LMNext]_lmVars
               PROVE  PipelineInv'
    OBVIOUS
  <2>1. CASE UNCHANGED lmVars
    BY <2>1, QueuesAreElements, QueuesAreElementsNext
       DEF lmVars, PipelineInv, InProcess
  <2> QED BY <2>1, StepPipeline, EnvironmentPipeline DEF LMNext
<1> QED BY <1>1, <1>2, LMTypeInvariant, PTL DEF LMSpec

(* Whatever the callers do, a keyframe waits at most once in each queue    *)
(* and is in one place of the pipeline, provided that they insert fresh    *)
(* keyframes.                                                              *)
THEOREM LMProcessesOnce == LMSpec => []ProcessedOnce
<1>1. LMTypeInv /\ PipelineInv => ProcessedOnce
  BY DistinctCardinality, QueuesAreElements
     DEF LMTypeInv, LMTypeOK, LMType, PipelineInv, ProcessedOnce
<1> QED BY <1>1, LMPipelineInvariant, LMTypeInvariant, PTL
=============================================================================
