------------------------ MODULE OnlineMasks_proofs ------------------------
(***************************************************************************)
(* OnlineMasks keeps its types and its deques bounded, scores frames only  *)
(* from fresh answers to its own requests, applies each answer once, is    *)
(* never ended by what it receives, and, when its deques are long enough   *)
(* for the age limit, knows every answer it could use.                     *)
(***************************************************************************)
EXTENDS OnlineMasks, FiniteSetTheorems, TLAPS

(* A bounded deque stays one, and holds nothing but what was pushed.       *)
LEMMA PushBounded ==
  ASSUME NEW S, NEW s \in Seq(S), NEW x \in S, NEW size \in Nat \ {0},
         Len(s) <= size
  PROVE  /\ Push(s, x, size) \in Seq(S)
         /\ Len(Push(s, x, size)) <= size
         /\ Range(Push(s, x, size)) \subseteq Range(s) \cup {x}
<1>1. CASE Len(s) < size
  BY <1>1 DEF Push, Range
<1>2. CASE ~(Len(s) < size)
  <2>1. Append(s, x) \in Seq(S) /\ Len(Append(s, x)) = Len(s) + 1
    OBVIOUS
  <2>2. PICK t : t = Append(s, x)
    OBVIOUS
  <2>3. /\ Tail(t) \in Seq(S) /\ Len(Tail(t)) = Len(s)
        /\ \A i \in 1 .. Len(Tail(t)) : Tail(t)[i] = t[i + 1]
    BY <2>1, <2>2
  <2>4. \A i \in 1 .. Len(t) : t[i] \in Range(s) \cup {x}
    BY <2>1, <2>2 DEF Range
  <2>5. Range(Tail(t)) \subseteq Range(s) \cup {x}
    BY <2>1, <2>2, <2>3, <2>4 DEF Range
  <2> QED BY <1>2, <2>2, <2>3, <2>5 DEF Push
<1> QED BY <1>1, <1>2

(* What a packet is worth is one of the reasons the runner logs.           *)
LEMMA ErrorsAreReasons ==
  \A p : DecodeError(p) \in Reasons /\ LedgerError(p) \in Reasons
           /\ ReceiveError(p) \in Reasons
  BY DEF DecodeError, LedgerError, ReceiveError, Reasons

(* The same for the two deques of the loop.                                *)
LEMMA LedgerPush ==
  ASSUME ProviderType, RunnerType
  PROVE  /\ Record \in Records
         /\ Push(provider.ledger, Record, LedgerSize) \in Seq(Records)
         /\ Len(Push(provider.ledger, Record, LedgerSize)) <= LedgerSize
         /\ Range(Push(provider.ledger, Record, LedgerSize))
              \subseteq Range(provider.ledger) \cup {Record}
<1>1. Record \in Records
  BY DEF Record, Records, RunnerType
<1>2. provider.ledger \in Seq(Records) /\ Len(provider.ledger) <= LedgerSize
  BY DEF ProviderType
<1>3. LedgerSize \in Nat \ {0}
  BY OnlineAssumption
<1> QED BY <1>1, <1>2, <1>3, PushBounded

LEMMA HistoryPush ==
  ASSUME HistoryType, RunnerType
  PROVE  /\ Push(history, runner.index, HistorySize) \in Seq(Nat)
         /\ Len(Push(history, runner.index, HistorySize)) <= HistorySize
         /\ Range(Push(history, runner.index, HistorySize))
              \subseteq Range(history) \cup {runner.index}
<1>1. runner.index \in Nat
  BY DEF RunnerType
<1>2. history \in Seq(Nat) /\ Len(history) <= HistorySize
  BY DEF HistoryType
<1>3. HistorySize \in Nat \ {0}
  BY OnlineAssumption
<1> QED BY <1>1, <1>2, <1>3, PushBounded

LEMMA OnlineInitType ==
  OnlineInit => OnlineTypeOK
<1> SUFFICES ASSUME OnlineInit PROVE OnlineTypeOK
  OBVIOUS
<1> USE OnlineAssumption DEF OnlineInit
<1>1. RunnerType
  BY DEF RunnerType, RunnerControl
<1>2. ProviderType
  BY DEF ProviderType, Reasons
<1>3. IpcType
  BY DEF IpcType, NoResult, Reasons
<1>4. DynamicType
  BY DEF DynamicType
<1>5. HistoryType
  BY DEF HistoryType
<1>6. ServiceType
  BY DEF ServiceType, ServiceControl
<1> QED BY <1>1, <1>2, <1>3, <1>4, <1>5, <1>6 DEF OnlineTypeOK

(* Every step of the runner keeps the types.                               *)
LEMMA RunnerStepType ==
  ASSUME OnlineTypeOK, RunnerStep
  PROVE  OnlineTypeOK'
<1> USE OnlineAssumption DEF OnlineTypeOK, RunnerAt, RunnerGoto
<1>1. ASSUME NEW gap \in Gaps, NEW wait \in Waits, StartFrame(gap, wait)
      PROVE  OnlineTypeOK'
  <2>1. RunnerType'
    <3>1. runner.ts \in Nat
      BY DEF RunnerType
    <3>2. PICK t \in Nat : t = runner.ts + gap
      BY <3>1
    <3>3. runner' = [runner EXCEPT !.pc = "request", !.ts = t, !.score = Nothing]
      BY <1>1, <3>2 DEF StartFrame
    <3> QED BY <3>3 DEF RunnerType, RunnerControl
  <2>2. ProviderType'
    <3>1. provider.elapsed \in 0 .. Interval
      BY DEF ProviderType
    <3>2. (IF provider.elapsed + wait < Interval THEN provider.elapsed + wait
           ELSE Interval) \in 0 .. Interval
      BY <3>1
    <3> QED BY <1>1, <3>2 DEF StartFrame, ProviderType
  <2>3. IpcType'
    BY <1>1 DEF StartFrame, IpcType, NoResult, Reasons
  <2> QED
    BY <1>1, <2>1, <2>2, <2>3 DEF StartFrame, DynamicType, HistoryType, ServiceType
<1>2. ASSUME RunnerType', UNCHANGED <<provider, ipc, dynamic, history, requests,
                                      results, service, sent, completed>>
      PROVE  OnlineTypeOK'
  BY <1>2 DEF ProviderType, IpcType, DynamicType, HistoryType, ServiceType
<1>3. CASE FailFrame
  <2>1. RunnerType'
    BY <1>3 DEF FailFrame, RunnerType, RunnerControl
  <2> QED BY <1>2, <1>3, <2>1 DEF FailFrame
<1>4. CASE Finish \/ NotDue \/ NothingReceived \/ NothingToApply \/ NoPrediction
  <2>1. RunnerType'
    BY <1>4 DEF Finish, NotDue, NothingReceived, NothingToApply, NoPrediction,
                RunnerType, RunnerControl
  <2> QED
    BY <1>2, <1>4, <2>1
       DEF Finish, NotDue, NothingReceived, NothingToApply, NoPrediction
<1>5. CASE SendRequest
  <2>1. RunnerType'
    BY <1>5 DEF SendRequest, RunnerType, RunnerControl
  <2>2. ProviderType'
    <3>1. PICK l : l = Push(provider.ledger, Record, LedgerSize)
      OBVIOUS
    <3>2. l \in Seq(Records) /\ Len(l) <= LedgerSize
      BY <3>1, LedgerPush
    <3>3. provider' = [provider EXCEPT !.attempted = TRUE, !.elapsed = 0,
                                       !.ledger = l]
      BY <1>5, <3>1 DEF SendRequest
    <3>4. 0 \in 0 .. Interval
      OBVIOUS
    <3> QED BY <3>2, <3>3, <3>4 DEF ProviderType
  <2>3. ServiceType'
    <3>1. Request \in Packets
      BY DEF Request, Packets, RunnerType
    <3> QED BY <1>5, <3>1 DEF SendRequest, ServiceType
  <2>4. sent' \subseteq Records
    BY <1>5, LedgerPush DEF SendRequest
  <2> QED
    BY <1>5, <2>1, <2>2, <2>3, <2>4
       DEF SendRequest, IpcType, DynamicType, HistoryType
<1>6. CASE SendRefused \/ SendFails \/ ReceiveFails
  <2>1. RunnerType'
    BY <1>6 DEF SendRefused, SendFails, ReceiveFails, RunnerType, RunnerControl
  <2>2. ProviderType'
    <3>1. 0 \in 0 .. Interval
      OBVIOUS
    <3>2. {"TRANSPORT_SEND_ERROR", "TRANSPORT_RECEIVE_ERROR"} \subseteq Reasons
      BY DEF Reasons
    <3>3. CASE SendRefused BY <3>1, <3>3 DEF SendRefused, ProviderType
    <3>4. CASE SendFails BY <3>1, <3>2, <3>4 DEF SendFails, ProviderType
    <3>5. CASE ReceiveFails BY <3>2, <3>5 DEF ReceiveFails, ProviderType
    <3> QED BY <1>6, <3>3, <3>4, <3>5
  <2> QED
    BY <1>6, <2>1, <2>2
       DEF SendRefused, SendFails, ReceiveFails, IpcType, DynamicType,
           HistoryType, ServiceType
<1>7. CASE Receive
  <2>1. ProviderType'
    <3>1. PICK e \in Reasons : e = ReceiveError(results)
      BY ErrorsAreReasons
    <3>2. \/ provider' = [provider EXCEPT !.latest = results, !.error = e]
          \/ provider' = [provider EXCEPT !.latest = Nothing, !.error = e]
      BY <1>7, <3>1 DEF Receive
    <3> QED BY <3>2 DEF ProviderType, ServiceType
  <2>2. ServiceType'
    BY <1>7 DEF Receive, ServiceType
  <2> QED
    BY <1>7, <2>1, <2>2
       DEF Receive, RunnerType, IpcType, DynamicType, HistoryType
<1>8. CASE Evaluate
  <2>1. RunnerType'
    BY <1>8 DEF Evaluate, RunnerType, RunnerControl
  <2>2. \/ \E e \in Reasons : ipc' = [ipc EXCEPT !.valid = FALSE, !.reason = e]
        \/ /\ provider.latest # Nothing
           /\ ipc' = [valid |-> TRUE, reason |-> "ONLINE_PACKET_VALID",
                      packet |-> provider.latest]
    <3>1. "NO_PACKET" \in Reasons /\ provider.error \in Reasons
      BY DEF Reasons, ProviderType
    <3> QED BY <1>8, <3>1, ErrorsAreReasons DEF Evaluate, Degraded
  <2>3. IpcType'
    <3>1. CASE \E e \in Reasons : ipc' = [ipc EXCEPT !.valid = FALSE, !.reason = e]
      BY <3>1 DEF IpcType
    <3>2. "ONLINE_PACKET_VALID" \in Reasons
      BY DEF Reasons
    <3>3. provider.latest \in Packets \cup {Nothing}
      BY DEF ProviderType
    <3>4. CASE ipc' = [valid |-> TRUE, reason |-> "ONLINE_PACKET_VALID",
                       packet |-> provider.latest]
      BY <3>2, <3>3, <3>4 DEF IpcType
    <3> QED BY <2>2, <3>1, <3>4
  <2> QED
    BY <1>8, <2>1, <2>3
       DEF Evaluate, ProviderType, DynamicType, HistoryType, ServiceType
<1>9. CASE ApplyPacket
  <2>1. RunnerType'
    BY <1>9 DEF ApplyPacket, RunnerType, RunnerControl
  <2>2. DynamicType'
    <3>1. ipc.packet \in Packets
      BY <1>9 DEF ApplyPacket, CanApply, IsNew, IpcType
    <3>2. /\ ipc.packet.ts \in Nat /\ ipc.packet.frame \in Nat
          /\ dynamic.updates \in Nat /\ dynamic.used \subseteq Nat
      BY <3>1 DEF Packets, DynamicType
    <3>3. /\ dynamic.updates + 1 \in Nat
          /\ dynamic.used \cup {ipc.packet.frame} \in SUBSET Nat
      BY <3>2
    <3>4. PICK n \in Nat, u \in SUBSET Nat :
             n = dynamic.updates + 1 /\ u = dynamic.used \cup {ipc.packet.frame}
      BY <3>3
    <3>5. \/ dynamic' = dynamic
          \/ dynamic' = [ready |-> TRUE, last |-> ipc.packet.ts,
                         frame |-> ipc.packet.frame, updates |-> n, used |-> u]
      BY <1>9, <3>4 DEF ApplyPacket
    <3>6. CASE dynamic' = dynamic
      BY <3>6 DEF DynamicType
    <3>7. CASE dynamic' = [ready |-> TRUE, last |-> ipc.packet.ts,
                           frame |-> ipc.packet.frame, updates |-> n, used |-> u]
      BY <3>2, <3>4, <3>7 DEF DynamicType
    <3> QED BY <3>5, <3>6, <3>7
  <2> QED
    BY <1>9, <2>1, <2>2
       DEF ApplyPacket, ProviderType, IpcType, HistoryType, ServiceType
<1>10. CASE SourceMissing \/ Predict
  <2>1. RunnerType'
    <3>1. dynamic.frame \in Nat
      BY DEF DynamicType
    <3>2. \/ runner' = [runner EXCEPT !.pc = "failed", !.failure = "exception"]
          \/ runner' = [runner EXCEPT !.pc = "predict"]
          \/ runner' = [runner EXCEPT !.pc = "track"]
          \/ runner' = [runner EXCEPT !.pc = "track", !.score = dynamic.frame]
      BY <1>10 DEF SourceMissing, Predict
    <3>3. CASE runner' = [runner EXCEPT !.pc = "failed", !.failure = "exception"]
      BY <3>3 DEF RunnerType, RunnerControl
    <3>4. CASE \/ runner' = [runner EXCEPT !.pc = "predict"]
               \/ runner' = [runner EXCEPT !.pc = "track"]
      BY <3>4 DEF RunnerType, RunnerControl
    <3>5. CASE runner' = [runner EXCEPT !.pc = "track", !.score = dynamic.frame]
      BY <3>1, <3>5 DEF RunnerType, RunnerControl
    <3> QED BY <3>2, <3>3, <3>4, <3>5
  <2>2. IpcType'
    <3>1. {"SOURCE_FRAME_NOT_AVAILABLE", "PREDICTION_STALE"} \subseteq Reasons
      BY DEF Reasons
    <3>2. \/ ipc' = ipc
          \/ \E e \in Reasons : ipc' = [ipc EXCEPT !.valid = FALSE, !.reason = e]
      BY <1>10, <3>1 DEF SourceMissing, Predict, Degraded
    <3> QED BY <3>2 DEF IpcType
  <2> QED
    BY <1>10, <2>1, <2>2
       DEF SourceMissing, Predict, ProviderType, DynamicType, HistoryType,
           ServiceType
<1>11. ASSUME NEW pose \in BOOLEAN, Track(pose)
       PROVE  OnlineTypeOK'
  <2>1. RunnerType'
    <3>1. runner.index \in Nat
      BY DEF RunnerType
    <3>2. PICK i \in Nat : i = runner.index + 1
      BY <3>1
    <3>3. runner' = [runner EXCEPT !.pc = "frame", !.index = i]
      BY <1>11, <3>2 DEF Track
    <3> QED BY <3>3 DEF RunnerType, RunnerControl
  <2>2. HistoryType'
    BY <1>11, HistoryPush DEF Track, HistoryType
  <2>3. completed' \subseteq Nat
    BY <1>11 DEF Track, RunnerType
  <2> QED
    BY <1>11, <2>1, <2>2, <2>3
       DEF Track, ProviderType, IpcType, DynamicType, ServiceType
<1> QED
  BY <1>1, <1>3, <1>4, <1>5, <1>6, <1>7, <1>8, <1>9, <1>10, <1>11
     DEF RunnerStep, RunnerWork

(* So does every step of the service.                                      *)
LEMMA ServiceStepType ==
  ASSUME OnlineTypeOK, ServiceStep
  PROVE  OnlineTypeOK'
<1> USE DEF OnlineTypeOK
<1>1. ServiceOnly
  BY DEF ServiceStep, ServiceStarts, ServiceTakes, ServiceSkips, ServiceDies,
         ServicePublishes
<1>2. ServiceType'
  <2> USE DEF ServiceType, ServiceControl
  <2>1. CASE ServiceStarts BY <2>1 DEF ServiceStarts
  <2>2. CASE ServiceTakes BY <2>2 DEF ServiceTakes
  <2>3. CASE ServiceSkips BY <2>3 DEF ServiceSkips
  <2>4. CASE ServiceDies BY <2>4 DEF ServiceDies
  <2>5. ASSUME NEW ok \in BOOLEAN, ServicePublishes(ok)
        PROVE  ServiceType'
    <3>1. service.job \in Packets
      BY <2>5 DEF ServicePublishes
    <3>2. [service.job EXCEPT !.ok = @ /\ ok] \in Packets
      BY <3>1 DEF Packets
    <3> QED BY <2>5, <3>2 DEF ServicePublishes
  <2> QED BY <2>1, <2>2, <2>3, <2>4, <2>5 DEF ServiceStep
<1> QED
  BY <1>1, <1>2
     DEF ServiceOnly, RunnerType, ProviderType, IpcType, DynamicType, HistoryType

(* The loop's members keep their types, the deques their bounds, for every *)
(* number of frames and every size of the deques.                          *)
THEOREM OnlineTypeCorrect == OnlineSpec => []OnlineTypeOK
<1>1. OnlineTypeOK /\ [OnlineNext]_vars => OnlineTypeOK'
  <2> SUFFICES ASSUME OnlineTypeOK, [OnlineNext]_vars PROVE OnlineTypeOK'
    OBVIOUS
  <2>1. CASE RunnerStep
    BY <2>1, RunnerStepType
  <2>2. CASE ServiceStep
    BY <2>2, ServiceStepType
  <2>3. CASE UNCHANGED vars
    BY <2>3 DEF vars, OnlineTypeOK, RunnerType, ProviderType, IpcType,
                DynamicType, HistoryType, ServiceType
  <2> QED BY <2>1, <2>2, <2>3 DEF OnlineNext, RunnerEnded
<1> QED BY <1>1, OnlineInitType, PTL DEF OnlineSpec

(***************************************************************************)
(* The inductive invariant.                                                *)
(***************************************************************************)
Requested(f, t) == [frame |-> f, ts |-> t] \in sent

(* Later frames have later time stamps, and are requested at most once.    *)
RequestsOrdered ==
  /\ \A r \in sent : r.frame <= runner.index /\ r.ts <= runner.ts
  /\ RunnerAt("frame") => \A r \in sent : r.frame < runner.index
  /\ RunnerAt("request") =>
       \A r \in sent : r.frame < runner.index /\ r.ts < runner.ts
  /\ \A q, r \in sent :
       /\ q.frame < r.frame => q.ts < r.ts
       /\ q.frame = r.frame => q.ts = r.ts

(* Every packet the provider lets through answers a request of this run.   *)
OnlyAnswers ==
  /\ Range(provider.ledger) \subseteq sent
  /\ provider.latest # Nothing =>
       Requested(provider.latest.frame, provider.latest.ts)
  /\ ipc.packet # Nothing => Requested(ipc.packet.frame, ipc.packet.ts)
  /\ ipc.valid => ipc.packet # Nothing
  /\ dynamic.ready => Requested(dynamic.frame, dynamic.last)

(* Only frames that were tracked before are in the history or applied.     *)
SourcesAreTracked ==
  /\ \A f \in completed : f < runner.index
  /\ Range(history) \subseteq completed
  /\ dynamic.ready => dynamic.frame \in completed

(* The packets that were applied are about ever later frames.              *)
AppliedInOrder ==
  /\ IsFiniteSet(dynamic.used)
  /\ ~dynamic.ready => dynamic.used = {}
  /\ EachAnswerOnce

(* A score is that of the dynamic state, which is fresh.                   *)
ScoreIsCurrent ==
  /\ runner.pc \in {"request", "drain", "evaluate", "apply", "predict"} =>
       runner.score = Nothing
  /\ RunnerAt("track") /\ runner.score # Nothing =>
       /\ ipc.valid /\ dynamic.ready
       /\ runner.score = dynamic.frame
       /\ runner.ts - dynamic.last <= MaxAge

OnlineInv ==
  /\ OnlineTypeOK /\ RequestsOrdered /\ OnlyAnswers /\ SourcesAreTracked
  /\ AppliedInOrder /\ ScoreIsCurrent /\ NeverThrows

loopVars == <<runner, provider, ipc, dynamic, history, sent, completed>>

LEMMA OnlineInitInv ==
  OnlineInit => OnlineInv
<1> SUFFICES ASSUME OnlineInit PROVE OnlineInv
  OBVIOUS
<1>1. OnlineTypeOK
  BY OnlineInitType
<1>2. RequestsOrdered /\ SourcesAreTracked /\ ScoreIsCurrent /\ NeverThrows
  BY DEF OnlineInit, RequestsOrdered, SourcesAreTracked, ScoreIsCurrent,
         NeverThrows, RunnerAt, Range
<1>3. OnlyAnswers
  BY DEF OnlineInit, OnlyAnswers, NoResult, Range
<1>4. AppliedInOrder
  BY FS_EmptySet DEF OnlineInit, AppliedInOrder, EachAnswerOnce
<1> QED BY <1>1, <1>2, <1>3, <1>4 DEF OnlineInv

(* What the service does leaves the runner's side alone.                   *)
LEMMA LoopUnchanged ==
  ASSUME OnlineInv, UNCHANGED loopVars
  PROVE  /\ RequestsOrdered' /\ OnlyAnswers' /\ SourcesAreTracked'
         /\ AppliedInOrder' /\ ScoreIsCurrent' /\ NeverThrows'
<1> USE DEF loopVars, OnlineInv
<1>1. RequestsOrdered' /\ SourcesAreTracked' /\ ScoreIsCurrent' /\ NeverThrows'
  BY DEF RequestsOrdered, SourcesAreTracked, ScoreIsCurrent, NeverThrows, RunnerAt
<1>2. OnlyAnswers' /\ AppliedInOrder'
  BY DEF OnlyAnswers, Requested, AppliedInOrder, EachAnswerOnce
<1> QED BY <1>1, <1>2

(* The steps that touch neither the requests nor the time.                 *)
LEMMA SameRequests ==
  ASSUME OnlineInv, RunnerStep,
         ~(\E gap \in Gaps, wait \in Waits : StartFrame(gap, wait)),
         ~SendRequest, ~(\E pose \in BOOLEAN : Track(pose))
  PROVE  /\ UNCHANGED sent
         /\ runner'.index = runner.index /\ runner'.ts = runner.ts
         /\ runner'.pc \notin {"frame", "request"} \/ UNCHANGED runner
<1> USE DEF OnlineInv, OnlineTypeOK, RunnerType, RunnerAt, RunnerGoto
<1>1. CASE FailFrame \/ Finish \/ NotDue \/ SendRefused \/ SendFails
  BY <1>1 DEF FailFrame, Finish, NotDue, SendRefused, SendFails
<1>2. CASE Receive \/ ReceiveFails \/ NothingReceived \/ Evaluate
  BY <1>2 DEF Receive, ReceiveFails, NothingReceived, Evaluate
<1>3. CASE ApplyPacket \/ SourceMissing \/ NothingToApply \/ NoPrediction
  BY <1>3 DEF ApplyPacket, SourceMissing, NothingToApply, NoPrediction
<1>4. CASE Predict
  BY <1>4 DEF Predict
<1> QED BY <1>1, <1>2, <1>3, <1>4 DEF RunnerStep, RunnerWork

(* Requests are made in the order of the frames, whose time stamps grow.   *)
LEMMA StepOrdered ==
  ASSUME OnlineInv, RunnerStep
  PROVE  RequestsOrdered'
<1> USE DEF OnlineInv
<1>1. /\ runner.index \in Nat /\ runner.ts \in Nat
      /\ \A r \in sent : r.frame \in Nat /\ r.ts \in Nat
  BY DEF OnlineTypeOK, RunnerType, Records
<1>2. ASSUME NEW gap \in Gaps, NEW wait \in Waits, StartFrame(gap, wait)
      PROVE  RequestsOrdered'
  <2>1. gap \in Nat /\ gap > 0
    BY OnlineAssumption
  <2>2. /\ sent' = sent /\ runner'.index = runner.index
        /\ runner'.ts = runner.ts + gap /\ runner'.pc = "request"
        /\ runner.pc = "frame"
    BY <1>2 DEF StartFrame, RunnerAt, OnlineTypeOK, RunnerType
  <2>3. \A r \in sent : /\ r.frame < runner.index
                        /\ r.ts <= runner.ts + gap /\ r.ts < runner.ts + gap
    BY <1>1, <2>1, <2>2 DEF RequestsOrdered, RunnerAt
  <2> QED BY <1>1, <2>2, <2>3 DEF RequestsOrdered, RunnerAt
<1>3. CASE SendRequest
  <2>1. /\ sent' = sent \cup {Record} /\ runner'.index = runner.index
        /\ runner'.ts = runner.ts /\ runner'.pc = "drain"
        /\ runner.pc = "request"
    BY <1>3 DEF SendRequest, RunnerGoto, RunnerAt, OnlineTypeOK, RunnerType
  <2>2. Record.frame = runner.index /\ Record.ts = runner.ts
    BY DEF Record
  <2>3. \A r \in sent : r.frame < runner.index /\ r.ts < runner.ts
    BY <2>1 DEF RequestsOrdered, RunnerAt
  <2>4. \A q, r \in sent \cup {Record} :
          /\ q.frame < r.frame => q.ts < r.ts
          /\ q.frame = r.frame => q.ts = r.ts
    BY <1>1, <2>2, <2>3 DEF RequestsOrdered
  <2>5. \A r \in sent \cup {Record} : r.frame <= runner.index /\ r.ts <= runner.ts
    BY <1>1, <2>2, <2>3
  <2> QED BY <2>1, <2>4, <2>5 DEF RequestsOrdered, RunnerAt
<1>4. ASSUME NEW pose \in BOOLEAN, Track(pose)
      PROVE  RequestsOrdered'
  <2>1. /\ sent' = sent /\ runner'.index = runner.index + 1
        /\ runner'.ts = runner.ts /\ runner'.pc = "frame"
    BY <1>4 DEF Track, RunnerAt, OnlineTypeOK, RunnerType
  <2>2. \A r \in sent : /\ r.frame <= runner.index + 1
                        /\ r.frame < runner.index + 1
    BY <1>1 DEF RequestsOrdered
  <2> QED BY <2>1, <2>2 DEF RequestsOrdered, RunnerAt
<1>5. CASE /\ UNCHANGED sent
           /\ runner'.index = runner.index /\ runner'.ts = runner.ts
           /\ runner'.pc \notin {"frame", "request"} \/ UNCHANGED runner
  BY <1>5 DEF RequestsOrdered, RunnerAt
<1> QED BY <1>2, <1>3, <1>4, <1>5, SameRequests

(* A packet without an error answers a request of this run.                *)
LEMMA UsableIsRequested ==
  ASSUME OnlineTypeOK, OnlyAnswers, NEW p \in Packets, ReceiveError(p) = "none"
  PROVE  Requested(p.frame, p.ts)
<1>1. \E r \in Range(provider.ledger) : r.frame = p.frame /\ r.ts = p.ts
  BY DEF ReceiveError, LedgerError
<1>2. PICK r \in sent : r.frame = p.frame /\ r.ts = p.ts
  BY <1>1 DEF OnlyAnswers
<1>3. r = [frame |-> p.frame, ts |-> p.ts]
  BY <1>2 DEF OnlineTypeOK, Records
<1> QED BY <1>3 DEF Requested

LEMMA StepOnlyAnswers ==
  ASSUME OnlineInv, RunnerStep
  PROVE  OnlyAnswers'
<1> USE DEF OnlineInv, OnlyAnswers, Requested
<1>1. CASE /\ UNCHANGED <<provider.ledger, provider.latest, dynamic, sent>>
           /\ \/ UNCHANGED ipc.packet /\ (ipc'.valid => ipc.valid)
              \/ ipc' = NoResult
  BY <1>1 DEF NoResult
<1>2. ASSUME NEW gap \in Gaps, NEW wait \in Waits, StartFrame(gap, wait)
      PROVE  OnlyAnswers'
  <2>1. /\ UNCHANGED <<provider.ledger, provider.latest, dynamic, sent>>
        /\ ipc' = NoResult
    BY <1>2 DEF StartFrame, OnlineTypeOK, ProviderType
  <2> QED BY <1>1, <2>1
<1>3. CASE FailFrame \/ Finish \/ NotDue \/ NothingReceived \/ NothingToApply
             \/ NoPrediction
  BY <1>1, <1>3
     DEF FailFrame, Finish, NotDue, NothingReceived, NothingToApply, NoPrediction
<1>4. CASE SendRequest
  <2>1. /\ provider'.ledger = Push(provider.ledger, Record, LedgerSize)
        /\ provider'.latest = provider.latest /\ sent' = sent \cup {Record}
        /\ UNCHANGED <<ipc, dynamic>>
    BY <1>4 DEF SendRequest, OnlineTypeOK, ProviderType
  <2>2. Range(provider'.ledger) \subseteq Range(provider.ledger) \cup {Record}
    BY <2>1, LedgerPush DEF OnlineTypeOK
  <2> QED BY <2>1, <2>2
<1>5. CASE SendRefused \/ SendFails \/ ReceiveFails
  <2>1. /\ UNCHANGED <<provider.ledger, ipc, dynamic, sent>>
        /\ provider'.latest \in {provider.latest, Nothing}
    BY <1>5 DEF SendRefused, SendFails, ReceiveFails, OnlineTypeOK, ProviderType
  <2> QED BY <2>1
<1>6. CASE Receive
  <2>1. /\ UNCHANGED <<ipc, dynamic, sent>>
        /\ results \in Packets /\ provider'.ledger = provider.ledger
        /\ \/ provider'.latest = Nothing
           \/ ReceiveError(results) = "none" /\ provider'.latest = results
    BY <1>6 DEF Receive, OnlineTypeOK, ProviderType, ServiceType
  <2>2. CASE provider'.latest = Nothing
    BY <2>1, <2>2
  <2>3. CASE ReceiveError(results) = "none" /\ provider'.latest = results
    <3>1. Requested(results.frame, results.ts)
      BY <2>1, <2>3, UsableIsRequested
    <3> QED BY <2>1, <2>3, <3>1
  <2> QED BY <2>1, <2>2, <2>3
<1>7. CASE Evaluate
  <2>1. UNCHANGED <<provider, dynamic, sent>>
    BY <1>7 DEF Evaluate
  <2>2. \/ ipc'.valid = FALSE /\ ipc'.packet = ipc.packet
        \/ provider.latest # Nothing /\ ipc'.packet = provider.latest
    <3>1. \/ \E e : ipc' = [ipc EXCEPT !.valid = FALSE, !.reason = e]
          \/ /\ provider.latest # Nothing
             /\ ipc' = [valid |-> TRUE, reason |-> "ONLINE_PACKET_VALID",
                        packet |-> provider.latest]
      BY <1>7 DEF Evaluate, Degraded
    <3>2. CASE \E e : ipc' = [ipc EXCEPT !.valid = FALSE, !.reason = e]
      <4>1. PICK e : ipc' = [ipc EXCEPT !.valid = FALSE, !.reason = e]
        BY <3>2
      <4> QED BY <4>1 DEF OnlineTypeOK, IpcType
    <3>3. CASE /\ provider.latest # Nothing
               /\ ipc' = [valid |-> TRUE, reason |-> "ONLINE_PACKET_VALID",
                          packet |-> provider.latest]
      BY <3>3
    <3> QED BY <3>1, <3>2, <3>3
  <2> QED BY <2>1, <2>2
<1>8. CASE ApplyPacket
  <2>1. /\ UNCHANGED <<provider, ipc, sent>>
        /\ ipc.packet # Nothing
        /\ \/ dynamic' = dynamic
           \/ dynamic'.frame = ipc.packet.frame /\ dynamic'.last = ipc.packet.ts
    BY <1>8 DEF ApplyPacket, CanApply, IsNew
  <2> QED BY <2>1
<1>9. CASE SourceMissing \/ Predict
  <2>1. UNCHANGED <<provider, dynamic, sent, ipc.packet>> /\ (ipc'.valid => ipc.valid)
    BY <1>9 DEF SourceMissing, Predict, Degraded, OnlineTypeOK, IpcType
  <2> QED BY <1>1, <2>1
<1>10. ASSUME NEW pose \in BOOLEAN, Track(pose)
       PROVE  OnlyAnswers'
  BY <1>1, <1>10 DEF Track
<1> QED
  BY <1>2, <1>3, <1>4, <1>5, <1>6, <1>7, <1>8, <1>9, <1>10 DEF RunnerStep, RunnerWork

(* Frames get into the history, and from there into the dynamic state,     *)
(* once they have been tracked.                                            *)
LEMMA StepTracked ==
  ASSUME OnlineInv, RunnerStep
  PROVE  SourcesAreTracked'
<1> USE DEF OnlineInv, SourcesAreTracked
<1>1. runner.index \in Nat /\ completed \subseteq Nat
  BY DEF OnlineTypeOK, RunnerType
<1>2. CASE UNCHANGED <<runner.index, dynamic, history, completed>>
  BY <1>2
<1>3. CASE ApplyPacket
  <2>1. /\ UNCHANGED <<runner.index, history, completed>>
        /\ ipc.packet.frame \in Range(history)
        /\ dynamic' = dynamic \/ dynamic'.frame = ipc.packet.frame
    <3>1. \/ runner' = [runner EXCEPT !.pc = "failed", !.failure = "exception"]
          \/ runner' = [runner EXCEPT !.pc = "predict"]
      BY <1>3 DEF ApplyPacket
    <3>2. UNCHANGED runner.index
      BY <3>1 DEF OnlineTypeOK, RunnerType
    <3>3. dynamic' = dynamic \/ dynamic'.frame = ipc.packet.frame
      BY <1>3 DEF ApplyPacket
    <3> QED BY <1>3, <3>2, <3>3 DEF ApplyPacket, CanApply
  <2> QED BY <2>1
<1>4. ASSUME NEW pose \in BOOLEAN, Track(pose)
      PROVE  SourcesAreTracked'
  <2>1. /\ runner'.index = runner.index + 1 /\ UNCHANGED dynamic
        /\ \/ UNCHANGED <<history, completed>>
           \/ /\ history' = Push(history, runner.index, HistorySize)
              /\ completed' = completed \cup {runner.index}
    BY <1>4 DEF Track, OnlineTypeOK, RunnerType
  <2>2. Range(Push(history, runner.index, HistorySize))
          \subseteq Range(history) \cup {runner.index}
    BY HistoryPush DEF OnlineTypeOK
  <2>3. \A f \in completed \cup {runner.index} : f < runner.index + 1
    BY <1>1
  <2> QED BY <2>1, <2>2, <2>3
<1>5. CASE \E gap \in Gaps, wait \in Waits : StartFrame(gap, wait)
  BY <1>2, <1>5 DEF StartFrame, OnlineTypeOK, RunnerType
<1>6. CASE FailFrame \/ Finish \/ NotDue \/ SendRequest \/ SendRefused \/ SendFails
  BY <1>2, <1>6
     DEF FailFrame, Finish, NotDue, SendRequest, SendRefused, SendFails, RunnerGoto,
         OnlineTypeOK, RunnerType
<1>7. CASE Receive \/ ReceiveFails \/ NothingReceived \/ Evaluate
  BY <1>2, <1>7
     DEF Receive, ReceiveFails, NothingReceived, Evaluate, RunnerGoto,
         OnlineTypeOK, RunnerType
<1>8. CASE SourceMissing \/ NothingToApply \/ NoPrediction \/ Predict
  BY <1>2, <1>8
     DEF SourceMissing, NothingToApply, NoPrediction, Predict, RunnerGoto,
         OnlineTypeOK, RunnerType
<1> QED BY <1>3, <1>4, <1>5, <1>6, <1>7, <1>8 DEF RunnerStep, RunnerWork

(* A packet is applied when it is about a later frame than the last one.   *)
LEMMA StepApplied ==
  ASSUME OnlineInv, RunnerStep
  PROVE  AppliedInOrder'
<1> USE DEF OnlineInv
<1>1. CASE ApplyPacket
  <2>1. CASE dynamic' = dynamic
    BY <2>1 DEF AppliedInOrder, EachAnswerOnce
  <2>2. CASE dynamic' = [ready |-> TRUE, last |-> ipc.packet.ts,
                         frame |-> ipc.packet.frame,
                         updates |-> dynamic.updates + 1,
                         used |-> dynamic.used \cup {ipc.packet.frame}]
    <3> DEFINE f == ipc.packet.frame
    <3>1. /\ f \in Nat /\ dynamic.frame \in Nat /\ dynamic.used \subseteq Nat
          /\ ~dynamic.ready \/ f > dynamic.frame
      BY <1>1 DEF ApplyPacket, CanApply, IsNew, OnlineTypeOK, IpcType, Packets, DynamicType
    <3>2. f \notin dynamic.used /\ \A g \in dynamic.used \cup {f} : g <= f
      BY <3>1 DEF AppliedInOrder, EachAnswerOnce
    <3>3. /\ IsFiniteSet(dynamic.used \cup {f})
          /\ Cardinality(dynamic.used \cup {f}) = Cardinality(dynamic.used) + 1
      BY <3>2, FS_AddElement DEF AppliedInOrder
    <3>4. dynamic.updates = Cardinality(dynamic.used)
      BY DEF AppliedInOrder, EachAnswerOnce
    <3> QED BY <2>2, <3>2, <3>3, <3>4 DEF AppliedInOrder, EachAnswerOnce
  <2> QED BY <1>1, <2>1, <2>2 DEF ApplyPacket
<1>2. CASE UNCHANGED dynamic
  BY <1>2 DEF AppliedInOrder, EachAnswerOnce
<1> QED
  BY <1>1, <1>2
     DEF RunnerStep, RunnerWork, StartFrame, FailFrame, Finish, NotDue,
         SendRequest, SendRefused, SendFails, Receive, ReceiveFails,
         NothingReceived, Evaluate, SourceMissing, NothingToApply,
         NoPrediction, Predict, Track

(* No answer is older than one applied before it, or newer than the frame  *)
(* it is used for, so nothing throws.                                      *)
LEMMA StepNeverThrows ==
  ASSUME OnlineInv, RunnerStep
  PROVE  NeverThrows'
<1> USE DEF OnlineInv, NeverThrows, OnlineTypeOK, RunnerType
<1>1. ASSUME dynamic.ready
      PROVE  /\ dynamic.last <= runner.ts
             /\ IsNew(ipc.packet) => ~(ipc.packet.ts < dynamic.last)
  <2>1. Requested(dynamic.frame, dynamic.last)
    BY <1>1 DEF OnlyAnswers
  <2>2. /\ dynamic.last \in Nat /\ dynamic.frame \in Nat
        /\ dynamic.last <= runner.ts
    BY <2>1 DEF Requested, RequestsOrdered, DynamicType
  <2>3. ASSUME IsNew(ipc.packet)
        PROVE  ~(ipc.packet.ts < dynamic.last)
    <3>1. /\ ipc.packet.frame > dynamic.frame
          /\ Requested(ipc.packet.frame, ipc.packet.ts)
          /\ ipc.packet.frame \in Nat /\ ipc.packet.ts \in Nat
      BY <1>1, <2>3 DEF IsNew, OnlyAnswers, IpcType, Packets
    <3>2. dynamic.last < ipc.packet.ts
      BY <2>1, <2>2, <3>1 DEF Requested, RequestsOrdered
    <3> QED BY <2>2, <3>1, <3>2
  <2> QED BY <2>2, <2>3
<1>2. CASE ApplyPacket
  <2>1. runner' = [runner EXCEPT !.pc = "predict"]
    BY <1>1, <1>2 DEF ApplyPacket, CanApply
  <2> QED BY <2>1
<1>3. CASE Predict
  <2>1. dynamic.ready /\ ~(runner.ts < dynamic.last)
    <3>1. dynamic.ready
      BY <1>3 DEF Predict, WantsPrediction
    <3> QED BY <1>1, <3>1 DEF DynamicType
  <2>2. \/ runner' = [runner EXCEPT !.pc = "track"]
        \/ runner' = [runner EXCEPT !.pc = "track", !.score = dynamic.frame]
    BY <1>3, <2>1 DEF Predict
  <2> QED BY <2>2
<1>4. CASE UNCHANGED runner.failure
  BY <1>4
<1>5. CASE FailFrame
  BY <1>5 DEF FailFrame
<1>6. CASE \/ \E gap \in Gaps, wait \in Waits : StartFrame(gap, wait)
           \/ \E pose \in BOOLEAN : Track(pose)
  BY <1>4, <1>6 DEF StartFrame, Track
<1>7. CASE Finish \/ NotDue \/ SendRequest \/ SendRefused \/ SendFails \/ Receive
  BY <1>4, <1>7
     DEF Finish, NotDue, SendRequest, SendRefused, SendFails, Receive, RunnerGoto
<1>8. CASE ReceiveFails \/ NothingReceived \/ Evaluate \/ SourceMissing
             \/ NothingToApply \/ NoPrediction
  BY <1>4, <1>8
     DEF ReceiveFails, NothingReceived, Evaluate, SourceMissing,
         NothingToApply, NoPrediction, RunnerGoto
<1> QED BY <1>2, <1>3, <1>5, <1>6, <1>7, <1>8 DEF RunnerStep, RunnerWork

(* A frame gets a score from Predict only, and keeps it until it has been  *)
(* tracked.                                                                *)
LEMMA StepScore ==
  ASSUME OnlineInv, RunnerStep
  PROVE  ScoreIsCurrent'
<1> USE DEF OnlineInv, ScoreIsCurrent, OnlineTypeOK, RunnerType, RunnerAt,
            RunnerGoto
<1>1. CASE \E gap \in Gaps, wait \in Waits : StartFrame(gap, wait)
  BY <1>1 DEF StartFrame
<1>2. CASE FailFrame \/ Finish \/ NotDue \/ SendRequest \/ SendRefused \/ SendFails
  BY <1>2 DEF FailFrame, Finish, NotDue, SendRequest, SendRefused, SendFails
<1>3. CASE Receive \/ ReceiveFails \/ NothingReceived \/ Evaluate
  BY <1>3 DEF Receive, ReceiveFails, NothingReceived, Evaluate
<1>4. CASE ApplyPacket
  <2>1. runner'.score = runner.score /\ runner'.pc \in {"failed", "predict"}
    <3>1. \/ runner' = [runner EXCEPT !.pc = "failed", !.failure = "exception"]
          \/ runner' = [runner EXCEPT !.pc = "predict"]
      BY <1>4 DEF ApplyPacket
    <3> QED BY <3>1
  <2> QED BY <1>4, <2>1 DEF ApplyPacket
<1>5. CASE SourceMissing \/ NothingToApply \/ NoPrediction
  BY <1>5 DEF SourceMissing, NothingToApply, NoPrediction
<1>6. CASE Predict
  <2>1. runner' = [runner EXCEPT !.pc = "failed", !.failure = "exception"]
          \/ runner' = [runner EXCEPT !.pc = "track"]
          \/ /\ runner' = [runner EXCEPT !.pc = "track", !.score = dynamic.frame]
             /\ ~IsStale(dynamic.last) /\ UNCHANGED ipc
    BY <1>6 DEF Predict
  <2>2. dynamic.last \in Nat /\ runner.ts \in Nat /\ MaxAge \in Nat
    BY OnlineAssumption DEF DynamicType
  <2>3. ipc.valid /\ dynamic.ready /\ UNCHANGED dynamic /\ runner.score = Nothing
    BY <1>6 DEF Predict, WantsPrediction
  <2>4. CASE /\ runner' = [runner EXCEPT !.pc = "track", !.score = dynamic.frame]
             /\ ~IsStale(dynamic.last) /\ UNCHANGED ipc
    <3>1. /\ runner'.pc = "track" /\ runner'.score = dynamic.frame
          /\ runner'.ts = runner.ts
      BY <2>4
    <3>2. runner.ts - dynamic.last <= MaxAge
      BY <2>2, <2>4 DEF IsStale
    <3> QED BY <2>3, <2>4, <3>1, <3>2
  <2> QED BY <2>1, <2>3, <2>4
<1>7. CASE \E pose \in BOOLEAN : Track(pose)
  BY <1>7 DEF Track
<1> QED
  BY <1>1, <1>2, <1>3, <1>4, <1>5, <1>6, <1>7 DEF RunnerStep, RunnerWork

LEMMA OnlineInvariant == OnlineSpec => []OnlineInv
<1>1. OnlineInv /\ [OnlineNext]_vars => OnlineInv'
  <2> SUFFICES ASSUME OnlineInv, [OnlineNext]_vars PROVE OnlineInv'
    OBVIOUS
  <2>1. CASE RunnerStep
    <3>1. OnlineTypeOK'
      BY <2>1, RunnerStepType DEF OnlineInv
    <3> QED
      BY <2>1, <3>1, StepOrdered, StepOnlyAnswers, StepTracked, StepApplied,
         StepNeverThrows, StepScore
         DEF OnlineInv
  <2>2. CASE ServiceStep
    <3>1. OnlineTypeOK'
      BY <2>2, ServiceStepType DEF OnlineInv
    <3>2. UNCHANGED loopVars
      BY <2>2 DEF ServiceStep, ServiceStarts, ServiceTakes, ServicePublishes,
                  ServiceSkips, ServiceDies, ServiceOnly, loopVars
    <3> QED BY <3>1, <3>2, LoopUnchanged DEF OnlineInv
  <2>3. CASE UNCHANGED vars
    <3>1. OnlineTypeOK'
      BY <2>3 DEF vars, OnlineInv, OnlineTypeOK, RunnerType, ProviderType,
                  IpcType, DynamicType, HistoryType, ServiceType
    <3> QED BY <2>3, <3>1, LoopUnchanged DEF vars, loopVars, OnlineInv
  <2> QED BY <2>1, <2>2, <2>3 DEF OnlineNext, RunnerEnded
<1> QED BY <1>1, OnlineInitInv, PTL DEF OnlineSpec

(* Whatever the service and the sockets do, a score comes from a fresh     *)
(* answer about an earlier frame of this run.                              *)
THEOREM OnlineScoresAreFresh == OnlineSpec => []ScoresAreFresh
<1>1. OnlineInv => ScoresAreFresh
  <2> SUFFICES ASSUME OnlineInv, RunnerAt("track"), runner.score # Nothing
               PROVE  /\ ipc.valid
                      /\ runner.score \in completed /\ runner.score < runner.index
                      /\ \E r \in sent :
                           /\ r.frame = runner.score
                           /\ r.ts <= runner.ts /\ runner.ts - r.ts <= MaxAge
    BY DEF ScoresAreFresh
  <2> USE DEF OnlineInv
  <2>1. /\ ipc.valid /\ dynamic.ready /\ runner.score = dynamic.frame
        /\ runner.ts - dynamic.last <= MaxAge
    BY DEF ScoreIsCurrent
  <2>2. dynamic.frame \in completed /\ dynamic.frame < runner.index
    BY <2>1 DEF SourcesAreTracked
  <2>3. PICK r \in sent : r = [frame |-> dynamic.frame, ts |-> dynamic.last]
    BY <2>1 DEF OnlyAnswers, Requested
  <2>4. r.frame = dynamic.frame /\ r.ts = dynamic.last /\ r.ts <= runner.ts
    BY <2>3 DEF RequestsOrdered
  <2> QED BY <2>1, <2>2, <2>4
<1> QED BY <1>1, OnlineInvariant, PTL

(* Each answer is counted and filtered once.                               *)
THEOREM OnlineEachAnswerOnce == OnlineSpec => []EachAnswerOnce
<1>1. OnlineInv => EachAnswerOnce
  BY DEF OnlineInv, AppliedInOrder
<1> QED BY <1>1, OnlineInvariant, PTL

(* Nothing the service sends, whenever it arrives, ends the runner.        *)
THEOREM OnlineNeverThrows == OnlineSpec => []NeverThrows
<1>1. OnlineInv => NeverThrows
  BY DEF OnlineInv
<1> QED BY <1>1, OnlineInvariant, PTL

(***************************************************************************)
(* AnswersAreKnown.  When the deques are long enough there is a spacing    *)
(* that no two frames fall short of and that still makes a full deque      *)
(* reach back beyond the age limit.  What is n places from the newest end  *)
(* of a deque is then at least n spacings old, and what was dropped from   *)
(* it is as old as the deque is long: older than the age limit.            *)
(***************************************************************************)
IsSpacing(m) ==
  /\ m \in Nat
  /\ \A gap \in Gaps : m <= gap
  /\ MaxAge < LedgerSize * m /\ MaxAge < HistorySize * m

Spacing == CHOOSE m : IsSpacing(m)

LEMMA Quotient ==
  ASSUME NEW a \in Nat, NEW size \in Nat \ {0}
  PROVE  /\ a \div size \in Nat
         /\ a < size * ((a \div size) + 1)
         /\ \A n \in Nat : a < size * n => a \div size < n
<1>1. PICK q \in Nat : q = a \div size
  OBVIOUS
<1>2. /\ size * q <= a /\ a < size * (q + 1)
  BY <1>1
<1>3. ASSUME NEW n \in Nat, a < size * n
      PROVE  q < n
  <2>1. ASSUME n <= q
        PROVE  size * n <= size * q
    BY <2>1
  <2> QED BY <1>2, <1>3, <2>1
<1> QED BY <1>1, <1>2, <1>3

LEMMA LongEnoughIsSpaced ==
  ASSUME LongEnough
  PROVE  IsSpacing(Spacing)
<1>1. PICK q \in Nat, p \in Nat :
         /\ MaxAge < LedgerSize * (q + 1) /\ MaxAge < HistorySize * (p + 1)
         /\ \A n \in Nat : MaxAge < LedgerSize * n => q < n
         /\ \A n \in Nat : MaxAge < HistorySize * n => p < n
  <2>1. MaxAge \in Nat /\ LedgerSize \in Nat \ {0} /\ HistorySize \in Nat \ {0}
    BY OnlineAssumption
  <2> QED BY <2>1, Quotient
<1>2. \A gap \in Gaps : gap \in Nat /\ q < gap /\ p < gap
  BY <1>1, OnlineAssumption DEF LongEnough
<1>3. CASE p <= q
  <2>1. HistorySize * (p + 1) <= HistorySize * (q + 1)
    BY <1>3, OnlineAssumption
  <2>2. IsSpacing(q + 1)
    BY <1>1, <1>2, <2>1, OnlineAssumption DEF IsSpacing
  <2> QED BY <2>2 DEF Spacing
<1>4. CASE q <= p
  <2>1. LedgerSize * (q + 1) <= LedgerSize * (p + 1)
    BY <1>4, OnlineAssumption
  <2>2. IsSpacing(p + 1)
    BY <1>1, <1>2, <2>1, OnlineAssumption DEF IsSpacing
  <2> QED BY <2>2 DEF Spacing
<1> QED BY <1>3, <1>4

(* Where a push puts things: the new one at the newest end, every other    *)
(* one place further from it; of a full deque the oldest is dropped.       *)
LEMMA PushPlaces ==
  ASSUME NEW S, NEW s \in Seq(S), NEW x \in S, NEW size \in Nat \ {0},
         Len(s) <= size, NEW t, t = Push(s, x, size)
  PROVE  /\ t \in Seq(S) /\ x \in Range(t)
         /\ \A j \in DOMAIN t :
              \/ j = Len(t) /\ t[j] = x
              \/ \E i \in DOMAIN s :
                   t[j] = s[i] /\ Len(t) - j = (Len(s) - i) + 1
         /\ \A i \in DOMAIN s : s[i] \in Range(t) \/ (i = 1 /\ Len(s) = size)
<1>1. CASE Len(s) < size
  <2>1. t = Append(s, x)
    BY <1>1 DEF Push
  <2>2. /\ t \in Seq(S) /\ Len(t) = Len(s) + 1 /\ t[Len(t)] = x
        /\ \A i \in DOMAIN s : i \in DOMAIN t /\ t[i] = s[i]
    BY <2>1
  <2>3. \A j \in DOMAIN t : j = Len(t) \/ j \in DOMAIN s
    BY <2>2
  <2>4. Len(t) \in DOMAIN t
    BY <2>2
  <2> QED BY <2>2, <2>3, <2>4 DEF Range
<1>2. CASE Len(s) = size
  <2>1. PICK u : u = Append(s, x)
    OBVIOUS
  <2>2. /\ u \in Seq(S) /\ Len(u) = Len(s) + 1 /\ u[Len(u)] = x
        /\ \A i \in DOMAIN s : i \in DOMAIN u /\ u[i] = s[i]
    BY <2>1
  <2>3. t = Tail(u)
    BY <1>2, <2>1 DEF Push
  <2>4. /\ t \in Seq(S) /\ Len(t) = Len(s)
        /\ \A j \in DOMAIN t : t[j] = u[j + 1]
    BY <2>2, <2>3
  <2>5. \A j \in DOMAIN t : j = Len(t) \/ (j + 1 \in DOMAIN s)
    BY <2>4
  <2>6. Len(t) \in DOMAIN t /\ t[Len(t)] = x
    BY <1>2, <2>2, <2>4
  <2>7. ASSUME NEW j \in DOMAIN t, j # Len(t)
        PROVE  \E i \in DOMAIN s :
                 t[j] = s[i] /\ Len(t) - j = (Len(s) - i) + 1
    <3>1. j + 1 \in DOMAIN s /\ t[j] = s[j + 1]
      BY <2>2, <2>4, <2>5, <2>7
    <3> QED BY <2>4, <3>1
  <2>8. ASSUME NEW i \in DOMAIN s, i # 1
        PROVE  s[i] \in Range(t)
    <3>1. i - 1 \in DOMAIN t /\ t[i - 1] = u[(i - 1) + 1]
      BY <2>4, <2>8
    <3>2. u[(i - 1) + 1] = s[i]
      BY <2>2
    <3> QED BY <3>1, <3>2 DEF Range
  <2>9. x \in Range(t)
    BY <2>6 DEF Range
  <2> QED BY <1>2, <2>4, <2>6, <2>7, <2>8, <2>9
<1> QED BY <1>1, <1>2

(* t is at least n spacings before the current frame.                      *)
Behind(t, n) == t + Spacing * n <= runner.ts

InFrame == {"request", "drain", "evaluate", "apply", "predict", "track"}

(* Between the moment time moves on and the push that follows it, the      *)
(* places in a deque lag one spacing behind.                               *)
LedgerSpaced ==
  /\ \A i \in DOMAIN provider.ledger :
       LET n == Len(provider.ledger) - i IN
       /\ Behind(provider.ledger[i].ts, n)
       /\ RunnerAt("request") => Behind(provider.ledger[i].ts, n + 1)
  /\ \A r \in sent :
       r \in Range(provider.ledger) \/ Behind(r.ts, LedgerSize)

HistorySpaced ==
  /\ \A r \in sent : \A i \in DOMAIN history : history[i] = r.frame =>
       LET n == Len(history) - i IN
       /\ Behind(r.ts, n)
       /\ runner.pc \in InFrame => Behind(r.ts, n + 1)
  /\ \A r \in sent : r.frame \in completed =>
       r.frame \in Range(history) \/ Behind(r.ts, HistorySize)

SpacedInv == LedgerSpaced /\ HistorySpaced

LEMMA SpacedTypes ==
  ASSUME OnlineTypeOK
  PROVE  /\ runner.ts \in Nat /\ runner.index \in Nat
         /\ provider.ledger \in Seq(Records) /\ Len(provider.ledger) \in Nat
         /\ \A i \in DOMAIN provider.ledger :
              /\ provider.ledger[i].ts \in Nat
              /\ Len(provider.ledger) - i \in Nat
         /\ history \in Seq(Nat) /\ Len(history) \in Nat
         /\ \A i \in DOMAIN history : Len(history) - i \in Nat
         /\ \A r \in sent : r.ts \in Nat /\ r.frame \in Nat
<1>1. runner.ts \in Nat /\ runner.index \in Nat
  BY DEF OnlineTypeOK, RunnerType
<1>2. provider.ledger \in Seq(Records)
  BY DEF OnlineTypeOK, ProviderType
<1>3. history \in Seq(Nat)
  BY DEF OnlineTypeOK, HistoryType
<1>4. \A i \in DOMAIN provider.ledger : provider.ledger[i] \in Records
  BY <1>2
<1>5. \A r \in Records : r.ts \in Nat /\ r.frame \in Nat
  BY DEF Records
<1> QED BY <1>1, <1>2, <1>3, <1>4, <1>5 DEF OnlineTypeOK

(* What is n + 1 spacings old is n spacings old, and a frame later what is *)
(* n spacings old is n + 1.                                                *)
LEMMA BehindGrows ==
  ASSUME IsSpacing(Spacing), NEW t \in Nat, NEW n \in Nat, runner.ts \in Nat
  PROVE  /\ Behind(t, n + 1) => Behind(t, n)
         /\ \A gap \in Gaps :
              Behind(t, n) /\ runner'.ts = runner.ts + gap =>
                Behind(t, n)' /\ Behind(t, n + 1)'
<1>1. PICK m \in Nat : m = Spacing
  BY DEF IsSpacing
<1>2. m * (n + 1) = m * n + m
  OBVIOUS
<1>3. PICK p \in Nat : p = m * n
  OBVIOUS
<1>4. \A gap \in Gaps : gap \in Nat /\ m <= gap
  BY <1>1, OnlineAssumption DEF IsSpacing
<1> QED BY <1>1, <1>2, <1>3, <1>4 DEF Behind

(* Steps that move neither time nor the deques.                            *)
LEMMA SpacedQuiet ==
  ASSUME SpacedInv, UNCHANGED <<sent, history, completed>>,
         provider'.ledger = provider.ledger, runner'.ts = runner.ts,
         RunnerAt("request")' => RunnerAt("request"),
         runner'.pc \in InFrame => runner.pc \in InFrame
  PROVE  SpacedInv'
<1>1. \A t, n : Behind(t, n)' <=> Behind(t, n)
  BY DEF Behind
<1>2. LedgerSpaced'
  BY <1>1 DEF SpacedInv, LedgerSpaced
<1>3. HistorySpaced'
  BY <1>1 DEF SpacedInv, HistorySpaced
<1> QED BY <1>2, <1>3 DEF SpacedInv

(* Time moves on.                                                          *)
LEMMA SpacedStart ==
  ASSUME IsSpacing(Spacing), OnlineTypeOK, SpacedInv,
         NEW gap \in Gaps, NEW wait \in Waits, StartFrame(gap, wait)
  PROVE  SpacedInv'
<1>1. /\ runner'.ts = runner.ts + gap
      /\ provider'.ledger = provider.ledger
      /\ UNCHANGED <<sent, history, completed>>
  BY DEF StartFrame, OnlineTypeOK, RunnerType, ProviderType
<1>2. \A t, n \in Nat : Behind(t, n) => Behind(t, n)' /\ Behind(t, n + 1)'
  BY <1>1, BehindGrows, SpacedTypes
<1>3. LedgerSize \in Nat /\ HistorySize \in Nat
  BY OnlineAssumption
<1>4. LedgerSpaced'
  BY <1>1, <1>2, <1>3, SpacedTypes DEF SpacedInv, LedgerSpaced
<1>5. HistorySpaced'
  BY <1>1, <1>2, <1>3, SpacedTypes DEF SpacedInv, HistorySpaced
<1> QED BY <1>4, <1>5 DEF SpacedInv

(* A request goes to the newest end of the ledger.                         *)
LEMMA SpacedSend ==
  ASSUME IsSpacing(Spacing), OnlineInv, SpacedInv, SendRequest
  PROVE  SpacedInv'
<1>1. PICK t : t = Push(provider.ledger, Record, LedgerSize)
  OBVIOUS
<1>2. /\ RunnerAt("request") /\ runner'.ts = runner.ts
      /\ runner'.pc = "drain" /\ runner'.index = runner.index
      /\ provider'.ledger = t
      /\ sent' = sent \cup {Record}
      /\ UNCHANGED <<history, completed>>
  BY <1>1
     DEF SendRequest, RunnerGoto, RunnerAt, OnlineInv, OnlineTypeOK,
         RunnerType, ProviderType
<1>3. /\ Record \in Records
      /\ Record.ts = runner.ts /\ Record.frame = runner.index
  BY DEF Record, Records, OnlineInv, OnlineTypeOK, RunnerType
<1>4. /\ LedgerSize \in Nat \ {0} /\ Len(provider.ledger) <= LedgerSize
      /\ Spacing \in Nat
  BY OnlineAssumption DEF OnlineInv, OnlineTypeOK, ProviderType, IsSpacing
<1>5. /\ t \in Seq(Records) /\ Record \in Range(t)
      /\ \A j \in DOMAIN t :
           \/ j = Len(t) /\ t[j] = Record
           \/ \E i \in DOMAIN provider.ledger :
                /\ t[j] = provider.ledger[i]
                /\ Len(t) - j = (Len(provider.ledger) - i) + 1
      /\ \A i \in DOMAIN provider.ledger :
           \/ provider.ledger[i] \in Range(t)
           \/ i = 1 /\ Len(provider.ledger) = LedgerSize
  BY <1>1, <1>3, <1>4, SpacedTypes, PushPlaces DEF OnlineInv
<1>6. \A a, n : Behind(a, n)' <=> Behind(a, n)
  BY <1>2 DEF Behind
<1>7. LedgerSpaced'
  <2>1. ASSUME NEW j \in DOMAIN t
        PROVE  Behind(t[j].ts, Len(t) - j)
    <3>1. CASE j = Len(t) /\ t[j] = Record
      <4>1. Spacing * 0 = 0
        BY <1>4
      <4>2. Len(t) - j = 0
        BY <1>5, <3>1
      <4> QED BY <1>3, <3>1, <4>1, <4>2, SpacedTypes DEF Behind, OnlineInv
    <3>2. ASSUME NEW i \in DOMAIN provider.ledger,
                 t[j] = provider.ledger[i],
                 Len(t) - j = (Len(provider.ledger) - i) + 1
          PROVE  Behind(t[j].ts, Len(t) - j)
      BY <1>2, <3>2 DEF SpacedInv, LedgerSpaced
    <3> QED BY <1>5, <3>1, <3>2
  <2>2. ASSUME NEW r \in sent'
        PROVE  r \in Range(t) \/ Behind(r.ts, LedgerSize)
    <3>1. CASE r = Record
      BY <1>5, <3>1
    <3>2. CASE r \in Range(provider.ledger)
      <4>1. PICK i \in DOMAIN provider.ledger : r = provider.ledger[i]
        BY <3>2 DEF Range
      <4>2. CASE i = 1 /\ Len(provider.ledger) = LedgerSize
        <5>1. Behind(r.ts, (Len(provider.ledger) - i) + 1)
          BY <1>2, <4>1 DEF SpacedInv, LedgerSpaced
        <5>2. (Len(provider.ledger) - i) + 1 = LedgerSize
          BY <1>4, <4>2
        <5> QED BY <5>1, <5>2
      <4> QED BY <1>5, <4>1, <4>2
    <3>3. CASE r \in sent /\ r \notin Range(provider.ledger)
      BY <3>3 DEF SpacedInv, LedgerSpaced
    <3> QED BY <1>2, <3>1, <3>2, <3>3
  <2>3. ~RunnerAt("request")'
    BY <1>2 DEF RunnerAt
  <2> QED BY <1>2, <1>6, <2>1, <2>2, <2>3 DEF LedgerSpaced
<1>8. HistorySpaced'
  <2>1. \A i \in DOMAIN history : history[i] \in completed
    BY DEF OnlineInv, SourcesAreTracked, Range
  <2>2. runner.index \notin completed
    BY SpacedTypes DEF OnlineInv, SourcesAreTracked
  <2>3. /\ Record.frame \notin completed
        /\ \A i \in DOMAIN history : history[i] # Record.frame
    BY <1>3, <2>1, <2>2
  <2>4. runner.pc \in InFrame
    BY <1>2 DEF RunnerAt, InFrame
  <2> QED BY <1>2, <1>6, <2>3, <2>4 DEF SpacedInv, HistorySpaced
<1> QED BY <1>7, <1>8 DEF SpacedInv

(* A completed frame goes to the newest end of the history.                *)
LEMMA SpacedTrack ==
  ASSUME IsSpacing(Spacing), OnlineInv, SpacedInv,
         NEW pose \in BOOLEAN, Track(pose)
  PROVE  SpacedInv'
<1>1. /\ RunnerAt("track") /\ runner'.ts = runner.ts /\ runner'.pc = "frame"
      /\ UNCHANGED <<provider, sent>>
  BY DEF Track, OnlineInv, OnlineTypeOK, RunnerType
<1>2. \A a, n : Behind(a, n)' <=> Behind(a, n)
  BY <1>1 DEF Behind
<1>3. LedgerSpaced'
  BY <1>1, <1>2 DEF SpacedInv, LedgerSpaced, RunnerAt
<1>4. HistorySpaced'
  <2>1. CASE ~pose
    <3>1. UNCHANGED <<history, completed>> /\ runner'.pc \notin InFrame
      BY <1>1, <2>1 DEF Track, InFrame
    <3> QED BY <1>1, <1>2, <3>1 DEF SpacedInv, HistorySpaced
  <2>2. CASE pose
    <3>1. PICK t : t = Push(history, runner.index, HistorySize)
      OBVIOUS
    <3>2. /\ history' = t /\ completed' = completed \cup {runner.index}
          /\ runner'.pc \notin InFrame /\ runner.pc \in InFrame
      BY <1>1, <2>2, <3>1 DEF Track, InFrame, RunnerAt
    <3>3. /\ HistorySize \in Nat \ {0} /\ Len(history) <= HistorySize
          /\ Spacing \in Nat
      BY OnlineAssumption DEF OnlineInv, OnlineTypeOK, HistoryType, IsSpacing
    <3>4. /\ t \in Seq(Nat) /\ runner.index \in Range(t)
          /\ \A j \in DOMAIN t :
               \/ j = Len(t) /\ t[j] = runner.index
               \/ \E i \in DOMAIN history :
                    t[j] = history[i] /\ Len(t) - j = (Len(history) - i) + 1
          /\ \A i \in DOMAIN history :
               \/ history[i] \in Range(t)
               \/ i = 1 /\ Len(history) = HistorySize
      <4>1. OnlineTypeOK
        BY DEF OnlineInv
      <4>2. history \in Seq(Nat) /\ runner.index \in Nat
        BY <4>1, SpacedTypes
      <4>3. PICK S, f : S = Nat /\ f = runner.index
        OBVIOUS
      <4>4. history \in Seq(S) /\ f \in S /\ t = Push(history, f, HistorySize)
        BY <3>1, <4>2, <4>3
      <4>5. /\ t \in Seq(S) /\ f \in Range(t)
            /\ \A j \in DOMAIN t :
                 \/ j = Len(t) /\ t[j] = f
                 \/ \E i \in DOMAIN history :
                      t[j] = history[i] /\ Len(t) - j = (Len(history) - i) + 1
            /\ \A i \in DOMAIN history :
                 \/ history[i] \in Range(t)
                 \/ i = 1 /\ Len(history) = HistorySize
        BY ONLY <3>3, <4>4, PushPlaces
      <4> QED BY <4>3, <4>5
    <3>5. ASSUME NEW r \in sent, NEW j \in DOMAIN t, t[j] = r.frame
          PROVE  Behind(r.ts, Len(t) - j)
      <4>1. CASE j = Len(t)
        <5>1. Spacing * 0 = 0
          BY <3>3
        <5>2. Len(t) - j = 0
          BY <3>4, <4>1
        <5>3. r.ts <= runner.ts
          BY DEF OnlineInv, RequestsOrdered
        <5> QED BY <5>1, <5>2, <5>3, SpacedTypes DEF Behind, OnlineInv
      <4>2. ASSUME NEW i \in DOMAIN history, t[j] = history[i],
                   Len(t) - j = (Len(history) - i) + 1
            PROVE  Behind(r.ts, Len(t) - j)
        BY <3>2, <3>5, <4>2 DEF SpacedInv, HistorySpaced
      <4> QED BY <3>4, <4>1, <4>2
    <3>6. ASSUME NEW r \in sent, r.frame \in completed'
          PROVE  r.frame \in Range(t) \/ Behind(r.ts, HistorySize)
      <4>1. CASE r.frame = runner.index
        BY <3>4, <4>1
      <4>2. CASE r.frame \in Range(history)
        <5>1. PICK i \in DOMAIN history : r.frame = history[i]
          BY <4>2 DEF Range
        <5>2. CASE i = 1 /\ Len(history) = HistorySize
          <6>1. Behind(r.ts, (Len(history) - i) + 1)
            BY <3>2, <5>1 DEF SpacedInv, HistorySpaced
          <6>2. (Len(history) - i) + 1 = HistorySize
            BY <3>3, <5>2
          <6> QED BY <6>1, <6>2
        <5> QED BY <3>4, <5>1, <5>2
      <4>3. CASE r.frame \in completed /\ r.frame \notin Range(history)
        BY <4>3 DEF SpacedInv, HistorySpaced
      <4> QED BY <3>2, <3>6, <4>1, <4>2, <4>3
    <3> QED BY <1>1, <1>2, <3>2, <3>5, <3>6 DEF HistorySpaced
  <2> QED BY <2>1, <2>2
<1> QED BY <1>3, <1>4 DEF SpacedInv

(* The other steps of the runner leave the deques and the time alone.      *)
LEMMA QuietSteps ==
  ASSUME OnlineInv, RunnerStep,
         ~(\E gap \in Gaps, wait \in Waits : StartFrame(gap, wait)),
         ~SendRequest, ~(\E pose \in BOOLEAN : Track(pose))
  PROVE  /\ UNCHANGED <<history, completed>>
         /\ provider'.ledger = provider.ledger
         /\ runner'.pc \in InFrame => runner.pc \in InFrame
<1> USE DEF OnlineInv, OnlineTypeOK, RunnerType, ProviderType, RunnerAt,
            RunnerGoto, InFrame
<1>1. CASE FailFrame \/ Finish \/ NotDue \/ SendRefused \/ SendFails
  BY <1>1 DEF FailFrame, Finish, NotDue, SendRefused, SendFails
<1>2. CASE Receive \/ ReceiveFails \/ NothingReceived \/ Evaluate
  BY <1>2 DEF Receive, ReceiveFails, NothingReceived, Evaluate
<1>3. CASE ApplyPacket \/ SourceMissing \/ NothingToApply \/ NoPrediction
  BY <1>3 DEF ApplyPacket, SourceMissing, NothingToApply, NoPrediction
<1>4. CASE Predict
  BY <1>4 DEF Predict
<1> QED BY <1>1, <1>2, <1>3, <1>4 DEF RunnerStep, RunnerWork

LEMMA SpacedInit ==
  ASSUME OnlineInit
  PROVE  SpacedInv
<1>1. sent = {} /\ provider.ledger = << >> /\ ~RunnerAt("request")
  BY DEF OnlineInit, RunnerAt
<1>2. DOMAIN provider.ledger = {}
  BY <1>1
<1> QED BY <1>1, <1>2 DEF SpacedInv, LedgerSpaced, HistorySpaced

LEMMA SpacedStep ==
  ASSUME IsSpacing(Spacing), OnlineInv, SpacedInv, [OnlineNext]_vars
  PROVE  SpacedInv'
<1>1. CASE RunnerStep
  <2>1. ASSUME NEW gap \in Gaps, NEW wait \in Waits, StartFrame(gap, wait)
        PROVE  SpacedInv'
    BY <2>1, SpacedStart DEF OnlineInv
  <2>2. CASE SendRequest
    BY <2>2, SpacedSend
  <2>3. ASSUME NEW pose \in BOOLEAN, Track(pose)
        PROVE  SpacedInv'
    BY <2>3, SpacedTrack
  <2>4. CASE /\ ~(\E gap \in Gaps, wait \in Waits : StartFrame(gap, wait))
             /\ ~SendRequest /\ ~(\E pose \in BOOLEAN : Track(pose))
    <3>1. /\ UNCHANGED <<sent, history, completed>>
          /\ provider'.ledger = provider.ledger /\ runner'.ts = runner.ts
          /\ runner'.pc \in InFrame => runner.pc \in InFrame
          /\ RunnerAt("request")' => RunnerAt("request")
      BY <1>1, <2>4, SameRequests, QuietSteps DEF RunnerAt
    <3> QED BY <3>1, SpacedQuiet
  <2> QED BY <2>1, <2>2, <2>3, <2>4
<1>2. CASE ServiceStep \/ UNCHANGED vars
  <2>1. UNCHANGED loopVars
    BY <1>2 DEF ServiceStep, ServiceStarts, ServiceTakes, ServicePublishes,
                ServiceSkips, ServiceDies, ServiceOnly, loopVars, vars
  <2> QED BY <2>1, SpacedQuiet DEF loopVars, RunnerAt
<1> QED BY <1>1, <1>2 DEF OnlineNext, RunnerEnded

KnownInv == LongEnough => SpacedInv

(* When the deques are long enough for the age limit, every fresh request  *)
(* is still in the ledger and every completed frame a fresh request is     *)
(* about is still in the history, so that no usable answer is turned down. *)
THEOREM OnlineAnswersAreKnown == OnlineSpec => []AnswersAreKnown
<1>1. OnlineInit => KnownInv
  BY SpacedInit DEF KnownInv
<1>2. OnlineInv /\ KnownInv /\ [OnlineNext]_vars => KnownInv'
  <2> SUFFICES ASSUME OnlineInv, KnownInv, [OnlineNext]_vars, LongEnough
               PROVE  SpacedInv'
    BY DEF KnownInv, LongEnough
  <2>1. IsSpacing(Spacing)
    BY LongEnoughIsSpaced
  <2> QED BY <2>1, SpacedStep DEF KnownInv
<1>3. OnlineInv /\ KnownInv => AnswersAreKnown
  <2> SUFFICES ASSUME OnlineInv, KnownInv, LongEnough, NEW r \in sent,
                      IsFresh(r)
               PROVE  /\ r \in Range(provider.ledger)
                      /\ r.frame \in completed => r.frame \in Range(history)
    BY DEF AnswersAreKnown
  <2>1. IsSpacing(Spacing) /\ SpacedInv
    BY LongEnoughIsSpaced DEF KnownInv
  <2>2. PICK m \in Nat : /\ m = Spacing
                         /\ MaxAge < LedgerSize * m /\ MaxAge < HistorySize * m
    BY <2>1 DEF IsSpacing
  <2>3. /\ LedgerSize \in Nat /\ HistorySize \in Nat /\ MaxAge \in Nat
        /\ runner.ts \in Nat /\ r.ts \in Nat
    BY OnlineAssumption, SpacedTypes DEF OnlineInv
  <2>4. /\ m * LedgerSize = LedgerSize * m
        /\ m * HistorySize = HistorySize * m
    BY <2>3
  <2>5. PICK p \in Nat, q \in Nat : p = m * LedgerSize /\ q = m * HistorySize
    BY <2>3
  <2>6. ~Behind(r.ts, LedgerSize) /\ ~Behind(r.ts, HistorySize)
    BY <2>2, <2>3, <2>4, <2>5 DEF Behind, IsFresh
  <2> QED BY <2>1, <2>6 DEF SpacedInv, LedgerSpaced, HistorySpaced
<1> QED BY <1>1, <1>2, <1>3, OnlineInvariant, PTL DEF OnlineSpec
=============================================================================
