---------------------------- MODULE OnlineMasks ----------------------------
(***************************************************************************)
(* The online semantic loop: rgbd_tum_online with its IpcMaskProvider, and *)
(* the semantic service at the other end of two conflating ZeroMQ sockets. *)
(* The runner asks for the masks of some frames, tracks every frame, and   *)
(* uses an answer about an earlier frame to score a later one.  Messages   *)
(* are lost, late or unusable; the service runs out of memory, dies and is *)
(* started again.  An answer is the frame it is about, the time stamp it   *)
(* claims for it, and whether its contents pass the checks (ok).           *)
(***************************************************************************)
EXTENDS Naturals, Sequences, FiniteSets, Functions

CONSTANTS
  MaxFrame,     \* the frames of the sequence are 0 .. MaxFrame
  Gaps,         \* possible differences of the time stamps of two frames
  Waits,        \* possible differences of the clock between two polls
  MaxAge,       \* max_age_ns
  Interval,     \* 1e9 / request_rate_cap_hz
  LedgerSize,   \* 64 requests
  HistorySize,  \* 64 completed frames
  Leftovers,    \* answers a service may still compute for an earlier run
  Nothing       \* no packet

Packets == [frame : Nat, ts : Nat, ok : BOOLEAN]

ASSUME OnlineAssumption ==
  /\ MaxFrame \in Nat /\ MaxAge \in Nat \ {0} /\ Interval \in Nat \ {0}
  /\ LedgerSize \in Nat \ {0} /\ HistorySize \in Nat \ {0}
  /\ Gaps \subseteq Nat \ {0} /\ Waits \subseteq Nat
  /\ Leftovers \subseteq Packets
  /\ Nothing \notin Packets \cup Nat

VARIABLES
  runner,       \* the frame loop of main
  provider,     \* IpcMaskProvider
  ipc,          \* IpcPollResult of this frame
  dynamic,      \* OnlineDynamicState and the packets applied to it
  history,      \* the completed frames, oldest first
  requests,     \* the request socket: at most one message
  results,      \* the result socket: at most one message
  service,      \* LatestFrameService
  sent,         \* history variable: the requests of this run
  completed     \* history variable: the frames with a pose

vars == <<runner, provider, ipc, dynamic, history, requests, results,
          service, sent, completed>>

RunnerControl == {"frame", "request", "drain", "evaluate", "apply", "predict",
                  "track", "done", "failed"}
ServiceControl == {"down", "idle", "infer"}
Reasons == {"none", "ONLINE_PACKET_VALID", "NO_PACKET", "TRANSPORT_SEND_ERROR",
            "TRANSPORT_RECEIVE_ERROR", "INVALID", "FUTURE_PACKET",
            "STALE_PACKET", "UNREQUESTED_FRAME", "SOURCE_TIMESTAMP_MISMATCH",
            "SOURCE_FRAME_NOT_AVAILABLE", "PREDICTION_STALE"}

(* elapsed is the clock minus last_request_attempt_ns_, up to Interval;    *)
(* score is the frame whose masks the score map of this frame comes from;  *)
(* last is last_timestamp_ns of the dynamic state and frame is             *)
(* last_applied_packet.                                                    *)
RunnerType ==
  runner \in [pc : RunnerControl, index : Nat, ts : Nat, score : Nat \cup {Nothing},
              failure : {"none", "input", "exception"}]
Records == [frame : Nat, ts : Nat]
ProviderType ==
  /\ provider \in [attempted : BOOLEAN, elapsed : 0 .. Interval,
                   latest : Packets \cup {Nothing}, error : Reasons,
                   ledger : Seq(Records)]
  /\ Len(provider.ledger) <= LedgerSize
IpcType ==
  ipc \in [valid : BOOLEAN, reason : Reasons, packet : Packets \cup {Nothing}]
DynamicType ==
  dynamic \in [ready : BOOLEAN, last : Nat, frame : Nat, updates : Nat,
               used : SUBSET Nat]
HistoryType == history \in Seq(Nat) /\ Len(history) <= HistorySize
ServiceType ==
  /\ service \in [pc : ServiceControl, job : Packets \cup {Nothing}]
  /\ service.pc = "infer" => service.job \in Packets
  /\ requests \in Packets \cup {Nothing}
  /\ results \in Packets \cup {Nothing}

OnlineTypeOK ==
  /\ RunnerType /\ ProviderType /\ IpcType /\ DynamicType /\ HistoryType
  /\ ServiceType
  /\ sent \subseteq Records
  /\ completed \subseteq Nat

NoResult == [valid |-> FALSE, reason |-> "none", packet |-> Nothing]

(* A service that has not finished with an earlier run may be there.       *)
OnlineInit ==
  /\ runner = [pc |-> "frame", index |-> 0, ts |-> 0, score |-> Nothing,
               failure |-> "none"]
  /\ provider = [attempted |-> FALSE, elapsed |-> 0, latest |-> Nothing,
                 error |-> "none", ledger |-> << >>]
  /\ ipc = NoResult
  /\ dynamic = [ready |-> FALSE, last |-> 0, frame |-> 0, updates |-> 0,
                used |-> {}]
  /\ history = << >>
  /\ requests = Nothing /\ results = Nothing
  /\ service \in {[pc |-> "down", job |-> Nothing]}
                   \cup [pc : {"infer"}, job : Leftovers]
  /\ sent = {} /\ completed = {}

(* Fault: the oldest entry is not dropped. *)
PushForever(s, x, size) == Append(s, x)

(* A bounded deque: push_back, then pop_front while it is too long.        *)
Push(s, x, size) ==
  IF Len(s) < size THEN Append(s, x) ELSE Tail(Append(s, x))

RunnerAt(p) == runner.pc = p
RunnerGoto(p, q) == RunnerAt(p) /\ runner' = [runner EXCEPT !.pc = q]

(***************************************************************************)
(* The runner: one iteration of the frame loop.                            *)
(***************************************************************************)

(* The next frame is read; the clock has moved on since the last one.      *)
StartFrame(gap, wait) ==
  /\ RunnerAt("frame")
  /\ runner.index <= MaxFrame
  /\ runner' = [runner EXCEPT !.pc = "request", !.ts = @ + gap,
                              !.score = Nothing]
  /\ provider' = [provider EXCEPT
                    !.elapsed = IF @ + wait < Interval THEN @ + wait ELSE Interval]
  /\ ipc' = NoResult
  /\ UNCHANGED <<dynamic, history, requests, results, service, sent, completed>>

Finish ==
  /\ runner.index > MaxFrame
  /\ RunnerGoto("frame", "done")
  /\ UNCHANGED <<provider, ipc, dynamic, history, requests, results, service,
                 sent, completed>>

Due == ~provider.attempted \/ provider.elapsed = Interval

NotDue ==
  /\ ~Due
  /\ RunnerGoto("request", "drain")
  /\ UNCHANGED <<provider, ipc, dynamic, history, requests, results, service,
                 sent, completed>>

Record == [frame |-> runner.index, ts |-> runner.ts]
Request == [frame |-> runner.index, ts |-> runner.ts, ok |-> TRUE]

(* Fault: one request too few is kept. *)
SendRequestShortLedger ==
  /\ Due
  /\ RunnerGoto("request", "drain")
  /\ provider' = [provider EXCEPT
                    !.attempted = TRUE, !.elapsed = 0,
                    !.ledger = Push(@, Record, LedgerSize - 1)]
  /\ sent' = sent \cup {Record}
  /\ \/ service.pc # "down" /\ requests' = Request
     \/ UNCHANGED requests
  /\ UNCHANGED <<ipc, dynamic, history, results, service, completed>>

(* The message reaches the service, replacing one it has not read, or is   *)
(* lost, as it is when nobody subscribes.                                  *)
SendRequest ==
  /\ Due
  /\ RunnerGoto("request", "drain")
  /\ provider' = [provider EXCEPT
                    !.attempted = TRUE, !.elapsed = 0,
                    !.ledger = Push(@, Record, LedgerSize)]
  /\ sent' = sent \cup {Record}
  /\ \/ service.pc # "down" /\ requests' = Request
     \/ UNCHANGED requests
  /\ UNCHANGED <<ipc, dynamic, history, results, service, completed>>

(* EAGAIN, or an error: the attempt counts all the same.                   *)
SendRefused ==
  /\ Due
  /\ RunnerGoto("request", "drain")
  /\ provider' = [provider EXCEPT !.attempted = TRUE, !.elapsed = 0]
  /\ UNCHANGED <<ipc, dynamic, history, requests, results, service, sent, completed>>

SendFails ==
  /\ Due
  /\ RunnerGoto("request", "drain")
  /\ provider' = [provider EXCEPT
                    !.attempted = TRUE, !.elapsed = 0,
                    !.latest = Nothing, !.error = "TRANSPORT_SEND_ERROR"]
  /\ UNCHANGED <<ipc, dynamic, history, requests, results, service, sent, completed>>

(* decodeSemanticPacket against the frame being processed.                 *)
DecodeError(p) ==
  IF ~p.ok THEN "INVALID"
  ELSE IF p.ts > runner.ts THEN "FUTURE_PACKET"
  ELSE IF runner.ts - p.ts > MaxAge THEN "STALE_PACKET"
  ELSE "none"

(* Fault: the time stamp of the request is not compared. *)
LedgerErrorByFrame(p) ==
  IF \E r \in Range(provider.ledger) : r.frame = p.frame
  THEN "none" ELSE "UNREQUESTED_FRAME"

LedgerError(p) ==
  IF \E r \in Range(provider.ledger) : r.frame = p.frame /\ r.ts = p.ts
  THEN "none"
  ELSE IF \E r \in Range(provider.ledger) : r.frame = p.frame
  THEN "SOURCE_TIMESTAMP_MISMATCH"
  ELSE "UNREQUESTED_FRAME"

ReceiveError(p) ==
  IF DecodeError(p) # "none" THEN DecodeError(p) ELSE LedgerError(p)

(* The drain loop of poll: an unusable packet also discards a usable one.  *)
Receive ==
  /\ RunnerAt("drain")
  /\ results # Nothing
  /\ provider' = [provider EXCEPT
                    !.latest = IF ReceiveError(results) = "none"
                               THEN results ELSE Nothing,
                    !.error = ReceiveError(results)]
  /\ results' = Nothing
  /\ UNCHANGED <<runner, ipc, dynamic, history, requests, service, sent, completed>>

ReceiveFails ==
  /\ RunnerGoto("drain", "evaluate")
  /\ provider' = [provider EXCEPT !.latest = Nothing,
                                  !.error = "TRANSPORT_RECEIVE_ERROR"]
  /\ UNCHANGED <<ipc, dynamic, history, requests, results, service, sent, completed>>

(* Fault: the first answer is waited for. *)
WaitForAnswer ==
  /\ results = Nothing
  /\ provider.latest # Nothing
  /\ RunnerGoto("drain", "evaluate")
  /\ UNCHANGED <<provider, ipc, dynamic, history, requests, results, service,
                 sent, completed>>

NothingReceived ==
  /\ results = Nothing
  /\ RunnerGoto("drain", "evaluate")
  /\ UNCHANGED <<provider, ipc, dynamic, history, requests, results, service,
                 sent, completed>>

Degraded(reason) == [ipc EXCEPT !.valid = FALSE, !.reason = reason]

(* The rest of poll: the latest packet is decoded again, because it ages.  *)
Evaluate ==
  /\ RunnerGoto("evaluate", "apply")
  /\ LET p == provider.latest IN
     \/ /\ p = Nothing
        /\ ipc' = Degraded(IF provider.error = "none" THEN "NO_PACKET"
                           ELSE provider.error)
     \/ /\ p # Nothing /\ DecodeError(p) # "none"
        /\ ipc' = Degraded(DecodeError(p))
     \/ /\ p # Nothing /\ DecodeError(p) = "none"
        /\ ipc' = [valid |-> TRUE, reason |-> "ONLINE_PACKET_VALID", packet |-> p]
  /\ UNCHANGED <<provider, dynamic, history, requests, results, service, sent,
                 completed>>

(* Fault: a packet may be applied again. *)
IsNewAgain(p) == p # Nothing

IsNew(p) == p # Nothing /\ (~dynamic.ready \/ p.frame > dynamic.frame)

CanApply == IsNew(ipc.packet) /\ ipc.packet.frame \in Range(history)

(* An image is missing or has other dimensions, or the telemetry of the    *)
(* last frame cannot be written; the depth of the source does not fit, or  *)
(* gives an object a centroid that is not finite (OnlineDynamicState.cc:   *)
(* 193-198, which answers that pass their checks reach on overflow only).  *)
FailFrame ==
  /\ RunnerAt("frame") \/ (RunnerAt("apply") /\ CanApply)
  /\ runner' = [runner EXCEPT !.pc = "failed", !.failure = "input"]
  /\ UNCHANGED <<provider, ipc, dynamic, history, requests, results, service,
                 sent, completed>>

(* updateCompletedFrame with the depth and pose of the source frame; it    *)
(* throws when time runs backwards, and the run ends.                      *)
ApplyPacket ==
  /\ RunnerAt("apply")
  /\ CanApply
  /\ IF dynamic.ready /\ ipc.packet.ts < dynamic.last
     THEN /\ runner' = [runner EXCEPT !.pc = "failed", !.failure = "exception"]
          /\ UNCHANGED dynamic
     ELSE /\ runner' = [runner EXCEPT !.pc = "predict"]
          /\ dynamic' = [ready |-> TRUE, last |-> ipc.packet.ts,
                         frame |-> ipc.packet.frame,
                         updates |-> dynamic.updates + 1,
                         used |-> dynamic.used \cup {ipc.packet.frame}]
  /\ UNCHANGED <<provider, ipc, history, requests, results, service, sent, completed>>

(* The source frame has no pose, or the packet is about this very frame.   *)
SourceMissing ==
  /\ IsNew(ipc.packet)
  /\ ipc.packet.frame \notin Range(history)
  /\ RunnerGoto("apply", "predict")
  /\ ipc' = IF ipc.packet.frame < runner.index
            THEN Degraded("SOURCE_FRAME_NOT_AVAILABLE") ELSE ipc
  /\ UNCHANGED <<provider, dynamic, history, requests, results, service, sent,
                 completed>>

NothingToApply ==
  /\ ~IsNew(ipc.packet)
  /\ RunnerGoto("apply", "predict")
  /\ UNCHANGED <<provider, ipc, dynamic, history, requests, results, service,
                 sent, completed>>

WantsPrediction == dynamic.ready /\ ipc.valid /\ history # << >>

NoPrediction ==
  /\ ~WantsPrediction
  /\ RunnerGoto("predict", "track")
  /\ UNCHANGED <<provider, ipc, dynamic, history, requests, results, service,
                 sent, completed>>

(* Fault: tracks of any age will do. *)
IsStaleNever(last) == FALSE

IsStale(last) == runner.ts - last > MaxAge

(* predict throws when asked about the past, and refuses tracks that have  *)
(* not been updated for too long.                                          *)
Predict ==
  /\ RunnerAt("predict")
  /\ WantsPrediction
  /\ IF runner.ts < dynamic.last
     THEN /\ runner' = [runner EXCEPT !.pc = "failed", !.failure = "exception"]
          /\ UNCHANGED ipc
     ELSE IF IsStale(dynamic.last)
     THEN /\ runner' = [runner EXCEPT !.pc = "track"]
          /\ ipc' = Degraded("PREDICTION_STALE")
     ELSE /\ runner' = [runner EXCEPT !.pc = "track", !.score = dynamic.frame]
          /\ UNCHANGED ipc
  /\ UNCHANGED <<provider, dynamic, history, requests, results, service, sent,
                 completed>>

(* TrackRGBD returns a pose, and the frame is completed, or it does not.   *)
Track(pose) ==
  /\ RunnerAt("track")
  /\ runner' = [runner EXCEPT !.pc = "frame", !.index = @ + 1]
  /\ history' = IF pose THEN Push(history, runner.index, HistorySize) ELSE history
  /\ completed' = IF pose THEN completed \cup {runner.index} ELSE completed
  /\ UNCHANGED <<provider, ipc, dynamic, requests, results, service, sent>>

RunnerWork ==
  \/ \E gap \in Gaps, wait \in Waits : StartFrame(gap, wait)
  \/ Finish
  \/ NotDue \/ SendRequest \/ SendRefused
  \/ Receive \/ NothingReceived
  \/ Evaluate
  \/ ApplyPacket \/ SourceMissing \/ NothingToApply
  \/ NoPrediction \/ Predict
  \/ \E pose \in BOOLEAN : Track(pose)

RunnerStep == RunnerWork \/ FailFrame \/ SendFails \/ ReceiveFails

(***************************************************************************)
(* The service.                                                            *)
(***************************************************************************)
ServiceOnly == UNCHANGED <<runner, provider, ipc, dynamic, history, sent, completed>>

ServiceStarts ==
  /\ service.pc = "down"
  /\ service' = [service EXCEPT !.pc = "idle"]
  /\ UNCHANGED <<requests, results>>
  /\ ServiceOnly

(* serve_once takes the latest request and infers, or rejects it.          *)
ServiceTakes ==
  /\ service.pc = "idle" /\ requests # Nothing
  /\ requests' = Nothing
  /\ \/ service' = [pc |-> "infer", job |-> requests]
     \/ UNCHANGED service
  /\ UNCHANGED results
  /\ ServiceOnly

(* The answer replaces one that has not been read, or is dropped.  It may  *)
(* be one the runner cannot use: corrupt, or of another protocol version,  *)
(* prompt or model.                                                        *)
ServicePublishes(ok) ==
  /\ service.pc = "infer"
  /\ service' = [pc |-> "idle", job |-> Nothing]
  /\ \/ results' = [service.job EXCEPT !.ok = @ /\ ok]
     \/ UNCHANGED results
  /\ UNCHANGED requests
  /\ ServiceOnly

(* Out of memory at the lower resolution too, or masks that do not fit the *)
(* frame: the service goes on.                                             *)
ServiceSkips ==
  /\ service.pc = "infer"
  /\ service' = [pc |-> "idle", job |-> Nothing]
  /\ UNCHANGED <<requests, results>>
  /\ ServiceOnly

(* Another failure, or a kill: what it has not read is gone with it.       *)
ServiceDies ==
  /\ service.pc # "down"
  /\ service' = [pc |-> "down", job |-> Nothing]
  /\ requests' = Nothing
  /\ UNCHANGED results
  /\ ServiceOnly

ServiceStep ==
  \/ ServiceStarts \/ ServiceTakes \/ ServiceSkips \/ ServiceDies
  \/ \E ok \in BOOLEAN : ServicePublishes(ok)

RunnerEnded ==
  /\ runner.pc \in {"done", "failed"}
  /\ UNCHANGED vars

OnlineNext == RunnerStep \/ ServiceStep \/ RunnerEnded

OnlineSpec == OnlineInit /\ [][OnlineNext]_vars

(* The runner's thread is scheduled and nothing need fail for it to go on; *)
(* the service need not be there at all.                                   *)
OnlineFairSpec == OnlineSpec /\ WF_vars(RunnerWork)

(***************************************************************************)
(* Properties.                                                             *)
(***************************************************************************)

(* The score map the tracker gets comes from an answer to a request of     *)
(* this run, about a frame that was tracked before, and its prediction is  *)
(* no older than the limit (DESIGN_SPEC.md:108); a frame that is degraded  *)
(* gets no score map and keeps every feature (DESIGN_SPEC.md:110).         *)
ScoresAreFresh ==
  RunnerAt("track") /\ runner.score # Nothing =>
    /\ ipc.valid
    /\ runner.score \in completed /\ runner.score < runner.index
    /\ \E r \in sent : /\ r.frame = runner.score
                       /\ r.ts <= runner.ts /\ runner.ts - r.ts <= MaxAge

(* The provider keeps a packet and returns it in every poll, but each      *)
(* answer is counted and filtered once.                                    *)
EachAnswerOnce ==
  /\ dynamic.updates = Cardinality(dynamic.used)
  /\ \A f \in dynamic.used : f <= dynamic.frame

(* The service cannot terminate the runner (DESIGN_SPEC.md:110): whatever  *)
(* arrives, neither updateCompletedFrame nor predict throws.               *)
NeverThrows == runner.failure # "exception"

(* Both deques are long enough: while no frame outlives the age limit in   *)
(* them, a usable answer to a request of this run is still in the ledger,  *)
(* and the frame it is about, if it has a pose, still in the history.      *)
LongEnough ==
  \A gap \in Gaps : MaxAge < LedgerSize * gap /\ MaxAge < HistorySize * gap

IsFresh(r) == r.ts <= runner.ts /\ runner.ts - r.ts <= MaxAge

AnswersAreKnown ==
  LongEnough =>
    /\ \A r \in sent : IsFresh(r) => r \in Range(provider.ledger)
    /\ \A r \in sent : IsFresh(r) /\ r.frame \in completed
                         => r.frame \in Range(history)

(* The service cannot block the runner (DESIGN_SPEC.md:110).               *)
RunnerEnds == <>(runner.pc \in {"done", "failed"})
===========================================================================
