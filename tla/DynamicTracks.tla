--------------------------- MODULE DynamicTracks ---------------------------
(***************************************************************************)
(* The causal tracker of the dynamic cache: _replay_dynamic_frames         *)
(* (semantic_py/openvocab_slam/dynamic_cache.py) over the tracks of        *)
(* motion.py and the association of association.py.                        *)
(*                                                                         *)
(* Frames come one after the other.  Which track an instance is assigned   *)
(* to, whether it moved further than its threshold, and which instances    *)
(* have no usable depth are choices: they are what geometry, the Kalman    *)
(* filter and the assignment solver make of the images.  What the code     *)
(* does with them is exact.  Probabilities are counted in units of 0.05,   *)
(* the largest in which the frozen configuration is whole.                 *)
(***************************************************************************)
EXTENDS Naturals, Sequences, FiniteSets

CONSTANTS
  MaxTracks,        (* bound on the tracks of a sequence                    *)
  Enter, Exit,      (* dynamic_enter_threshold, dynamic_exit_threshold      *)
  Gain, Loss,       (* dynamic_evidence_increment, static_evidence_decrement*)
  Certain,          (* probability 1.0                                      *)
  Unknown,          (* unknown_dynamic_probability                          *)
  MinConfirming,    (* min_confirming_observations                          *)
  MaxMisses         (* max_track_misses                                     *)

Window == 4

(* DynamicConfirmationConfig.__post_init__ *)
ConfigIsValid ==
  /\ {MaxTracks, Enter, Exit, Gain, Loss, Certain, Unknown, MinConfirming, MaxMisses}
       \subseteq Nat
  /\ MinConfirming > 0 /\ Gain > 0 /\ Loss > 0 /\ Exit > 0
  /\ Exit < Enter /\ Enter <= Certain /\ Unknown < Enter

ASSUME TracksAssumption == ConfigIsValid

(* Of the frozen configuration, the only one the tools use: MinConfirming   *)
(* movements in a row are evidence enough (3 * 0.35 >= 0.70), and no        *)
(* certainty outlives Window frames (1.0 - 4 * 0.20 < 0.40).                *)
ASSUME FrozenAssumption ==
  MinConfirming * Gain >= Enter /\ Certain < Exit + Window * Loss

Outcomes == {"moving", "still", "missed"}

(* observed and confirming are only compared with MinConfirming and cut there; *)
(* moving and since are histories.                                             *)
Track == [ probability : 0 .. Certain,
           strong      : BOOLEAN,
           observed    : 0 .. MinConfirming,
           confirming  : 0 .. MinConfirming,
           misses      : 0 .. MaxMisses + 1,
           terminated  : BOOLEAN,
           moving      : 0 .. MinConfirming,
           since       : 0 .. Window ]

VARIABLES
  tracks,       (* active_tracks: the track with identifier i - 1 at i, with,
                   as histories, the frames it was last seen moving in
                   without a break, the frames since it was seen moving, and
                   whether it ever moved MinConfirming times in a row       *)
  dynamicIds,   (* tracks with a row of dynamic_tracks.jsonl that is strong *)
  lowScored,    (* tracks with a row whose score map probability is known
                   and below Unknown                                        *)
  bursts        (* history: tracks that moved MinConfirming times in a row  *)

trackVars == <<tracks, dynamicIds, lowScored, bursts>>

Ids == 1 .. Len(tracks)

TracksTypeOK ==
  /\ Len(tracks) \in 0 .. MaxTracks /\ \A i \in Ids : tracks[i] \in Track
  /\ dynamicIds \cup lowScored \cup bursts \subseteq 1 .. MaxTracks

TracksInit == tracks = <<>> /\ dynamicIds = {} /\ lowScored = {} /\ bursts = {}

Least(a, b) == IF a <= b THEN a ELSE b
Minus(a, b) == IF a >= b THEN a - b ELSE 0

Recorded(t, outcome) ==
  LET moving == IF outcome = "moving" THEN Least(t.moving + 1, MinConfirming) ELSE 0
      since == IF outcome = "moving" THEN 0 ELSE Least(t.since + 1, Window)
  IN  [ t EXCEPT !.moving = moving, !.since = since ]

(* DynamicTrack.new *)
NewTrack ==
  [ probability |-> 0, strong |-> FALSE, observed |-> Least(1, MinConfirming),
    confirming |-> 0, misses |-> 0, terminated |-> FALSE,
    moving |-> 0, since |-> Window ]

(* DynamicTrack.update: hysteresis over the accumulated evidence. *)
Confirmed(t) == Least(t.confirming + 1, MinConfirming)

(* Mutant: strong on the evidence alone, however it was gathered. *)
StrongOnEvidence(t, probability, confirming) ==
  probability >= (IF t.strong THEN Exit ELSE Enter)

StrongAfter(t, probability, confirming) ==
  IF t.strong THEN probability >= Exit
              ELSE probability >= Enter /\ confirming >= MinConfirming

UpdatedTrack(t, outcome) ==
  LET probability == IF outcome = "moving" THEN Least(t.probability + Gain, Certain)
                                           ELSE Minus(t.probability, Loss)
      confirming == IF outcome = "moving" THEN Confirmed(t) ELSE 0
  IN  [ t EXCEPT !.probability = probability,
                 !.strong = StrongAfter(t, probability, confirming),
                 !.observed = Least(t.observed + 1, MinConfirming),
                 !.confirming = confirming,
                 !.misses = 0 ]

(* Mutant: a missed track keeps its decision. *)
MissedTrackHeld(t) ==
  [ t EXCEPT !.probability = Minus(t.probability, Loss), !.confirming = 0,
             !.misses = t.misses + 1, !.terminated = t.misses + 1 > MaxMisses ]

(* Mutant: a track is ended one miss too late. *)
MissedTrackLate(t) ==
  [ MissedTrackHeld(t) EXCEPT !.strong = t.strong /\ t.probability >= Exit + Loss,
                              !.terminated = t.misses > MaxMisses ]

(* DynamicTrack.mark_missed *)
MissedTrack(t) ==
  LET probability == Minus(t.probability, Loss)
  IN  [ t EXCEPT !.probability = probability,
                 !.strong = t.strong /\ probability >= Exit,
                 !.confirming = 0,
                 !.misses = t.misses + 1,
                 !.terminated = t.misses + 1 > MaxMisses ]

After(t, outcome) ==
  Recorded(IF outcome = "missed" THEN MissedTrack(t) ELSE UpdatedTrack(t, outcome),
           outcome)

(* _score_probability *)
Score(t) ==
  IF t.strong THEN (IF t.probability >= Enter THEN t.probability ELSE Enter)
  ELSE IF t.observed < MinConfirming \/ t.confirming > 0 THEN Unknown
  ELSE t.probability

Active == {i \in Ids : ~tracks[i].terminated}

(* The rows of the instances that were assigned to tracks. *)
WriteRows(observed, after) ==
  /\ dynamicIds' = dynamicIds \cup {i \in observed : after[i].strong}
  /\ lowScored' = lowScored \cup {i \in observed : Score(after[i]) < Unknown}
  /\ bursts' = bursts \cup {i \in observed : after[i].moving = MinConfirming}

(***************************************************************************)
(* A frame with an exact pose and a depth image that is not from the       *)
(* future.  associate_tracks assigns some active tracks to an instance     *)
(* each, one to one; the others are missed; instances left over begin new  *)
(* tracks, and those without usable depth get a row of unknown             *)
(* probability and no track.                                               *)
(***************************************************************************)
ReplayFrame(outcome, created) ==
  LET after == [i \in Ids |-> IF i \in Active THEN After(tracks[i], outcome[i])
                                              ELSE tracks[i]]
  IN  /\ Len(tracks) + created <= MaxTracks
      /\ tracks' = after \o [k \in 1 .. created |-> NewTrack]
      /\ WriteRows({i \in Active : outcome[i] # "missed"}, after)

(* A frame without a pose, or whose depth is later: every instance is unknown. *)
UnknownFrame ==
  /\ tracks' = [i \in Ids |-> IF i \in Active THEN After(tracks[i], "missed")
                                              ELSE tracks[i]]
  /\ UNCHANGED <<dynamicIds, lowScored, bursts>>

(* associate_tracks and the geometry of the assigned instances. *)
Assignments == [Active -> Outcomes]

ReplayNext ==
  \/ \E outcome \in Assignments, created \in 0 .. MaxTracks :
       ReplayFrame(outcome, created)
  \/ UnknownFrame
=============================================================================
