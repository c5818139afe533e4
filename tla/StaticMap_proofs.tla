------------------------- MODULE StaticMap_proofs -------------------------
(***************************************************************************)
(* Proofs about StaticMap, for every sequence of frames and every          *)
(* configuration that satisfies the two assumptions of DynamicTracks:      *)
(* hysteresis releases what stopped, and no map holds an object that was   *)
(* seen moving for long enough.                                            *)
(***************************************************************************)
EXTENDS StaticMap, RunAttempt_proofs

-----------------------------------------------------------------------------
(* A track: the evidence follows from the movements, and what is left of    *)
(* the certainty follows from the frames since the last one.               *)
TrackInv(t) ==
  /\ t \in Track
  /\ t.confirming = t.moving
  /\ ~t.terminated => t.misses <= MaxMisses
  /\ Gain * t.moving <= t.probability \/ t.probability = Certain
  /\ t.strong => Exit <= t.probability /\ t.probability + Loss * t.since <= Certain

(* The rows that were written: what moved long enough has a strong row. *)
TracksInv ==
  /\ tracks \in Seq(Track) /\ Len(tracks) <= MaxTracks
  /\ \A i \in Ids : TrackInv(tracks[i])
  /\ dynamicIds \subseteq 1 .. MaxTracks /\ lowScored \subseteq 1 .. MaxTracks
  /\ bursts \subseteq dynamicIds

LEMMA Positive ==
  /\ MaxTracks \in Nat /\ Enter \in Nat /\ Exit \in Nat /\ Gain \in Nat /\ Loss \in Nat
  /\ Certain \in Nat /\ Unknown \in Nat /\ MinConfirming \in Nat /\ MaxMisses \in Nat
  /\ MinConfirming > 0 /\ Gain > 0 /\ Loss > 0 /\ Exit > 0
  /\ Exit < Enter /\ Enter <= Certain /\ Unknown < Enter
BY TracksAssumption DEF ConfigIsValid

(* Multiplication by the evidence of a frame, one step at a time. *)
LEMMA OneMore ==
  ASSUME NEW w \in Nat, NEW n \in Nat
  PROVE  w * n \in Nat /\ w * (n + 1) = w * n + w
OBVIOUS

LEMMA NewTracked == TrackInv(NewTrack) /\ ~NewTrack.strong
<1>1. NewTrack \in Track
  BY Positive DEF NewTrack, Track, Window, Least
<1>2. Gain * 0 = 0
  BY Positive
<1> QED BY <1>1, <1>2, Positive DEF NewTrack, TrackInv

(* A strong track has certainty left, so that it moved in the window. *)
LEMMA StrongInWindow ==
  ASSUME NEW t, TrackInv(t), t.strong PROVE t.since < Window
<1>1. /\ t.since \in 0 .. Window /\ t.probability \in 0 .. Certain
      /\ Exit <= t.probability /\ t.probability + Loss * t.since <= Certain
  BY DEF TrackInv, Track
<1>2. CASE t.since = Window
  <2>1. Loss * t.since = Window * Loss /\ Loss * t.since \in Nat
    BY <1>2, Positive DEF Window
  <2> QED BY <1>1, <2>1, FrozenAssumption, Positive DEF Window
<1> QED BY <1>1, <1>2 DEF Window

(* A frame the track is seen moving in. *)
LEMMA MovingTracked ==
  ASSUME NEW t, TrackInv(t), ~t.terminated
  PROVE  LET after == After(t, "moving")
         IN  /\ TrackInv(after)
             /\ after.moving = MinConfirming => after.strong
             /\ after.strong /\ ~t.strong => after.moving = MinConfirming
<1> DEFINE after == After(t, "moving")
           p == Least(t.probability + Gain, Certain)
           m == Least(t.moving + 1, MinConfirming)
           strong == StrongAfter(t, p, m)
           seen == Least(t.observed + 1, MinConfirming)
<1>1. /\ t \in Track /\ t.probability \in 0 .. Certain /\ t.moving \in 0 .. MinConfirming
      /\ t.confirming = t.moving /\ t.observed \in 0 .. MinConfirming
      /\ t.strong \in BOOLEAN /\ t.terminated = FALSE
  BY DEF TrackInv, Track
<1>2. /\ p \in 0 .. Certain /\ m \in 0 .. MinConfirming /\ seen \in 0 .. MinConfirming
      /\ p = t.probability + Gain \/ p = Certain
      /\ m <= t.moving + 1
  BY <1>1, Positive DEF Least
<1>3. Confirmed(t) = m
  BY <1>1 DEF Confirmed
<1>4. UpdatedTrack(t, "moving") =
        [ t EXCEPT !.probability = p, !.strong = strong, !.observed = seen,
                   !.confirming = m, !.misses = 0 ]
  BY <1>3 DEF UpdatedTrack
<1>5. after = [ t EXCEPT !.probability = p, !.strong = strong, !.observed = seen,
                         !.confirming = m, !.misses = 0, !.terminated = FALSE,
                         !.moving = m, !.since = 0 ]
  <2> HIDE DEF p, m, strong, seen
  <2>1. UpdatedTrack(t, "moving").moving = t.moving
    BY <1>1, <1>4 DEF Track
  <2>2. after = [ UpdatedTrack(t, "moving") EXCEPT !.moving = m, !.since = 0 ]
    BY <2>1 DEF After, Recorded, m
  <2> QED BY <1>1, <1>4, <2>2 DEF Track
<1>6. /\ strong \in BOOLEAN
      /\ strong => Exit <= p /\ (t.strong \/ m = MinConfirming)
      /\ m = MinConfirming /\ Enter <= p => strong
  <2> HIDE DEF p, m
  <2>1. CASE t.strong
    BY <1>1, <1>2, <2>1, Positive DEF StrongAfter
  <2>2. CASE ~t.strong
    BY <1>1, <1>2, <2>2, Positive DEF StrongAfter
  <2> QED BY <2>1, <2>2
<1> HIDE DEF p, m, strong, seen
<1>7. /\ after \in Track /\ after.probability = p /\ after.confirming = m
      /\ after.moving = m /\ after.since = 0 /\ after.misses = 0
      /\ (after.strong <=> strong)
  <2> HIDE DEF after
  <2>1. 0 \in 0 .. MaxMisses + 1 /\ 0 \in 0 .. Window /\ FALSE \in BOOLEAN
    BY Positive DEF Window
  <2>2. after \in Track
    BY <1>1, <1>2, <1>5, <1>6, <2>1 DEF Track
  <2>3. /\ after.probability = p /\ after.confirming = m
        /\ after.moving = m /\ after.since = 0 /\ after.misses = 0
    BY <1>1, <1>5 DEF Track
  <2>4. after.strong <=> strong
    BY <1>1, <1>5 DEF Track
  <2> QED BY <2>2, <2>3, <2>4
<1>8. Gain * m <= p \/ p = Certain
  <2>1. Gain * t.moving <= t.probability \/ t.probability = Certain
    BY DEF TrackInv
  <2>2. Gain * (t.moving + 1) = Gain * t.moving + Gain /\ Gain * t.moving \in Nat
    BY <1>1, OneMore, Positive
  <2>3. Gain * m <= Gain * (t.moving + 1) /\ Gain * m \in Nat
    BY <1>1, <1>2, Positive
  <2> QED BY <1>1, <1>2, <2>1, <2>2, <2>3, Positive
<1>9. m = MinConfirming => Enter <= p
  BY <1>2, <1>8, FrozenAssumption, Positive
<1>10. Loss * 0 = 0
  BY Positive
<1> HIDE DEF after
<1>11. TrackInv(after)
  <2>1. p + Loss * after.since <= Certain
    BY <1>2, <1>7, <1>10, Positive
  <2> QED BY <1>6, <1>7, <1>8, <2>1, Positive DEF TrackInv
<1> QED BY <1>6, <1>7, <1>9, <1>11 DEF after

(* What a frame without movement takes. *)
LEMMA LostEvidence ==
  ASSUME NEW t, TrackInv(t)
  PROVE  LET p == Minus(t.probability, Loss)
             since == Least(t.since + 1, Window)
         IN  /\ p \in 0 .. Certain /\ since \in 0 .. Window
             /\ t.strong /\ Exit <= p => p + Loss * since <= Certain
<1> DEFINE p == Minus(t.probability, Loss)
           since == Least(t.since + 1, Window)
<1>1. /\ t.probability \in 0 .. Certain /\ t.since \in 0 .. Window
      /\ t.strong => t.probability + Loss * t.since <= Certain
  BY DEF TrackInv, Track
<1>2. p \in 0 .. Certain /\ since \in 0 .. Window
  BY <1>1, Positive DEF Minus, Least, Window
<1>3. ASSUME t.strong, Exit <= p PROVE p + Loss * since <= Certain
  <2>1. p = t.probability - Loss /\ Loss <= t.probability
    BY <1>1, <1>3, Positive DEF Minus
  <2>2. since = t.since + 1
    BY <1>1, <1>3, StrongInWindow DEF Least, Window
  <2>3. Loss * since = Loss * t.since + Loss /\ Loss * t.since \in Nat
    BY <1>1, <2>2, OneMore, Positive DEF Window
  <2> HIDE DEF p, since
  <2> QED BY <1>1, <1>3, <2>1, <2>3, Positive
<1> QED BY <1>2, <1>3

(* A frame the track is seen in without moving. *)
LEMMA StillTracked ==
  ASSUME NEW t, TrackInv(t), ~t.terminated
  PROVE  LET after == After(t, "still")
         IN  TrackInv(after) /\ after.moving = 0 /\ (after.strong => t.strong)
<1> DEFINE after == After(t, "still")
           p == Minus(t.probability, Loss)
           since == Least(t.since + 1, Window)
           strong == StrongAfter(t, p, 0)
           seen == Least(t.observed + 1, MinConfirming)
<1>1. /\ t \in Track /\ t.observed \in 0 .. MinConfirming
      /\ t.strong \in BOOLEAN /\ t.terminated = FALSE
  BY DEF TrackInv, Track
<1>2. /\ p \in 0 .. Certain /\ since \in 0 .. Window
      /\ t.strong /\ Exit <= p => p + Loss * since <= Certain
  BY LostEvidence
<1>3. seen \in 0 .. MinConfirming
  BY <1>1, Positive DEF Least
<1>4. after = [ t EXCEPT !.probability = p, !.strong = strong, !.observed = seen,
                         !.confirming = 0, !.misses = 0, !.terminated = FALSE,
                         !.moving = 0, !.since = since ]
  <2>1. UpdatedTrack(t, "still") =
          [ t EXCEPT !.probability = p, !.strong = strong, !.observed = seen,
                     !.confirming = 0, !.misses = 0 ]
    BY DEF UpdatedTrack
  <2> HIDE DEF p, since, strong, seen
  <2>2. UpdatedTrack(t, "still").since = t.since
    BY <1>1, <2>1 DEF Track
  <2>3. after = [ UpdatedTrack(t, "still") EXCEPT !.moving = 0, !.since = since ]
    BY <2>2 DEF After, Recorded, since
  <2> QED BY <1>1, <2>1, <2>3 DEF Track
<1> HIDE DEF p, since
<1>5. strong \in BOOLEAN /\ (strong => t.strong /\ Exit <= p)
  <2>1. CASE t.strong
    BY <1>1, <1>2, <2>1, Positive DEF StrongAfter
  <2>2. CASE ~t.strong
    BY <1>1, <1>2, <2>2, Positive DEF StrongAfter
  <2> QED BY <2>1, <2>2
<1> HIDE DEF strong, seen
<1>6. /\ after \in Track /\ after.probability = p /\ after.confirming = 0
      /\ after.moving = 0 /\ after.since = since /\ after.misses = 0
      /\ (after.strong <=> strong)
  <2> HIDE DEF after
  <2>1. /\ 0 \in 0 .. MaxMisses + 1 /\ 0 \in 0 .. MinConfirming
        /\ FALSE \in BOOLEAN
    BY Positive
  <2>2. after \in Track
    BY <1>1, <1>2, <1>3, <1>4, <1>5, <2>1 DEF Track
  <2>3. /\ after.probability = p /\ after.confirming = 0
        /\ after.moving = 0 /\ after.since = since /\ after.misses = 0
    BY <1>1, <1>4 DEF Track
  <2>4. after.strong <=> strong
    BY <1>1, <1>4 DEF Track
  <2> QED BY <2>2, <2>3, <2>4
<1>7. Gain * 0 = 0
  BY Positive
<1> HIDE DEF after
<1>8. TrackInv(after)
  <2>1. Gain * after.moving <= after.probability
    BY <1>2, <1>6, <1>7, Positive
  <2>2. after.misses <= MaxMisses
    BY <1>6, Positive
  <2> QED BY <1>2, <1>5, <1>6, <2>1, <2>2 DEF TrackInv
<1> QED BY <1>5, <1>6, <1>8 DEF after

(* A frame the track is missed in. *)
LEMMA MissedTracked ==
  ASSUME NEW t, TrackInv(t), ~t.terminated
  PROVE  LET after == After(t, "missed")
         IN  TrackInv(after) /\ after.moving = 0 /\ (after.strong => t.strong)
<1> DEFINE after == After(t, "missed")
           p == Minus(t.probability, Loss)
           since == Least(t.since + 1, Window)
           ends == t.misses + 1 > MaxMisses
           strong == t.strong /\ p >= Exit
<1>1. /\ t \in Track /\ t.strong \in BOOLEAN /\ t.misses \in 0 .. MaxMisses
      /\ t.observed \in 0 .. MinConfirming
  BY Positive DEF TrackInv, Track
<1>2. /\ p \in 0 .. Certain /\ since \in 0 .. Window
      /\ t.strong /\ Exit <= p => p + Loss * since <= Certain
  BY LostEvidence
<1>3. after = [ t EXCEPT !.probability = p, !.strong = strong, !.observed = t.observed,
                         !.confirming = 0, !.misses = t.misses + 1, !.terminated = ends,
                         !.moving = 0, !.since = since ]
  <2>1. MissedTrack(t) =
          [ t EXCEPT !.probability = p, !.strong = strong, !.confirming = 0,
                     !.misses = t.misses + 1, !.terminated = ends ]
    BY DEF MissedTrack
  <2> HIDE DEF p, since, strong, ends
  <2>2. MissedTrack(t).since = t.since
    BY <1>1, <2>1 DEF Track
  <2>3. after = [ MissedTrack(t) EXCEPT !.moving = 0, !.since = since ]
    BY <2>2 DEF After, Recorded, since
  <2> QED BY <1>1, <2>1, <2>3 DEF Track
<1>4. t.misses + 1 \in 0 .. MaxMisses + 1
  BY <1>1, Positive
<1> HIDE DEF p, since
<1>5. strong \in BOOLEAN /\ (strong => t.strong /\ Exit <= p) /\ ends \in BOOLEAN
  BY <1>1, <1>2, Positive
<1>6. /\ after \in Track /\ after.probability = p /\ after.confirming = 0
      /\ after.moving = 0 /\ after.since = since /\ after.misses = t.misses + 1
      /\ (after.strong <=> strong) /\ (after.terminated <=> ends)
  <2> HIDE DEF after, strong, ends
  <2>1. 0 \in 0 .. MinConfirming
    BY Positive
  <2>2. after \in Track
    BY <1>1, <1>2, <1>3, <1>4, <1>5, <2>1 DEF Track
  <2>3. /\ after.probability = p /\ after.confirming = 0
        /\ after.moving = 0 /\ after.since = since /\ after.misses = t.misses + 1
    BY <1>1, <1>3 DEF Track
  <2>4. after.strong <=> strong
    BY <1>1, <1>3 DEF Track
  <2>5. after.terminated <=> ends
    BY <1>1, <1>3 DEF Track
  <2> QED BY <2>2, <2>3, <2>4, <2>5
<1>7. Gain * 0 = 0
  BY Positive
<1> HIDE DEF after
<1>8. TrackInv(after)
  <2>1. Gain * after.moving <= after.probability
    BY <1>2, <1>6, <1>7, Positive
  <2>2. ~after.terminated => after.misses <= MaxMisses
    <3>1. CASE t.misses + 1 <= MaxMisses
      BY <1>6, <3>1
    <3>2. CASE t.misses + 1 > MaxMisses
      BY <1>6, <3>2
    <3> QED BY <1>4, <3>1, <3>2, Positive
  <2> HIDE DEF strong, ends
  <2> QED BY <1>2, <1>5, <1>6, <2>1, <2>2 DEF TrackInv
<1> QED BY <1>5, <1>6, <1>8 DEF after

(* All three: what a frame does to an active track. *)
LEMMA AfterTracked ==
  ASSUME NEW t, TrackInv(t), ~t.terminated, NEW outcome \in Outcomes
  PROVE  LET after == After(t, outcome)
         IN  /\ TrackInv(after)
             /\ after.moving = MinConfirming => after.strong
             /\ after.strong /\ ~t.strong => after.moving = MinConfirming
<1>1. CASE outcome = "moving"
  BY <1>1, MovingTracked
<1>2. CASE outcome = "still"
  BY <1>2, StillTracked, Positive
<1>3. CASE outcome = "missed"
  BY <1>3, MissedTracked, Positive
<1> QED BY <1>1, <1>2, <1>3 DEF Outcomes

-----------------------------------------------------------------------------
(* A function on 1 .. n is a sequence of length n. *)
LEMMA FunctionIsSequence ==
  ASSUME NEW S, NEW n \in Nat, NEW f \in [1 .. n -> S]
  PROVE  f \in Seq(S) /\ Len(f) = n
<1>1. f \in Seq(S)
  BY SeqDef
<1>2. DOMAIN f = 1 .. n /\ DOMAIN f = 1 .. Len(f) /\ Len(f) \in Nat
  BY <1>1, LenProperties
<1>3. Len(f) = n
  BY <1>2
<1> QED BY <1>1, <1>3

(* What a frame does to all the tracks. *)
LEMMA FrameTracked ==
  ASSUME TracksInv, NEW outcome \in Assignments, NEW after,
         after = [i \in Ids |-> IF i \in Active THEN After(tracks[i], outcome[i])
                                                ELSE tracks[i]]
  PROVE  /\ after \in Seq(Track) /\ Len(after) = Len(tracks)
         /\ \A i \in Ids :
              /\ TrackInv(after[i])
              /\ i \in Active /\ after[i].moving = MinConfirming => after[i].strong
              /\ after[i].strong /\ ~tracks[i].strong => after[i].moving = MinConfirming
<1>1. tracks \in Seq(Track) /\ Len(tracks) \in Nat
  BY LenProperties DEF TracksInv
<1>2. ASSUME NEW i \in Ids
      PROVE /\ TrackInv(after[i])
            /\ i \in Active /\ after[i].moving = MinConfirming => after[i].strong
            /\ after[i].strong /\ ~tracks[i].strong => after[i].moving = MinConfirming
  <2>1. CASE i \in Active
    <3>1. TrackInv(tracks[i]) /\ ~tracks[i].terminated /\ outcome[i] \in Outcomes
      BY <2>1 DEF TracksInv, Active, Assignments
    <3>2. after[i] = After(tracks[i], outcome[i])
      BY <2>1
    <3> QED BY <3>1, <3>2, AfterTracked
  <2>2. CASE i \notin Active
    <3>1. after[i] = tracks[i]
      BY <2>2
    <3> QED BY <2>2, <3>1 DEF TracksInv
  <2> QED BY <2>1, <2>2
<1>3. ASSUME NEW i \in Ids PROVE after[i] \in Track
  BY <1>2 DEF TrackInv
<1>4. after \in [1 .. Len(tracks) -> Track]
  BY <1>3 DEF Ids
<1>5. after \in Seq(Track) /\ Len(after) = Len(tracks)
  BY <1>1, <1>4, FunctionIsSequence
<1> QED BY <1>2, <1>5

(* What a step of the tracker keeps, and what it earns. *)
Earned == \A i \in Ids \cap DOMAIN tracks' :
            tracks'[i].strong /\ ~tracks[i].strong => tracks'[i].moving = MinConfirming

LEMMA ReplayFrameTracked ==
  ASSUME TracksInv, NEW outcome \in Assignments, NEW created \in 0 .. MaxTracks,
         ReplayFrame(outcome, created)
  PROVE  TracksInv' /\ Earned
<1> DEFINE after == [i \in Ids |-> IF i \in Active THEN After(tracks[i], outcome[i])
                                                   ELSE tracks[i]]
           new == [k \in 1 .. created |-> NewTrack]
           observed == {i \in Active : outcome[i] # "missed"}
<1>1. /\ Len(tracks) + created <= MaxTracks
      /\ tracks' = after \o new /\ WriteRows(observed, after)
  BY DEF ReplayFrame
<1>2. /\ after \in Seq(Track) /\ Len(after) = Len(tracks)
      /\ \A i \in Ids :
           /\ TrackInv(after[i])
           /\ i \in Active /\ after[i].moving = MinConfirming => after[i].strong
           /\ after[i].strong /\ ~tracks[i].strong => after[i].moving = MinConfirming
  <2> HIDE DEF after
  <2>1. after = [i \in Ids |-> IF i \in Active THEN After(tracks[i], outcome[i])
                                               ELSE tracks[i]]
    BY DEF after
  <2> QED BY <2>1, FrameTracked
<1> HIDE DEF after
<1>3. NewTrack \in Track
  BY NewTracked DEF TrackInv
<1>4. new \in Seq(Track) /\ Len(new) = created /\ created \in Nat
  BY <1>3, FunctionIsSequence, Positive
<1>5. \A k \in 1 .. created : new[k] = NewTrack
  OBVIOUS
<1> HIDE DEF new
<1>6. Len(tracks) \in Nat
  BY LenProperties DEF TracksInv
<1>7. /\ tracks' \in Seq(Track) /\ Len(tracks') = Len(tracks) + created
      /\ \A i \in 1 .. Len(tracks) + created :
           tracks'[i] = IF i <= Len(tracks) THEN after[i] ELSE new[i - Len(tracks)]
  <2>1. /\ after \o new \in Seq(Track) /\ Len(after \o new) = Len(after) + Len(new)
        /\ \A i \in 1 .. Len(after) + Len(new) :
             (after \o new)[i] = IF i <= Len(after) THEN after[i] ELSE new[i - Len(after)]
    BY <1>2, <1>4, ConcatProperties
  <2> QED BY <1>1, <1>2, <1>4, <2>1
<1>8. \A i \in Ids : tracks'[i] = after[i]
  BY <1>4, <1>6, <1>7 DEF Ids
<1>9. ASSUME NEW i \in 1 .. Len(tracks') PROVE TrackInv(tracks'[i])
  <2>1. CASE i <= Len(tracks)
    BY <1>2, <1>6, <1>8, <2>1 DEF Ids
  <2>2. CASE ~(i <= Len(tracks))
    <3>1. i - Len(tracks) \in 1 .. created
      BY <1>4, <1>6, <1>7, <2>2
    <3>2. tracks'[i] = NewTrack
      BY <1>4, <1>5, <1>6, <1>7, <2>2, <3>1
    <3> QED BY <3>2, NewTracked
  <2> QED BY <2>1, <2>2
<1>10. Active \subseteq Ids /\ Ids \subseteq 1 .. MaxTracks
  BY <1>6, Positive DEF Active, Ids, TracksInv
<1>11. /\ dynamicIds' \subseteq 1 .. MaxTracks /\ lowScored' \subseteq 1 .. MaxTracks
       /\ bursts' \subseteq dynamicIds'
  BY <1>1, <1>2, <1>10 DEF WriteRows, TracksInv
<1>12. Earned
  BY <1>2, <1>8 DEF Earned
<1> QED BY <1>1, <1>7, <1>9, <1>11, <1>12 DEF TracksInv, Ids

LEMMA UnknownFrameTracked ==
  ASSUME TracksInv, UnknownFrame PROVE TracksInv' /\ Earned
<1> DEFINE outcome == [i \in Active |-> "missed"]
<1>1. outcome \in Assignments
  BY DEF Assignments, Outcomes
<1>2. \A i \in Active : outcome[i] = "missed"
  OBVIOUS
<1> HIDE DEF outcome
<1>3. tracks' = [i \in Ids |-> IF i \in Active THEN After(tracks[i], outcome[i])
                                               ELSE tracks[i]]
  BY <1>2 DEF UnknownFrame
<1>4. /\ tracks' \in Seq(Track) /\ Len(tracks') = Len(tracks)
      /\ \A i \in Ids :
           /\ TrackInv(tracks'[i])
           /\ tracks'[i].strong /\ ~tracks[i].strong => tracks'[i].moving = MinConfirming
  BY <1>1, <1>3, FrameTracked
<1> QED BY <1>4 DEF TracksInv, UnknownFrame, Ids, Earned

-----------------------------------------------------------------------------
(***************************************************************************)
(* The inductive invariant.  A build only runs on a complete dynamic       *)
(* cache, whose rows change no more, so that the objects it has taken and  *)
(* the maps it has exported stay clear of the tracks with a strong row.    *)
(***************************************************************************)
BuilderInv ==
  /\ replayed \in BOOLEAN
  /\ staging \subseteq 1 .. MaxAttempts /\ DOMAIN maps \subseteq 1 .. MaxAttempts
  /\ \A n \in DOMAIN maps : maps[n] \subseteq lowScored \ dynamicIds
  /\ mpc \in {"idle", "integrate", "stage", "publish"}
  /\ mpc = "idle" => selected = None
  /\ mpc # "idle" => selected \in 1 .. MaxAttempts /\ replayed
  /\ objects \subseteq lowScored \ dynamicIds
  /\ mpc \in {"idle", "integrate"} => objects = {}
  /\ ~replayed => DOMAIN maps = {}

MapInv == TracksInv /\ RunInv /\ BuilderInv

LEMMA MapInitHolds == MapInit => MapInv
<1> SUFFICES ASSUME MapInit PROVE MapInv
  OBVIOUS
<1>1. tracks = <<>> /\ dynamicIds = {} /\ lowScored = {} /\ bursts = {}
  BY DEF MapInit, TracksInit
<1>2. tracks \in Seq(Track) /\ Len(tracks) = 0
  BY <1>1, EmptySeq
<1>3. Ids = {}
  BY <1>2 DEF Ids
<1>4. TracksInv
  BY <1>1, <1>2, <1>3, Positive DEF TracksInv
<1>5. RunInv
  BY RunInitTyped DEF MapInit
<1>6. DOMAIN maps = {}
  BY DEF MapInit
<1>7. BuilderInv
  BY <1>6 DEF MapInit, BuilderInv
<1> QED BY <1>4, <1>5, <1>7 DEF MapInv

LEMMA RunKept ==
  ASSUME RunInv, UNCHANGED <<environmentVars, runVars>> PROVE RunInv'
BY DEF RunInv, environmentVars, runVars

LEMMA TracksKept ==
  ASSUME TracksInv, UNCHANGED trackVars PROVE TracksInv' /\ Earned
<1>1. UNCHANGED <<tracks, dynamicIds, lowScored, bursts>>
  BY DEF trackVars
<1> QED BY <1>1 DEF TracksInv, Ids, Earned

LEMMA ReplayHolds == ASSUME MapInv, Replay PROVE MapInv' /\ Earned
<1>1. /\ ReplayNext /\ ~replayed
      /\ UNCHANGED <<replayed, environmentVars, runVars, builderVars>>
  BY DEF Replay
<1>2. TracksInv' /\ Earned
  BY <1>1, ReplayFrameTracked, UnknownFrameTracked DEF ReplayNext, MapInv
<1>3. RunInv'
  BY <1>1, RunKept DEF MapInv
<1>4. mpc = "idle" /\ objects = {} /\ DOMAIN maps = {}
  BY <1>1 DEF MapInv, BuilderInv
<1>5. BuilderInv'
  BY <1>1, <1>4 DEF MapInv, BuilderInv, builderVars
<1> QED BY <1>2, <1>3, <1>5 DEF MapInv

LEMMA FinishHolds == ASSUME MapInv, FinishReplay PROVE MapInv' /\ Earned
<1>1. /\ ~replayed /\ replayed' = TRUE /\ tracks' = <<>>
      /\ UNCHANGED <<dynamicIds, lowScored, bursts>>
      /\ UNCHANGED <<environmentVars, runVars, builderVars>>
  BY DEF FinishReplay
<1>2. tracks' \in Seq(Track) /\ Len(tracks') = 0 /\ DOMAIN tracks' = {}
  BY <1>1, EmptySeq
<1>3. Ids' = {}
  BY <1>2 DEF Ids
<1>4. TracksInv' /\ Earned
  BY <1>1, <1>2, <1>3, Positive DEF TracksInv, MapInv, Earned
<1>5. RunInv'
  BY <1>1, RunKept DEF MapInv
<1>6. BuilderInv'
  BY <1>1 DEF MapInv, BuilderInv, builderVars
<1> QED BY <1>4, <1>5, <1>6 DEF MapInv

LEMMA RunHolds == ASSUME MapInv, RunNext PROVE MapInv' /\ Earned
<1>1. UNCHANGED <<trackVars, replayed, builderVars>>
  BY DEF RunNext
<1>2. TracksInv' /\ Earned
  BY <1>1, TracksKept DEF MapInv
<1>3. RunInv /\ Sequence \in Conditions /\ MaxAttempts \in Nat
  BY MapAssumption, RunAssumption DEF MapInv
<1>4. ASSUME StartRun PROVE RunInv'
  BY <1>3, <1>4, BeginTyped DEF StartRun
<1>5. ASSUME RunnerStep PROVE RunInv'
  BY <1>3, <1>5, RunnerTyped
<1>6. ASSUME ReportRun PROVE RunInv'
  <2>1. RunnerEnds /\ UNCHANGED <<attempts, torn, environmentVars>>
    BY <1>6 DEF ReportRun
  <2> QED BY <1>3, <2>1, EndsTyped
<1>7. ASSUME CrashRunner PROVE RunInv'
  BY <1>3, <1>7, CrashTyped
<1>8. ASSUME NEW n \in 1 .. MaxAttempts, DamageAttempt(Sequence, n) PROVE RunInv'
  <2>1. n \in Nat
    BY <1>3
  <2> QED BY <1>3, <1>8, <2>1, DamageTyped
<1>9. ASSUME NEW version \in Inputs, ChangeInputs(version) PROVE RunInv'
  BY <1>3, <1>9, ChangeTyped
<1>10. RunInv'
  BY <1>4, <1>5, <1>6, <1>7, <1>8, <1>9 DEF RunNext
<1>11. BuilderInv'
  BY <1>1 DEF MapInv, BuilderInv, builderVars, trackVars
<1> QED BY <1>2, <1>10, <1>11 DEF MapInv

LEMMA BuildHolds == ASSUME MapInv, BuildMap PROVE MapInv' /\ Earned
<1>1. UNCHANGED <<trackVars, replayed, environmentVars, runVars>>
  BY DEF BuildMap
<1>2. TracksInv' /\ Earned
  BY <1>1, TracksKept DEF MapInv
<1>3. RunInv'
  BY <1>1, RunKept DEF MapInv
<1>4. BuilderInv /\ UNCHANGED <<replayed, lowScored, dynamicIds>>
  BY <1>1 DEF MapInv, trackVars
<1>5. ASSUME NEW n \in 1 .. MaxAttempts, SelectRun(n) PROVE BuilderInv'
  BY <1>4, <1>5 DEF BuilderInv, SelectRun, CachesAreBound
<1>6. ASSUME NEW kept, IntegrateFrames(kept) PROVE BuilderInv'
  <2>1. objects' \subseteq lowScored \ dynamicIds
    BY <1>6 DEF IntegrateFrames, Aggregates, StaticTracks
  <2> QED BY <1>4, <1>6, <2>1 DEF BuilderInv, IntegrateFrames
<1>7. ASSUME StageMap PROVE BuilderInv'
  BY <1>4, <1>7 DEF BuilderInv, StageMap, BuildEnds
<1>8. ASSUME PublishMap PROVE BuilderInv'
  <2>1. selected \in 1 .. MaxAttempts /\ replayed
    BY <1>4, <1>8 DEF BuilderInv, PublishMap
  <2>2. /\ DOMAIN maps' = DOMAIN maps \cup {selected}
        /\ \A n \in DOMAIN maps' : maps'[n] = IF n = selected THEN objects ELSE maps[n]
    BY <1>8 DEF PublishMap
  <2>3. \A n \in DOMAIN maps' : maps'[n] \subseteq lowScored \ dynamicIds
    BY <1>4, <2>2 DEF BuilderInv
  <2>4. staging' \subseteq staging /\ BuildEnds
    BY <1>8 DEF PublishMap
  <2> QED BY <1>4, <2>1, <2>2, <2>3, <2>4 DEF BuilderInv, BuildEnds
<1>9. ASSUME BuildFails PROVE BuilderInv'
  BY <1>4, <1>9 DEF BuilderInv, BuildFails, BuildEnds
<1>10. BuilderInv'
  BY <1>1, <1>5, <1>6, <1>7, <1>8, <1>9 DEF BuildMap
<1> QED BY <1>2, <1>3, <1>10 DEF MapInv

LEMMA MapStepHolds == ASSUME MapInv, [MapNext]_vars PROVE MapInv' /\ Earned
<1>1. CASE MapNext
  BY <1>1, ReplayHolds, FinishHolds, RunHolds, BuildHolds DEF MapNext
<1>2. CASE UNCHANGED vars
  <2>1. /\ UNCHANGED trackVars /\ UNCHANGED <<environmentVars, runVars>>
        /\ UNCHANGED <<replayed, builderVars>>
    BY <1>2 DEF vars
  <2>2. TracksInv' /\ Earned
    BY <2>1, TracksKept DEF MapInv
  <2>3. RunInv'
    BY <2>1, RunKept DEF MapInv
  <2>4. BuilderInv'
    BY <2>1 DEF MapInv, BuilderInv, builderVars, trackVars
  <2> QED BY <2>2, <2>3, <2>4 DEF MapInv
<1> QED BY <1>1, <1>2

(* The invariant holds of every behaviour. *)
THEOREM MapInvariant == MapSpec => []MapInv
<1>1. MapInit => MapInv
  BY MapInitHolds
<1>2. MapInv /\ [MapNext]_vars => MapInv'
  BY MapStepHolds
<1> QED BY <1>1, <1>2, PTL DEF MapSpec

-----------------------------------------------------------------------------
(* The tracker, the runner and the map builder keep their types, for every *)
(* configuration, any number of attempts, tracks and versions of the files *)
(* (run_orb_tum.py:606, motion.py:81, build_map.py:583).                   *)
THEOREM StaticMapTypes == MapSpec => []StaticMapTypeOK
<1>1. ASSUME MapInv PROVE StaticMapTypeOK
  <2>1. RunTypeOK
    BY <1>1, RunInvTypes DEF MapInv
  <2>2. tracks \in Seq(Track) /\ Len(tracks) \in Nat /\ Len(tracks) <= MaxTracks
    BY <1>1, LenProperties DEF MapInv, TracksInv
  <2>3. \A i \in Ids : tracks[i] \in Track
    BY <2>2, ElementOfSeq DEF Ids
  <2>4. TracksTypeOK
    BY <1>1, <2>2, <2>3, Positive DEF MapInv, TracksInv, TracksTypeOK
  <2>5. None \notin 1 .. MaxAttempts
    BY MapAssumption, RunAssumption
  <2>6. MapTypeOK
    BY <1>1, <2>5 DEF MapInv, BuilderInv, TracksInv, MapTypeOK
  <2> QED BY <2>1, <2>4, <2>6 DEF StaticMapTypeOK
<1>2. MapInv => StaticMapTypeOK
  BY <1>1
<1> QED BY <1>2, MapInvariant, PTL

(* A strong track was seen moving in one of the last Window frames: what    *)
(* stopped or is hidden is released (motion.py:133, 148).                  *)
THEOREM StrongTracksAreRecent == MapSpec => []StrongIsRecent
<1>1. MapInv => StrongIsRecent
  BY StrongInWindow DEF MapInv, TracksInv, StrongIsRecent
<1> QED BY <1>1, MapInvariant, PTL

(* No object of a map comes from a track that moved MinConfirming times in *)
(* a row, in whatever frame of the sequence (build_map.py:422, 680).       *)
THEOREM MapsAreStatic == MapSpec => []MapIsStatic
<1>1. MapInv => MapIsStatic
  BY DEF MapInv, TracksInv, BuilderInv, MapIsStatic
<1> QED BY <1>1, MapInvariant, PTL

(* A track becomes strong only in the frame of its MinConfirming-th        *)
(* movement in a row (motion.py:128).                                      *)
THEOREM StrengthIsEarned == MapSpec => StrongIsEarned
<1>1. MapInv /\ [MapNext]_vars =>
        [\A i \in Ids \cap DOMAIN tracks' : tracks'[i].strong /\ ~tracks[i].strong =>
           tracks'[i].moving = MinConfirming]_vars
  BY MapStepHolds DEF Earned
<1> QED BY <1>1, MapInvariant, PTL DEF MapSpec, StrongIsEarned
=============================================================================
