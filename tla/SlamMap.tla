------------------------------ MODULE SlamMap ------------------------------
(***************************************************************************)
(* The part of Map (src/src/Map.cc, src/include/Map.h) that the threads of *)
(* the SLAM core coordinate through: the set of keyframes, the mutex that  *)
(* freezes the map geometry, and, as a history, which KeyFrame objects     *)
(* have been destroyed.                                                    *)
(*                                                                         *)
(* A KeyFrame object is identified by the number of resets that preceded   *)
(* it and its mnId: KeyFrame::nNextId restarts at 0 after every reset, so  *)
(* mnId alone does not identify an object.                                 *)
(***************************************************************************)
EXTENDS Naturals

CONSTANTS
  MaxEpoch,   (* bound on the number of resets                             *)
  MaxId,      (* bound on mnId within one epoch                            *)
  Nobody      (* owner of a free mutex, and "no KeyFrame object"           *)

ASSUME BoundsAssumption == MaxEpoch \in Nat /\ MaxId \in Nat

VARIABLE map

KeyFrame == [epoch : 0 .. MaxEpoch, mnId : 0 .. MaxId]

(* Nobody is not a keyframe. *)
ASSUME NobodyAssumption == Nobody \notin KeyFrame

MapType(Threads) ==
  map \in [ mspKeyFrames    : SUBSET KeyFrame,
            deleted         : SUBSET KeyFrame,
            mMutexMapUpdate : Threads \cup {Nobody} ]

MapInit ==
  map = [ mspKeyFrames |-> {}, deleted |-> {}, mMutexMapUpdate |-> Nobody ]

AddKeyFrame(k) == map' = [map EXCEPT !.mspKeyFrames = @ \cup {k}]

(* Map::clear destroys every keyframe the map holds. *)
ClearMap ==
  map' = [map EXCEPT !.mspKeyFrames = {},
                     !.deleted      = @ \cup map.mspKeyFrames]

DeleteKeyFrames(K) == map' = [map EXCEPT !.deleted = @ \cup K]

MapIsFree == map.mMutexMapUpdate = Nobody

LockMap(t) ==
  /\ MapIsFree
  /\ map' = [map EXCEPT !.mMutexMapUpdate = t]

UnlockMap(t) ==
  /\ map.mMutexMapUpdate = t
  /\ map' = [map EXCEPT !.mMutexMapUpdate = Nobody]
=============================================================================
