----------------------------- MODULE StaticMap -----------------------------
(***************************************************************************)
(* The static semantic map of a sequence, from its dynamic cache and its   *)
(* semantic-feedback run: generate_dynamic_cache's tracker, then           *)
(* tools/run_orb_tum.py --study smoke, which registers the run, and        *)
(* tools/build_map.py with semantic_py/openvocab_slam/map.py, which reads  *)
(* the registry and exports a map directory that tools/validate_map.py     *)
(* checks.  Runs and maps are made by hand, at the same time or not.       *)
(*                                                                         *)
(* The caches and datasets are complete before a run begins and unchanged  *)
(* after: the hash checks of build_map against them pass here.             *)
(***************************************************************************)
EXTENDS DynamicTracks, RunAttempt

CONSTANT Sequence    (* the condition whose map is built                     *)

ASSUME MapAssumption == Sequence \in Conditions /\ None \notin Nat

VARIABLES
  replayed,    (* the dynamic cache is complete                             *)
  staging,     (* attempts whose map has a .partial directory               *)
  maps,        (* map directories: a function on the attempts that have one *)
  mpc,         (* what build_map does next, "idle" when it does not run     *)
  selected,    (* the attempt it has selected, or None                      *)
  objects      (* the tracks whose points make up its objects               *)

builderVars == <<staging, maps, mpc, selected, objects>>
vars == <<trackVars, replayed, environmentVars, runVars, builderVars>>

MapTypeOK ==
  /\ replayed \in BOOLEAN
  /\ staging \cup DOMAIN maps \subseteq 1 .. MaxAttempts
  /\ \A n \in DOMAIN maps : maps[n] \subseteq 1 .. MaxTracks
  /\ mpc \in {"idle", "integrate", "stage", "publish"}
  /\ selected \in 1 .. MaxAttempts \cup {None} /\ (mpc = "idle" <=> selected = None)
  /\ objects \subseteq 1 .. MaxTracks

MapInit ==
  /\ TracksInit /\ replayed = FALSE /\ RunInit
  /\ staging = {} /\ maps = [n \in {} |-> {}] /\ mpc = "idle" /\ selected = None
  /\ objects = {}

-----------------------------------------------------------------------------
(* The tracker goes through the sequence and the cache is completed. *)
Replay == ~replayed /\ ReplayNext /\ UNCHANGED <<replayed, environmentVars, runVars, builderVars>>

FinishReplay ==
  /\ ~replayed /\ replayed' = TRUE
  /\ tracks' = <<>> /\ UNCHANGED <<dynamicIds, lowScored, bursts>>
  /\ UNCHANGED <<environmentVars, runVars, builderVars>>

-----------------------------------------------------------------------------
(* _verified_inputs: the dynamic cache and what it is bound to are complete. *)
InputsVerified == replayed

(* main of run_orb_tum *)
StartRun == InputsVerified /\ BeginCondition(Sequence)

ReportRun ==
  /\ rpc = "returned" /\ RunnerEnds /\ UNCHANGED <<attempts, torn, environmentVars>>

RunNext ==
  /\ \/ StartRun \/ RunnerStep \/ ReportRun
     \/ rpc # "idle" /\ CrashRunner
     \/ \E n \in 1 .. MaxAttempts : DamageAttempt(Sequence, n)
     \/ \E version \in Inputs : ChangeInputs(version)
  /\ UNCHANGED <<trackVars, replayed, builderVars>>

-----------------------------------------------------------------------------
Registered == {n \in 1 .. Len(attempts[Sequence]) : attempts[Sequence][n].logged = "COMPLETED"}

(* _validated_run_artifact and load_tum_trajectory: every file of the run   *)
(* hashes to what the manifest says and can be read.                       *)
ArtifactsMatch(n) == Intact(attempts[Sequence][n].artifacts)

(* The dataset, both caches and the identities the run was registered with: *)
(* they were complete before the run and have not changed.                 *)
CachesAreBound == replayed

(***************************************************************************)
(* select_registered_run: every row of the registry is an object, exactly  *)
(* one attempt is completed in its last row, that row is its manifest, and *)
(* its artifacts hash to what it says.                                     *)
(***************************************************************************)
SelectRun(n) ==
  /\ mpc = "idle" /\ ~torn /\ Registered = {n}
  /\ attempts[Sequence][n].manifest.state = "COMPLETED"
  /\ ArtifactsMatch(n) /\ CachesAreBound
  /\ selected' = n /\ mpc' = "integrate" /\ UNCHANGED <<staging, maps, objects>>

(***************************************************************************)
(* classify_track_rows and the loop of build_sequence_map: points of an    *)
(* instance are kept when its row has a track that is strong in no row of  *)
(* the file and a score below static_score_max_exclusive, which is Unknown.*)
(***************************************************************************)
(* Mutant: every row is judged by itself. *)
StaticTracksByRow == lowScored

StaticTracks == lowScored \ dynamicIds

(* aggregate_static_objects: one object for a track, unless its masks have  *)
(* no depth, its points are too few or no cluster of them is large enough. *)
Aggregates == SUBSET StaticTracks

(* Frames without an exact pose drop tracks too. *)
IntegrateFrames(kept) ==
  /\ mpc = "integrate" /\ kept \in Aggregates
  /\ objects' = kept /\ mpc' = "stage" /\ UNCHANGED <<staging, maps, selected>>

BuildEnds == mpc' = "idle" /\ selected' = None /\ objects' = {}

(***************************************************************************)
(* export_map_artifacts.  The payloads and the manifest that hashes them   *)
(* are written to a staging directory, which is renamed to the map root;   *)
(* an existing root or staging directory is refused, and an exception      *)
(* leaves the staging directory behind.                                    *)
(***************************************************************************)
StageMap ==
  /\ mpc = "stage" /\ UNCHANGED maps
  /\ \/ /\ selected \notin DOMAIN maps \cup staging
        /\ staging' = staging \cup {selected} /\ mpc' = "publish"
        /\ UNCHANGED <<selected, objects>>
     \/ selected \in DOMAIN maps \cup staging /\ BuildEnds /\ UNCHANGED staging

PublishMap ==
  /\ mpc = "publish"
  /\ maps' = [n \in DOMAIN maps \cup {selected} |->
                IF n = selected THEN objects ELSE maps[n]]
  /\ staging' = staging \ {selected} /\ BuildEnds

(* An exception or a crash anywhere in the build. *)
BuildFails == mpc # "idle" /\ BuildEnds /\ UNCHANGED <<staging, maps>>

BuildMap ==
  /\ \/ \E n \in 1 .. MaxAttempts : SelectRun(n)
     \/ \E kept \in SUBSET (1 .. MaxTracks) : IntegrateFrames(kept)
     \/ StageMap \/ PublishMap \/ BuildFails
  /\ UNCHANGED <<trackVars, replayed, environmentVars, runVars>>

MapNext == Replay \/ FinishReplay \/ RunNext \/ BuildMap

MapSpec == MapInit /\ [][MapNext]_vars

-----------------------------------------------------------------------------
(* Type correctness of the tracker, the runner and the map builder. *)
StaticMapTypeOK == TracksTypeOK /\ RunTypeOK /\ MapTypeOK

(***************************************************************************)
(* A track becomes strong only in a frame where it is seen moving for the  *)
(* MinConfirming-th time in a row, without a miss in between (motion.py:   *)
(* 129-133).                                                               *)
(***************************************************************************)
StrongIsEarned ==
  [][\A i \in Ids \cap DOMAIN tracks' : tracks'[i].strong /\ ~tracks[i].strong =>
       tracks'[i].moving = MinConfirming]_vars

(***************************************************************************)
(* A strong track was seen moving in one of the last Window frames of the  *)
(* sequence: an object that stopped, or is hidden, is released (motion.py: *)
(* 134, 153).                                                              *)
(***************************************************************************)
StrongIsRecent ==
  \A i \in Ids : tracks[i].strong /\ ~tracks[i].terminated =>
    tracks[i].since < Window

(***************************************************************************)
(* No object of an exported map comes from a track that was seen moving    *)
(* MinConfirming times in a row, in whatever frame: the evidence of that   *)
(* many frames always makes the track strong, and one strong row excludes  *)
(* it from the whole map (build_map.py:441, 708, map.py:330).              *)
(***************************************************************************)
MapIsStatic == \A n \in DOMAIN maps : maps[n] \cap bursts = {}

(***************************************************************************)
(* Doc claim: the registry survives a run that is killed and resumed: a    *)
(* run that is reported as complete is complete in the registry            *)
(* (DESIGN_SPEC.md:154).                                                   *)
(***************************************************************************)
CompleteIsRegistered ==
  rpc = "returned" /\ stage = "COMPLETED" => This.logged = "COMPLETED"
=============================================================================
