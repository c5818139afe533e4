---------------------------- MODULE DynamicCache ----------------------------
(***************************************************************************)
(* The dynamic cache of one sequence                                       *)
(* (semantic_py/openvocab_slam/dynamic_cache.py) and the tool that fills   *)
(* it (tools/generate_dynamic_cache.py), reading the semantic cache of     *)
(* SemanticCache while that cache's own generator may be run, killed or    *)
(* resumed.  Its manifest binds it to the bytes of the semantic manifest   *)
(* and index and to the commit; everything else in it is a function of     *)
(* these inputs, and validation replays that function.                     *)
(*                                                                         *)
(* The causal tracker is represented by what it has seen: the score map    *)
(* and the track rows of frame f are a function of the packets of frames   *)
(* 1 .. f (DynamicTracks models that function).  Diagnostic overlays are   *)
(* written and checked like score maps and are left out, and so are the    *)
(* inputs no program of the repository changes (dataset, bootstrap run,    *)
(* intrinsics, configuration).                                             *)
(***************************************************************************)
EXTENDS SemanticCache

Binding == [commit : Commits, manifest : Manifest, index : Index]
DynamicMarker == [manifest : Binding, index : Seq(Index), tracks : Index]

ASSUME DynamicAssumption == Absent \notin Binding \cup DynamicMarker

VARIABLES
  dmanifest,  (* cache_manifest.json of the dynamic cache, or Absent        *)
  didentity,  (* semantic_identity.jsonl, or Absent                         *)
  dmaps,      (* the files of score_maps/, a function on the existing ones  *)
  dindex,     (* cache_index.jsonl                                          *)
  dtracks,    (* dynamic_tracks.jsonl, or Absent                            *)
  dmarker,    (* cache_complete.json, or Absent                             *)
  dpc,        (* what the tool does next, "idle" when it does not run       *)
  djob,       (* the manifest of the DynamicCacheJob, or Absent             *)
  dseen       (* the packets replayed so far                                *)

ddisk == <<dmanifest, didentity, dmaps, dindex, dtracks, dmarker>>
dprocess == <<dpc, djob, dseen>>
dynamicVars == <<ddisk, dprocess>>
cacheVars == <<semanticVars, dynamicVars>>

DynamicTypeOK ==
  /\ dmanifest \in Binding \cup {Absent}
  /\ didentity \in Index \cup {Absent}
  /\ DOMAIN dmaps \subseteq Frames /\ \A f \in DOMAIN dmaps : dmaps[f] \in Index
  /\ Len(dindex) \in 0 .. NFrames /\ \A f \in 1 .. Len(dindex) : dindex[f] \in Index
  /\ dtracks \in Index \cup {Absent}
  /\ dmarker \in DynamicMarker \cup {Absent}
  /\ dpc \in {"idle", "bind", "identity", "frame", "map", "append", "tracks",
              "validate", "seal", "confirm"}
  /\ djob \in Binding \cup {Absent} /\ (dpc # "idle" => djob # Absent)
  /\ dseen \in Index

DynamicInit ==
  /\ dmanifest = Absent /\ didentity = Absent /\ dmaps = [f \in {} |-> <<>>]
  /\ dindex = <<>> /\ dtracks = Absent /\ dmarker = Absent
  /\ dpc = "idle" /\ djob = Absent /\ dseen = <<>>

(* The packets of the semantic cache decode and are the indexed ones. *)
SemanticIsValid == manifest # Absent /\ ValidCache(manifest)

(* A dynamic cache is resumed from the commit it was begun at. *)
DynamicHeadFits == dmanifest # Absent => dmanifest.commit = head

(* _build_formal_jobs and build_dynamic_job; --resume as in StartGenerator. *)
BuildDynamicJob ==
  /\ dpc = "idle" /\ SemanticIsValid
  /\ DynamicHeadFits
  /\ djob' = [commit |-> head, manifest |-> manifest, index |-> index]
  /\ dpc' = "bind" /\ dseen' = <<>> /\ UNCHANGED ddisk

DynamicEnds == dpc' = "idle" /\ djob' = Absent /\ dseen' = <<>>
DynamicRefuses == DynamicEnds /\ UNCHANGED ddisk

(* _validate_bound_inputs *)
InputsAreBound ==
  /\ SemanticIsValid
  /\ djob.manifest = manifest /\ djob.index = index

BindManifest ==
  /\ dpc = "bind"
  /\ \/ /\ InputsAreBound /\ dmanifest \in {Absent, djob}
        /\ dmanifest' = djob /\ dpc' = "identity"
        /\ UNCHANGED <<didentity, dmaps, dindex, dtracks, dmarker, djob, dseen>>
     \/ ~(InputsAreBound /\ dmanifest \in {Absent, djob}) /\ DynamicRefuses

(* The bytes of the packets the index names, read again one by one. *)
PacketsDecode == \A f \in 1 .. Len(index) : f \in DOMAIN packets /\ packets[f] # Damaged

(* Mutant: the identity rows of an earlier run are refused. *)
BindIdentityAnew ==
  /\ dpc = "identity"
  /\ \/ /\ didentity = Absent
        /\ didentity' = djob.index /\ dpc' = "frame"
        /\ UNCHANGED <<dmanifest, dmaps, dindex, dtracks, dmarker, djob, dseen>>
     \/ didentity # Absent /\ DynamicRefuses

BindIdentity ==
  /\ dpc = "identity"
  /\ \/ /\ PacketsDecode /\ index = djob.index /\ didentity \in {Absent, djob.index}
        /\ didentity' = djob.index
        /\ dpc' = IF dmarker = Absent THEN "frame" ELSE "confirm"
        /\ UNCHANGED <<dmanifest, dmaps, dindex, dtracks, dmarker, djob, dseen>>
     \/ /\ ~(PacketsDecode /\ index = djob.index /\ didentity \in {Absent, djob.index})
        /\ DynamicRefuses

(***************************************************************************)
(* One frame of _replay_dynamic_frames and what generate_dynamic_cache     *)
(* does with it: an indexed frame must be what the replay gives, a score   *)
(* map without an entry is adopted when it is, a missing one is written.   *)
(* The semantic index file is read once, when the replay starts.           *)
(***************************************************************************)
At == Len(dseen)

ReadPacket ==
  /\ dpc = "frame"
  /\ \/ /\ At = NFrames
        /\ dpc' = "tracks" /\ UNCHANGED <<ddisk, djob, dseen>>
     \/ /\ At < NFrames /\ At + 1 \in DOMAIN packets /\ packets[At + 1] # Damaged
        /\ dseen' = Append(dseen, packets[At + 1]) /\ dpc' = "map"
        /\ UNCHANGED <<ddisk, djob>>
     \/ /\ At < NFrames /\ ~(At + 1 \in DOMAIN packets /\ packets[At + 1] # Damaged)
        /\ DynamicRefuses

WriteMap ==
  /\ dpc = "map"
  /\ \/ /\ At <= Len(dindex)
        /\ dindex[At] = dseen /\ At \in DOMAIN dmaps /\ dmaps[At] = dseen
        /\ dpc' = "frame" /\ UNCHANGED <<ddisk, djob, dseen>>
     \/ /\ At > Len(dindex) /\ (At \in DOMAIN dmaps => dmaps[At] = dseen)
        /\ dmaps' = Stored(dmaps, At, dseen) /\ dpc' = "append"
        /\ UNCHANGED <<dmanifest, didentity, dindex, dtracks, dmarker, djob, dseen>>
     \/ /\ At \in DOMAIN dmaps => dmaps[At] # dseen
        /\ At <= Len(dindex) \/ At \in DOMAIN dmaps
        /\ DynamicRefuses

AppendMap ==
  /\ dpc = "append"
  /\ dindex' = Append(dindex, dseen) /\ dpc' = "frame"
  /\ UNCHANGED <<dmanifest, didentity, dmaps, dtracks, dmarker, djob, dseen>>

WriteTracks ==
  /\ dpc = "tracks"
  /\ dtracks' = dseen /\ dpc' = "validate"
  /\ UNCHANGED <<dmanifest, didentity, dmaps, dindex, dmarker, djob, dseen>>

(***************************************************************************)
(* validate_dynamic_cache: the inputs are still the bound ones and every   *)
(* file is what their replay gives.  With a completion file it must name   *)
(* the files that are there.                                               *)
(***************************************************************************)
Replay(f) == SubSeq(index, 1, f)

DynamicValid ==
  /\ InputsAreBound /\ dmanifest = djob /\ didentity = index
  /\ Len(dindex) = NFrames /\ DOMAIN dmaps = Frames
  /\ \A f \in Frames : dmaps[f] = Replay(f) /\ dindex[f] = Replay(f)
  /\ dtracks = index

ValidateDynamic ==
  /\ dpc = "validate"
  /\ \/ DynamicValid /\ dpc' = "seal" /\ UNCHANGED <<ddisk, djob, dseen>>
     \/ ~DynamicValid /\ DynamicRefuses

(* Mutant: the completion file does not wait for the loop. *)
SealDynamicEarly ==
  /\ dpc \in {"frame", "seal"}
  /\ dmarker' = [manifest |-> dmanifest, index |-> dindex, tracks |-> dtracks]
  /\ dpc' = "confirm"
  /\ UNCHANGED <<dmanifest, didentity, dmaps, dindex, dtracks, djob, dseen>>

SealDynamic ==
  /\ dpc = "seal"
  /\ dmarker' = [manifest |-> dmanifest, index |-> dindex, tracks |-> dtracks]
  /\ dpc' = "confirm"
  /\ UNCHANGED <<dmanifest, didentity, dmaps, dindex, dtracks, djob, dseen>>

(* The last validation, or the only one on a complete cache: it writes nothing. *)
ConfirmDynamic == dpc = "confirm" /\ DynamicRefuses

DynamicStep ==
  \/ BindManifest \/ BindIdentity \/ ReadPacket \/ WriteMap \/ AppendMap
  \/ WriteTracks \/ ValidateDynamic \/ SealDynamic \/ ConfirmDynamic

CrashDynamic ==
  /\ dpc # "idle" /\ faults < MaxFaults /\ faults' = faults + 1
  /\ DynamicRefuses /\ UNCHANGED <<head, disk, process>>

CachesInit == SemanticInit /\ DynamicInit

CachesNext ==
  \/ SemanticNext /\ UNCHANGED dynamicVars
  \/ (BuildDynamicJob \/ DynamicStep) /\ UNCHANGED semanticVars
  \/ CrashDynamic

CachesSpec == CachesInit /\ [][CachesNext]_cacheVars

(***************************************************************************)
(* Both tools run on, and are started again for as long as it takes.       *)
(***************************************************************************)
CachesFairness ==
  /\ WF_cacheVars(GeneratorStep /\ UNCHANGED dynamicVars)
  /\ WF_cacheVars(StartGenerator /\ UNCHANGED dynamicVars)
  /\ WF_cacheVars(DynamicStep /\ UNCHANGED semanticVars)
  /\ WF_cacheVars(BuildDynamicJob /\ UNCHANGED semanticVars)

FairCachesSpec == CachesSpec /\ CachesFairness

-----------------------------------------------------------------------------
(* Type correctness of both caches and both tools. *)
CachesTypeOK == SemanticTypeOK /\ DynamicTypeOK

(***************************************************************************)
(* A semantic cache that says it is complete names the manifest and the    *)
(* index that are there, and the index has every frame at the resolution   *)
(* of that manifest: a fallback never mixes resolutions and a resumed or   *)
(* renamed cache never keeps an old completion file (cache.py:92,          *)
(* generate_cache.py:160).                                                 *)
(***************************************************************************)
SealedIsWhole ==
  marker # Absent =>
    /\ marker = [manifest |-> manifest, index |-> index]
    /\ Len(index) = NFrames
    /\ \A f \in Frames : index[f].side = manifest.side

(***************************************************************************)
(* A complete dynamic cache is derived, frame by frame and from earlier    *)
(* frames only, from the semantic index and manifest that are there now,   *)
(* although the semantic generator may run at any time (dynamic_cache.py:  *)
(* 532).                                                                   *)
(***************************************************************************)
DynamicIsDerived ==
  dmarker # Absent =>
    /\ dmarker = [manifest |-> dmanifest, index |-> dindex, tracks |-> dtracks]
    /\ dmanifest.manifest = manifest /\ dmanifest.index = index
    /\ Len(index) = NFrames /\ dtracks = index
    /\ \A f \in Frames : dindex[f] = Replay(f)

(* The two caches are sealed stores; only the semantic one is ever set aside. *)
Semantic == INSTANCE SealedStore
  WITH Total <- NFrames, MaySetAside <- TRUE, log <- index, sealed <- marker # Absent
Dynamic == INSTANCE SealedStore
  WITH Total <- NFrames, MaySetAside <- FALSE, log <- dindex, sealed <- dmarker # Absent

(***************************************************************************)
(* Crashes, damage, exhausted memory and resumes are steps of a log that   *)
(* only grows and is sealed once, whole (cache.py:60, dynamic_cache.py:    *)
(* 563).                                                                   *)
(***************************************************************************)
CachesAreSealedStores == Semantic!StoreSpec /\ Dynamic!StoreSpec

(* A packet file was left without its entry, by a crash in between. *)
OrphanLeft == gpc # "append" /\ \E f \in DOMAIN packets : f > Len(index)
DamageDone == \E f \in DOMAIN packets : packets[f] = Damaged

(***************************************************************************)
(* Both caches are completed by starting the tools again with --resume, as *)
(* long as HEAD stays where the caches were begun, no file is damaged and  *)
(* no crash left a packet without its entry (generate_cache.py:107,        *)
(* dynamic_cache.py:532).                                                  *)
(***************************************************************************)
CachesComplete ==
  <>[](HeadFits /\ DynamicHeadFits) =>
    <>(DamageDone \/ OrphanLeft \/ (marker # Absent /\ dmarker # Absent))

(***************************************************************************)
(* docs/design/DESIGN_SPEC.md:154 of a partial long run: "Preserve         *)
(* registry and resume from validated atomic outputs".  An orphaned packet *)
(* is inferred again with another inference time, which cache.py:77        *)
(* refuses for good.                                                       *)
(***************************************************************************)
PartialRunIsResumed == <>[]HeadFits => <>(DamageDone \/ marker # Absent)
=============================================================================
