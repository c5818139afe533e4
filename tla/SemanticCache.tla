--------------------------- MODULE SemanticCache ---------------------------
(***************************************************************************)
(* The semantic cache of one sequence (semantic_py/openvocab_slam/cache.py)*)
(* and the tool that fills it (tools/generate_cache.py): frames are        *)
(* inferred in order, each packet is put in place by an atomic rename and  *)
(* then entered in the index, also by an atomic rename; a last file says   *)
(* the cache is complete.  The process may be killed between any two of    *)
(* these steps, run out of GPU memory, or be started again with --resume   *)
(* from another commit.                                                    *)
(*                                                                         *)
(* A packet is what its manifest and the clock make of a frame: the        *)
(* resolution it was inferred at and the measured inference time, which is *)
(* a field of SemanticFramePacket.  Instances, prompt, models and source   *)
(* hash are functions of the frame, the resolution and the commit.  A      *)
(* digest is represented by what it is the digest of.  The entries the     *)
(* writer keeps in memory are those of the index file: it is the only      *)
(* writer, and the rename that changes the file precedes the append.       *)
(***************************************************************************)
EXTENDS Naturals, Sequences

CONSTANTS
  NFrames,     (* expected_frame_count                                      *)
  Commits,     (* commits HEAD may be at                                    *)
  Times,       (* inference times that are told apart                       *)
  MaxFaults,   (* bound on crashes, exhausted memory and damaged files      *)
  Absent       (* a file that does not exist                                *)

Frames == 1 .. NFrames
Sides == {"full", "fallback"}
Packet == [side : Sides, time : Times]
Manifest == [commit : Commits, side : Sides]
Index == UNION { [1 .. n -> Packet] : n \in 0 .. NFrames }
Marker == [manifest : Manifest, index : Index]

(* A file that no longer decodes. *)
Damaged == [side |-> "damaged", time |-> 0]

ASSUME SemanticAssumption ==
  /\ NFrames \in Nat \ {0}
  /\ MaxFaults \in Nat
  /\ Absent \notin Manifest \cup Marker \cup Packet

VARIABLES
  head,       (* the commit checked out in the product tree                 *)
  faults,     (* crashes, exhausted memory and damaged files so far         *)
  manifest,   (* cache_manifest.json, or Absent                             *)
  packets,    (* the files of frames/, a function on the existing ones      *)
  index,      (* cache_index.jsonl: the entry of frame f is at position f   *)
  marker,     (* cache_complete.json, or Absent                             *)
  gpc,        (* what the generator does next, "idle" when it does not run  *)
  job,        (* the manifest of the SequenceCacheJob, or Absent            *)
  frame,      (* the row of the association the generator is at             *)
  packet      (* the packet it has inferred, or Absent                      *)

disk == <<manifest, packets, index, marker>>
process == <<gpc, job, frame, packet>>
semanticVars == <<head, faults, disk, process>>

SemanticTypeOK ==
  /\ head \in Commits /\ faults \in 0 .. MaxFaults
  /\ manifest \in Manifest \cup {Absent}
  /\ DOMAIN packets \subseteq Frames
  /\ \A f \in DOMAIN packets : packets[f] \in Packet \cup {Damaged}
  /\ index \in Index /\ marker \in Marker \cup {Absent}
  /\ gpc \in {"idle", "manifest", "frame", "infer", "add", "append",
              "validate", "seal"}
  /\ job \in Manifest \cup {Absent} /\ (gpc # "idle" => job # Absent)
  /\ frame \in 1 .. NFrames + 1
  /\ packet \in Packet \cup {Absent} /\ (gpc \in {"add", "append"} => packet # Absent)

SemanticInit ==
  /\ head \in Commits /\ faults = 0
  /\ manifest = Absent /\ packets = [f \in {} |-> Absent]
  /\ index = <<>> /\ marker = Absent
  /\ gpc = "idle" /\ job = Absent /\ frame = 1 /\ packet = Absent

Stored(files, f, file) ==
  [g \in DOMAIN files \cup {f} |-> IF g = f THEN file ELSE files[g]]

(***************************************************************************)
(* build_sequence_jobs.  An existing manifest must be of the commit that   *)
(* is checked out; its resolution, which an earlier run may have lowered,  *)
(* is kept.  Starting without --resume is the same on an absent cache and  *)
(* is refused otherwise.                                                   *)
(***************************************************************************)
HeadFits == manifest # Absent => manifest.commit = head

StartGenerator ==
  /\ gpc = "idle" /\ HeadFits
  /\ job' = IF manifest = Absent THEN [commit |-> head, side |-> "full"]
                                 ELSE manifest
  /\ gpc' = "manifest" /\ frame' = 1 /\ packet' = Absent
  /\ UNCHANGED <<head, faults, disk>>

(* The process ends; what it had in memory is lost. *)
GeneratorEnds ==
  /\ gpc' = "idle" /\ job' = Absent /\ frame' = 1 /\ packet' = Absent

(* An exception reaches main: the process ends and the disk stays as it is. *)
Refuse == GeneratorEnds /\ UNCHANGED <<head, faults, disk>>

(* CacheWriter.__init__ *)
OpenWriter ==
  /\ gpc = "manifest"
  /\ \/ /\ manifest \in {Absent, job}
        /\ manifest' = job /\ gpc' = "frame"
        /\ UNCHANGED <<head, faults, packets, index, marker, job, frame, packet>>
     \/ manifest \notin {Absent, job} /\ Refuse

(* CacheWriter.has_valid_frame on an entry of the index. *)
HasValidFrame(f) ==
  /\ f \in DOMAIN packets /\ packets[f] = index[f]
  /\ packets[f].side = job.side

(* One round of the loop of generate_sequence_cache, up to the inference. *)
CheckFrame ==
  /\ gpc = "frame"
  /\ \/ /\ frame > NFrames
        /\ gpc' = "validate" /\ UNCHANGED <<head, faults, disk, job, frame, packet>>
     \/ /\ frame \in 1 .. Len(index) /\ HasValidFrame(frame)
        /\ frame' = frame + 1 /\ UNCHANGED <<head, faults, disk, gpc, job, packet>>
     \/ frame \in 1 .. Len(index) /\ ~HasValidFrame(frame) /\ Refuse
     \/ /\ frame \in Len(index) + 1 .. NFrames
        /\ gpc' = "infer" /\ UNCHANGED <<head, faults, disk, job, frame, packet>>

Infer(t) ==
  /\ gpc = "infer"
  /\ packet' = [side |-> job.side, time |-> t] /\ gpc' = "add"
  /\ UNCHANGED <<head, faults, disk, job, frame>>

(***************************************************************************)
(* run_job_with_oom_fallback: the first time memory is exhausted the whole *)
(* cache directory is renamed and generation starts over at the lower      *)
(* resolution.  At that resolution the exception ends the process.         *)
(***************************************************************************)
SetAsideAtFullSize ==
  /\ gpc = "infer" /\ job.side = "full"
  /\ manifest' = Absent /\ packets' = [f \in {} |-> Absent]
  /\ index' = <<>> /\ marker' = Absent
  /\ job' = [job EXCEPT !.side = "fallback"]
  /\ gpc' = "manifest" /\ frame' = 1
  /\ UNCHANGED <<head, faults, packet>>

ExhaustedAgain ==
  /\ gpc = "infer" /\ job.side # "full" /\ faults < MaxFaults
  /\ faults' = faults + 1 /\ GeneratorEnds /\ UNCHANGED <<head, disk>>

(***************************************************************************)
(* CacheWriter.add of a frame that is not indexed.  A packet file without  *)
(* an entry is what a crash between the two renames leaves: it is adopted  *)
(* when it equals the packet in memory, inference time included.           *)
(***************************************************************************)
OrphanFits == packets[frame] = packet

AddPacket ==
  /\ gpc = "add"
  /\ \/ /\ frame \notin DOMAIN packets
        /\ packets' = Stored(packets, frame, packet) /\ gpc' = "append"
        /\ UNCHANGED <<head, faults, manifest, index, marker, job, frame, packet>>
     \/ /\ frame \in DOMAIN packets /\ OrphanFits
        /\ gpc' = "append" /\ UNCHANGED <<head, faults, disk, job, frame, packet>>
     \/ frame \in DOMAIN packets /\ ~OrphanFits /\ Refuse

(* Mutant: the packet is released before its entry is made. *)
AppendIndexReleased ==
  /\ gpc = "append" /\ packet' = Absent
  /\ index' = Append(index, packet')
  /\ frame' = frame + 1 /\ gpc' = "frame"
  /\ UNCHANGED <<head, faults, manifest, packets, marker, job>>

(* Mutant: the index is written anew, without the entries it had. *)
AppendIndexAnew ==
  /\ gpc = "append"
  /\ index' = <<packet>>
  /\ frame' = frame + 1 /\ packet' = Absent /\ gpc' = "frame"
  /\ UNCHANGED <<head, faults, manifest, packets, marker, job>>

AppendIndex ==
  /\ gpc = "append"
  /\ index' = Append(index, packet)
  /\ frame' = frame + 1 /\ packet' = Absent /\ gpc' = "frame"
  /\ UNCHANGED <<head, faults, manifest, packets, marker, job>>

(***************************************************************************)
(* validate_cache: the manifest is the expected one, every entry has its   *)
(* packet, of the manifest's identity and with the recorded digest, no     *)
(* frame is missing and no packet file is left over.                       *)
(***************************************************************************)
ValidCache(expected) ==
  /\ manifest = expected
  /\ Len(index) = NFrames /\ DOMAIN packets = Frames
  /\ \A f \in Frames : packets[f] = index[f] /\ packets[f].side = expected.side

(* CacheWriter.finalize validates and then writes the completion file. *)
ValidateCache ==
  /\ gpc = "validate"
  /\ \/ /\ ValidCache(job)
        /\ gpc' = "seal" /\ UNCHANGED <<head, faults, disk, job, frame, packet>>
     \/ ~ValidCache(job) /\ Refuse

(* Mutant: the completion file does not wait for the loop. *)
SealCacheEarly ==
  /\ gpc \in {"frame", "seal"}
  /\ marker' = [manifest |-> manifest, index |-> index]
  /\ GeneratorEnds /\ UNCHANGED <<head, faults, manifest, packets, index>>

SealCache ==
  /\ gpc = "seal"
  /\ marker' = [manifest |-> manifest, index |-> index]
  /\ GeneratorEnds /\ UNCHANGED <<head, faults, manifest, packets, index>>

CrashGenerator ==
  /\ gpc # "idle" /\ faults < MaxFaults
  /\ faults' = faults + 1 /\ GeneratorEnds /\ UNCHANGED <<head, disk>>

GeneratorStep ==
  \/ OpenWriter \/ CheckFrame \/ \E t \in Times : Infer(t)
  \/ SetAsideAtFullSize \/ AddPacket \/ AppendIndex
  \/ ValidateCache \/ SealCache

(* The product tree is moved to another commit. *)
MoveHead(c) == head' = c /\ c # head /\ UNCHANGED <<faults, disk, process>>

(* A packet file is damaged on the disk. *)
DamagePacket(f) ==
  /\ f \in DOMAIN packets /\ packets[f] # Damaged /\ faults < MaxFaults
  /\ faults' = faults + 1 /\ packets' = [packets EXCEPT ![f] = Damaged]
  /\ UNCHANGED <<head, manifest, index, marker, process>>

SemanticNext ==
  \/ StartGenerator \/ GeneratorStep \/ ExhaustedAgain \/ CrashGenerator
  \/ \E c \in Commits : MoveHead(c)
  \/ \E f \in Frames : DamagePacket(f)
=============================================================================
