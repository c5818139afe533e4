--------------------------- MODULE Caches_proofs ---------------------------
(***************************************************************************)
(* Proofs about SemanticCache and DynamicCache, for any number of frames,  *)
(* commits and faults: what is sealed is whole and derived from what is    *)
(* there, and both caches implement SealedStore.                           *)
(***************************************************************************)
EXTENDS DynamicCache, SequenceTheorems, TLAPS

-----------------------------------------------------------------------------
(* The types of the semantic cache, with the index as a sequence. *)
SemanticTypes ==
  /\ head \in Commits /\ faults \in 0 .. MaxFaults
  /\ manifest \in Manifest \cup {Absent}
  /\ DOMAIN packets \subseteq Frames
  /\ \A f \in DOMAIN packets : packets[f] \in Packet \cup {Damaged}
  /\ index \in Seq(Packet) /\ Len(index) <= NFrames
  /\ gpc \in {"idle", "manifest", "frame", "infer", "add", "append",
              "validate", "seal"}
  /\ job \in Manifest \cup {Absent} /\ (gpc # "idle" => job \in Manifest)
  /\ frame \in 1 .. NFrames + 1
  /\ packet \in Packet \cup {Absent}

(***************************************************************************)
(* Once the writer is open its job is the manifest on the disk, the loop   *)
(* is never beyond the first frame without an entry, and the packet is of  *)
(* the resolution of the job.                                              *)
(***************************************************************************)
GeneratorInv ==
  /\ gpc \notin {"idle", "manifest"} => manifest = job
  /\ gpc = "manifest" => frame = 1
  /\ gpc = "frame" => frame <= Len(index) + 1
  /\ gpc \in {"infer", "add", "append"} => frame = Len(index) + 1 /\ frame <= NFrames
  /\ gpc \in {"add", "append"} => packet \in Packet /\ packet.side = job.side
  /\ gpc = "seal" => Len(index) = NFrames

(* What the files say of each other. *)
SemanticFiles ==
  /\ manifest = Absent => index = <<>> /\ marker = Absent
  /\ manifest # Absent => \A f \in 1 .. Len(index) : index[f].side = manifest.side
  /\ marker # Absent =>
       marker = [manifest |-> manifest, index |-> index] /\ Len(index) = NFrames

SemanticInv == SemanticTypes /\ GeneratorInv /\ SemanticFiles

(* The steps of the abstract stores. *)
SemanticStoreStep ==
  [Semantic!Publish \/ Semantic!Seal \/ Semantic!SetAside]_<<index, marker # Absent>>
DynamicStoreStep ==
  [Dynamic!Publish \/ Dynamic!Seal \/ Dynamic!SetAside]_<<dindex, dmarker # Absent>>

-----------------------------------------------------------------------------
(* A sequence of packets that is not too long is an index. *)
LEMMA SequencesAreIndexes ==
  ASSUME NEW s \in Seq(Packet), Len(s) <= NFrames PROVE s \in Index
<1>1. Len(s) \in Nat /\ s \in [1 .. Len(s) -> Packet]
  BY LenProperties
<1>2. Len(s) \in 0 .. NFrames
  BY <1>1, SemanticAssumption
<1> QED BY <1>1, <1>2 DEF Index

LEMMA SemanticInitHolds == SemanticInit => SemanticInv
<1> SUFFICES ASSUME SemanticInit PROVE SemanticInv
  OBVIOUS
<1>1. NFrames \in Nat \ {0} /\ MaxFaults \in Nat
  BY SemanticAssumption
<1>2. index = <<>> /\ Len(index) = 0 /\ index \in Seq(Packet)
  BY EmptySeq DEF SemanticInit
<1>3. DOMAIN packets = {}
  BY DEF SemanticInit
<1>4. SemanticTypes
  BY <1>1, <1>2, <1>3 DEF SemanticInit, SemanticTypes
<1> QED BY <1>2, <1>4 DEF SemanticInit, SemanticInv, GeneratorInv, SemanticFiles

(* The process ends and leaves the files as they are. *)
LEMMA GeneratorEndsHolds ==
  ASSUME SemanticInv, GeneratorEnds, UNCHANGED disk,
         head' \in Commits, faults' \in 0 .. MaxFaults
  PROVE  SemanticInv' /\ UNCHANGED <<index, manifest, marker>>
<1>1. 1 \in 1 .. NFrames + 1
  BY SemanticAssumption
<1> QED BY <1>1 DEF SemanticInv, SemanticTypes, GeneratorInv, SemanticFiles,
                    GeneratorEnds, disk

LEMMA StoreUnchanged ==
  ASSUME UNCHANGED <<index, marker>> PROVE SemanticStoreStep
BY DEF SemanticStoreStep

(* No step of the generator but these three touches the log or the seal. *)
LEMMA SetAsideHolds ==
  ASSUME SemanticInv, SetAsideAtFullSize PROVE SemanticInv' /\ SemanticStoreStep
<1>1. /\ gpc = "infer" /\ manifest' = Absent /\ packets' = [f \in {} |-> Absent]
      /\ index' = <<>> /\ marker' = Absent /\ job' = [job EXCEPT !.side = "fallback"]
      /\ gpc' = "manifest" /\ frame' = 1 /\ UNCHANGED <<head, faults, packet>>
  BY DEF SetAsideAtFullSize
<1>2. job' \in Manifest
  BY <1>1 DEF SemanticInv, SemanticTypes, Manifest, Sides
<1>3. /\ index' \in Seq(Packet) /\ Len(index') = 0 /\ NFrames \in Nat \ {0}
      /\ DOMAIN packets' = {}
  BY <1>1, EmptySeq, SemanticAssumption
<1>4. SemanticInv'
  BY <1>1, <1>2, <1>3 DEF SemanticInv, SemanticTypes, GeneratorInv, SemanticFiles
<1>5. marker = Absent
  <2>1. Len(index) \in Nat /\ Len(index) # NFrames
    BY <1>1, <1>3, LenProperties DEF SemanticInv, SemanticTypes, GeneratorInv
  <2> QED BY <2>1 DEF SemanticInv, SemanticFiles
<1>6. Semantic!SetAside
  BY <1>1, <1>5 DEF Semantic!SetAside
<1> QED BY <1>4, <1>6 DEF SemanticStoreStep

LEMMA AppendHolds ==
  ASSUME SemanticInv, AppendIndex PROVE SemanticInv' /\ SemanticStoreStep
<1>1. /\ gpc = "append" /\ index' = Append(index, packet) /\ frame' = frame + 1
      /\ packet' = Absent /\ gpc' = "frame"
      /\ UNCHANGED <<head, faults, manifest, packets, marker, job>>
  BY DEF AppendIndex
<1>2. /\ index \in Seq(Packet) /\ packet \in Packet /\ NFrames \in Nat \ {0}
      /\ frame = Len(index) + 1 /\ frame <= NFrames /\ packet.side = job.side
      /\ manifest = job /\ manifest # Absent
  BY <1>1, SemanticAssumption DEF SemanticInv, SemanticTypes, GeneratorInv
<1>3. Len(index) \in Nat
  BY <1>2, LenProperties
<1>4. /\ index' \in Seq(Packet) /\ Len(index') = Len(index) + 1
      /\ \A i \in 1 .. Len(index) : index'[i] = index[i]
      /\ index'[Len(index) + 1] = packet
  BY <1>1, <1>2, AppendProperties
<1>5. marker = Absent
  BY <1>2, <1>3 DEF SemanticInv, SemanticFiles
<1>6. SemanticTypes'
  <2>1. frame' \in 1 .. NFrames + 1 /\ Len(index') <= NFrames
    BY <1>1, <1>2, <1>3, <1>4
  <2> QED BY <1>1, <1>4, <2>1 DEF SemanticInv, SemanticTypes
<1>7. GeneratorInv'
  BY <1>1, <1>2, <1>3, <1>4 DEF GeneratorInv
<1>8. \A f \in 1 .. Len(index') : index'[f].side = manifest.side
  <2> TAKE f \in 1 .. Len(index')
  <2>1. CASE f = Len(index) + 1
    BY <1>2, <1>4, <2>1
  <2>2. CASE f \in 1 .. Len(index)
    BY <1>2, <1>4, <2>2 DEF SemanticInv, SemanticFiles
  <2> QED BY <1>3, <1>4, <2>1, <2>2
<1>9. SemanticFiles'
  BY <1>1, <1>2, <1>5, <1>8 DEF SemanticFiles
<1>10. Semantic!Publish
  <2>1. Len(index) < NFrames
    BY <1>2, <1>3
  <2> QED BY <1>1, <1>4, <1>5, <2>1 DEF Semantic!Publish, Semantic!Extends
<1> QED BY <1>6, <1>7, <1>9, <1>10 DEF SemanticInv, SemanticStoreStep

LEMMA SealHolds ==
  ASSUME SemanticInv, SealCache PROVE SemanticInv' /\ SemanticStoreStep
<1>1. /\ gpc = "seal" /\ marker' = [manifest |-> manifest, index |-> index]
      /\ GeneratorEnds /\ UNCHANGED <<head, faults, manifest, packets, index>>
  BY DEF SealCache
<1>2. /\ Len(index) = NFrames /\ manifest \in Manifest /\ index \in Seq(Packet)
      /\ Len(index) <= NFrames
  BY <1>1 DEF SemanticInv, SemanticTypes, GeneratorInv
<1>3. marker' # Absent
  <2>1. index \in Index
    BY <1>2, SequencesAreIndexes
  <2>2. marker' \in Marker
    BY <1>1, <1>2, <2>1 DEF Marker
  <2> QED BY <2>2, SemanticAssumption
<1>4. 1 \in 1 .. NFrames + 1
  BY SemanticAssumption
<1>5. SemanticTypes' /\ GeneratorInv'
  BY <1>1, <1>4 DEF SemanticInv, SemanticTypes, GeneratorInv, GeneratorEnds
<1>6. SemanticFiles'
  BY <1>1, <1>2, SemanticAssumption DEF SemanticInv, SemanticFiles
<1>7. CASE marker = Absent
  <2>1. Semantic!Seal
    BY <1>1, <1>2, <1>3, <1>7 DEF Semantic!Seal
  <2> QED BY <1>5, <1>6, <2>1 DEF SemanticInv, SemanticStoreStep
<1>8. CASE marker # Absent
  BY <1>1, <1>3, <1>5, <1>6, <1>8 DEF SemanticInv, SemanticStoreStep
<1> QED BY <1>7, <1>8

(* The remaining steps of the generator. *)
LEMMA GeneratorHolds ==
  ASSUME SemanticInv, GeneratorStep PROVE SemanticInv' /\ SemanticStoreStep
<1> USE DEF disk
<1>1. NFrames \in Nat \ {0} /\ Len(index) \in Nat
  BY SemanticAssumption, LenProperties DEF SemanticInv, SemanticTypes
<1>2. ASSUME Refuse PROVE SemanticInv' /\ SemanticStoreStep
  <2>1. GeneratorEnds /\ UNCHANGED disk /\ head' \in Commits /\ faults' \in 0 .. MaxFaults
    BY <1>2 DEF Refuse, SemanticInv, SemanticTypes
  <2>2. SemanticInv' /\ UNCHANGED <<index, manifest, marker>>
    BY <2>1, GeneratorEndsHolds
  <2> QED BY <2>2, StoreUnchanged
<1>3. CASE OpenWriter
  <2>1. CASE /\ gpc = "manifest" /\ manifest \in {Absent, job}
             /\ manifest' = job /\ gpc' = "frame"
             /\ UNCHANGED <<head, faults, packets, index, marker, job, frame, packet>>
    <3>1. job \in Manifest /\ job # Absent /\ frame = 1
      BY <2>1, SemanticAssumption DEF SemanticInv, SemanticTypes, GeneratorInv
    <3>2. SemanticTypes' /\ GeneratorInv'
      BY <1>1, <2>1, <3>1 DEF SemanticInv, SemanticTypes, GeneratorInv
    <3>3. SemanticFiles'
      <4>1. CASE manifest = Absent
        <5>1. index' = <<>> /\ marker' = Absent /\ Len(index') = 0
          BY <2>1, <4>1 DEF SemanticInv, SemanticFiles
        <5> QED BY <2>1, <3>1, <5>1 DEF SemanticFiles
      <4>2. CASE manifest = job
        BY <2>1, <3>1, <4>2 DEF SemanticInv, SemanticFiles
      <4> QED BY <2>1, <4>1, <4>2
    <3> QED BY <2>1, <3>2, <3>3, StoreUnchanged DEF SemanticInv
  <2> QED BY <1>2, <1>3, <2>1 DEF OpenWriter
<1>4. CASE CheckFrame
  <2>1. CASE /\ frame > NFrames /\ gpc' = "validate"
             /\ UNCHANGED <<head, faults, disk, job, frame, packet>>
    BY <1>4, <2>1, StoreUnchanged
    DEF CheckFrame, SemanticInv, SemanticTypes, GeneratorInv, SemanticFiles
  <2>2. CASE /\ frame \in 1 .. Len(index) /\ frame' = frame + 1
             /\ UNCHANGED <<head, faults, disk, gpc, job, packet>>
    <3>1. frame' \in 1 .. NFrames + 1 /\ frame' <= Len(index) + 1
      BY <1>1, <2>2 DEF SemanticInv, SemanticTypes
    <3> QED BY <1>4, <2>2, <3>1, StoreUnchanged
            DEF CheckFrame, SemanticInv, SemanticTypes, GeneratorInv, SemanticFiles
  <2>3. CASE /\ frame \in Len(index) + 1 .. NFrames /\ gpc' = "infer"
             /\ UNCHANGED <<head, faults, disk, job, frame, packet>>
    <3>1. frame = Len(index) + 1 /\ frame <= NFrames
      BY <1>1, <1>4, <2>3 DEF CheckFrame, SemanticInv, SemanticTypes, GeneratorInv
    <3> QED BY <1>4, <2>3, <3>1, StoreUnchanged
            DEF CheckFrame, SemanticInv, SemanticTypes, GeneratorInv, SemanticFiles
  <2> QED BY <1>2, <1>4, <2>1, <2>2, <2>3 DEF CheckFrame
<1>5. ASSUME NEW t \in Times, Infer(t) PROVE SemanticInv' /\ SemanticStoreStep
  <2>1. job \in Manifest /\ gpc = "infer" /\ gpc' = "add"
        /\ packet' = [side |-> job.side, time |-> t]
        /\ UNCHANGED <<head, faults, disk, job, frame>>
    BY <1>5 DEF Infer, SemanticInv, SemanticTypes
  <2>2. packet' \in Packet /\ packet'.side = job.side
    BY <2>1 DEF Packet, Manifest
  <2>3. SemanticTypes' /\ SemanticFiles'
    BY <2>1, <2>2 DEF SemanticInv, SemanticTypes, SemanticFiles
  <2>4. GeneratorInv'
    BY <2>1, <2>2 DEF SemanticInv, GeneratorInv
  <2> QED BY <2>1, <2>3, <2>4, StoreUnchanged DEF SemanticInv
<1>6. CASE AddPacket
  <2>1. CASE /\ frame \notin DOMAIN packets /\ packets' = Stored(packets, frame, packet)
             /\ gpc' = "append"
             /\ UNCHANGED <<head, faults, manifest, index, marker, job, frame, packet>>
    <3>1. frame \in Frames /\ packet \in Packet /\ gpc = "add"
      BY <1>1, <1>6 DEF AddPacket, SemanticInv, SemanticTypes, GeneratorInv, Frames
    <3>2. /\ DOMAIN packets' \subseteq Frames
          /\ \A f \in DOMAIN packets' : packets'[f] \in Packet \cup {Damaged}
      BY <2>1, <3>1 DEF Stored, SemanticInv, SemanticTypes
    <3> QED BY <2>1, <3>1, <3>2, StoreUnchanged
            DEF SemanticInv, SemanticTypes, GeneratorInv, SemanticFiles
  <2>2. CASE gpc' = "append" /\ UNCHANGED <<head, faults, disk, job, frame, packet>>
    BY <1>6, <2>2, StoreUnchanged
    DEF AddPacket, SemanticInv, SemanticTypes, GeneratorInv, SemanticFiles
  <2> QED BY <1>2, <1>6, <2>1, <2>2 DEF AddPacket
<1>7. CASE ValidateCache
  <2>1. CASE /\ ValidCache(job) /\ gpc' = "seal"
             /\ UNCHANGED <<head, faults, disk, job, frame, packet>>
    BY <1>7, <2>1, StoreUnchanged
    DEF ValidateCache, ValidCache, SemanticInv, SemanticTypes, GeneratorInv, SemanticFiles
  <2> QED BY <1>2, <1>7, <2>1 DEF ValidateCache
<1> QED BY <1>3, <1>4, <1>5, <1>6, <1>7, SetAsideHolds, AppendHolds, SealHolds
        DEF GeneratorStep

LEMMA SemanticStepHolds ==
  ASSUME SemanticInv, SemanticNext PROVE SemanticInv' /\ SemanticStoreStep
<1>1. CASE StartGenerator
  <2>1. job' \in Manifest /\ 1 \in 1 .. NFrames + 1
    BY <1>1, SemanticAssumption
    DEF StartGenerator, SemanticInv, SemanticTypes, Manifest, Sides
  <2>2. /\ gpc' = "manifest" /\ frame' = 1 /\ packet' = Absent
        /\ UNCHANGED <<head, faults, disk>>
    BY <1>1 DEF StartGenerator
  <2> QED BY <2>1, <2>2, StoreUnchanged
          DEF disk, SemanticInv, SemanticTypes, GeneratorInv, SemanticFiles
<1>2. CASE ExhaustedAgain \/ CrashGenerator
  <2>1. /\ GeneratorEnds /\ UNCHANGED disk /\ head' \in Commits
        /\ faults < MaxFaults /\ faults' = faults + 1
    BY <1>2 DEF ExhaustedAgain, CrashGenerator, SemanticInv, SemanticTypes
  <2>2. faults' \in 0 .. MaxFaults
    BY <2>1, SemanticAssumption DEF SemanticInv, SemanticTypes
  <2>3. SemanticInv' /\ UNCHANGED <<index, manifest, marker>>
    BY <2>1, <2>2, GeneratorEndsHolds
  <2> QED BY <2>3, StoreUnchanged
<1>3. ASSUME NEW c \in Commits, MoveHead(c) PROVE SemanticInv' /\ SemanticStoreStep
  BY <1>3, StoreUnchanged
  DEF MoveHead, disk, process, SemanticInv, SemanticTypes, GeneratorInv, SemanticFiles
<1>4. ASSUME NEW f \in Frames, DamagePacket(f) PROVE SemanticInv' /\ SemanticStoreStep
  <2>1. faults' \in 0 .. MaxFaults
    BY <1>4, SemanticAssumption DEF DamagePacket, SemanticInv, SemanticTypes
  <2>2. /\ packets' = [packets EXCEPT ![f] = Damaged]
        /\ UNCHANGED <<head, manifest, index, marker, process>>
    BY <1>4 DEF DamagePacket
  <2>3. /\ DOMAIN packets' \subseteq Frames
        /\ \A g \in DOMAIN packets' : packets'[g] \in Packet \cup {Damaged}
    BY <2>2 DEF SemanticInv, SemanticTypes
  <2> QED BY <2>1, <2>2, <2>3, StoreUnchanged
          DEF process, SemanticInv, SemanticTypes, GeneratorInv, SemanticFiles
<1> QED BY <1>1, <1>2, <1>3, <1>4, GeneratorHolds DEF SemanticNext

(* A whole index is never changed again, nor is its manifest. *)
LEMMA WholeIndexStays ==
  ASSUME SemanticInv, SemanticNext, Len(index) = NFrames
  PROVE  UNCHANGED <<index, manifest>>
<1>1. /\ NFrames \in Nat \ {0} /\ manifest # Absent
  <2>1. NFrames \in Nat \ {0} /\ Len(<<>>) = 0
    BY SemanticAssumption
  <2> QED BY <2>1 DEF SemanticInv, SemanticFiles
<1>2. gpc \notin {"infer", "append"}
  BY <1>1 DEF SemanticInv, GeneratorInv
<1> QED BY <1>1, <1>2
        DEF SemanticNext, GeneratorStep, StartGenerator, OpenWriter, CheckFrame, Infer,
            SetAsideAtFullSize, AddPacket, AppendIndex, ValidateCache, SealCache, Refuse,
            ExhaustedAgain, CrashGenerator, MoveHead, DamagePacket, disk

-----------------------------------------------------------------------------
(* The types of the dynamic cache. *)
DynamicTypes ==
  /\ dmanifest \in Binding \cup {Absent}
  /\ didentity \in Index \cup {Absent}
  /\ DOMAIN dmaps \subseteq Frames /\ \A f \in DOMAIN dmaps : dmaps[f] \in Index
  /\ dindex \in Seq(Index) /\ Len(dindex) <= NFrames
  /\ dtracks \in Index \cup {Absent}
  /\ dmarker \in DynamicMarker \cup {Absent}
  /\ dpc \in {"idle", "bind", "identity", "frame", "map", "append", "tracks",
              "validate", "seal", "confirm"}
  /\ djob \in Binding \cup {Absent} /\ (dpc # "idle" => djob \in Binding)
  /\ dseen \in Seq(Packet) /\ Len(dseen) <= NFrames

(* The replay is never beyond the first frame without an entry, and runs   *)
(* on a cache that is not complete.                                        *)
ReplayInv ==
  /\ dpc \in {"bind", "identity"} => Len(dseen) = 0
  /\ dpc = "frame" => Len(dseen) <= Len(dindex)
  /\ dpc = "map" => 1 <= Len(dseen) /\ Len(dseen) <= Len(dindex) + 1
  /\ dpc = "append" => Len(dseen) = Len(dindex) + 1
  /\ dpc \in {"frame", "map", "append", "tracks", "validate", "seal"} => dmarker = Absent

Derived ==
  /\ dmanifest # Absent
  /\ dmanifest.manifest = manifest /\ dmanifest.index = index
  /\ Len(index) = NFrames /\ dtracks = index
  /\ Len(dindex) = NFrames /\ \A f \in Frames : dindex[f] = Replay(f)

DynamicFiles ==
  /\ dpc = "seal" => Derived
  /\ dmarker # Absent =>
       /\ Derived
       /\ dmarker = [manifest |-> dmanifest, index |-> dindex, tracks |-> dtracks]

DynamicInv == DynamicTypes /\ ReplayInv /\ DynamicFiles

CachesInv == SemanticInv /\ DynamicInv

LEMMA DynamicInitHolds == DynamicInit => DynamicInv
<1> SUFFICES ASSUME DynamicInit PROVE DynamicInv
  OBVIOUS
<1>1. /\ dindex \in Seq(Index) /\ Len(dindex) = 0 /\ dseen \in Seq(Packet) /\ Len(dseen) = 0
      /\ DOMAIN dmaps = {} /\ NFrames \in Nat \ {0}
  BY EmptySeq, SemanticAssumption DEF DynamicInit
<1> QED BY <1>1 DEF DynamicInit, DynamicInv, DynamicTypes, ReplayInv, DynamicFiles

LEMMA DynamicStoreUnchanged ==
  ASSUME UNCHANGED <<dindex, dmarker>> PROVE DynamicStoreStep
BY DEF DynamicStoreStep

(* What was derived stays so while its inputs do. *)
LEMMA DerivedStays ==
  ASSUME Derived, UNCHANGED <<index, manifest, dmanifest, dindex, dtracks>> PROVE Derived'
BY DEF Derived, Replay

LEMMA DynamicEndsHolds ==
  ASSUME DynamicInv, DynamicRefuses, UNCHANGED <<index, manifest>>
  PROVE  DynamicInv' /\ DynamicStoreStep
<1>1. /\ dpc' = "idle" /\ djob' = Absent /\ dseen' = <<>>
      /\ UNCHANGED <<dmanifest, didentity, dmaps, dindex, dtracks, dmarker>>
  BY DEF DynamicRefuses, DynamicEnds, ddisk
<1>2. dseen' \in Seq(Packet) /\ Len(dseen') <= NFrames
  BY <1>1, EmptySeq, SemanticAssumption
<1>3. dmarker # Absent => Derived'
  BY <1>1, DerivedStays DEF DynamicInv, DynamicFiles
<1>4. DynamicInv'
  BY <1>1, <1>2, <1>3 DEF DynamicInv, DynamicTypes, ReplayInv, DynamicFiles
<1> QED BY <1>1, <1>4, DynamicStoreUnchanged

(* The generator of the semantic cache may go on under a dynamic cache.    *)
LEMMA SemanticLeavesDynamic ==
  ASSUME CachesInv, SemanticNext, UNCHANGED dynamicVars
  PROVE  DynamicInv' /\ DynamicStoreStep
<1>1. UNCHANGED <<dmanifest, didentity, dmaps, dindex, dtracks, dmarker, dpc, djob, dseen>>
  BY DEF dynamicVars, ddisk, dprocess
<1>2. Derived => Derived'
  <2> SUFFICES ASSUME Derived PROVE Derived'
    OBVIOUS
  <2>1. UNCHANGED <<index, manifest>>
    BY WholeIndexStays DEF Derived, CachesInv
  <2> QED BY <1>1, <2>1, DerivedStays
<1>3. DynamicInv'
  BY <1>1, <1>2 DEF CachesInv, DynamicInv, DynamicTypes, ReplayInv, DynamicFiles
<1> QED BY <1>1, <1>3, DynamicStoreUnchanged

(* The steps of the tool that leave the log and the seal alone. *)
LEMMA DynamicFilesStay ==
  ASSUME DynamicInv, DynamicTypes', ReplayInv', dpc' # "seal",
         dmarker # Absent => UNCHANGED <<dmanifest, dtracks>>,
         UNCHANGED <<index, manifest, dindex, dmarker>>
  PROVE  DynamicInv' /\ DynamicStoreStep
<1>1. dmarker # Absent => Derived'
  BY DerivedStays DEF DynamicInv, DynamicFiles
<1>2. DynamicFiles'
  BY <1>1 DEF DynamicInv, DynamicFiles
<1> QED BY <1>2, DynamicStoreUnchanged DEF DynamicInv

LEMMA BuildJobHolds ==
  ASSUME CachesInv, BuildDynamicJob, UNCHANGED semanticVars
  PROVE  DynamicInv' /\ DynamicStoreStep
<1>1. /\ manifest # Absent /\ djob' = [commit |-> head, manifest |-> manifest, index |-> index]
      /\ dpc' = "bind" /\ dseen' = <<>>
      /\ UNCHANGED <<dmanifest, didentity, dmaps, dindex, dtracks, dmarker>>
      /\ UNCHANGED <<index, manifest>>
  BY DEF BuildDynamicJob, SemanticIsValid, ddisk, semanticVars, disk
<1>2. djob' \in Binding
  <2>1. index \in Index /\ manifest \in Manifest /\ head \in Commits
    BY <1>1, SequencesAreIndexes DEF CachesInv, SemanticInv, SemanticTypes
  <2> QED BY <1>1, <2>1 DEF Binding
<1>3. dseen' \in Seq(Packet) /\ Len(dseen') = 0 /\ NFrames \in Nat
  BY <1>1, EmptySeq, SemanticAssumption
<1>4. DynamicTypes' /\ ReplayInv'
  BY <1>1, <1>2, <1>3 DEF CachesInv, DynamicInv, DynamicTypes, ReplayInv
<1> QED BY <1>1, <1>4, DynamicFilesStay DEF CachesInv

LEMMA BindHolds ==
  ASSUME CachesInv, BindManifest \/ BindIdentity, UNCHANGED semanticVars
  PROVE  DynamicInv' /\ DynamicStoreStep
<1> USE DEF CachesInv
<1>1. UNCHANGED <<index, manifest>>
  BY DEF semanticVars, disk
<1>2. DynamicRefuses => DynamicInv' /\ DynamicStoreStep
  BY <1>1, DynamicEndsHolds
<1>3. CASE /\ dpc = "bind" /\ InputsAreBound /\ dmanifest \in {Absent, djob}
           /\ dmanifest' = djob /\ dpc' = "identity"
           /\ UNCHANGED <<didentity, dmaps, dindex, dtracks, dmarker, djob, dseen>>
  <2>1. DynamicTypes' /\ ReplayInv'
    BY <1>3 DEF DynamicInv, DynamicTypes, ReplayInv
  <2>2. dmarker # Absent => dmanifest' = dmanifest
    BY <1>3 DEF DynamicInv, DynamicFiles, Derived
  <2> QED BY <1>1, <1>3, <2>1, <2>2, DynamicFilesStay
<1>4. CASE /\ dpc = "identity" /\ didentity' = djob.index
           /\ dpc' = IF dmarker = Absent THEN "frame" ELSE "confirm"
           /\ UNCHANGED <<dmanifest, dmaps, dindex, dtracks, dmarker, djob, dseen>>
  <2>1. djob.index \in Index
    BY <1>4 DEF DynamicInv, DynamicTypes, Binding
  <2>2. Len(dindex) \in Nat /\ Len(dseen) = 0
    BY <1>4, LenProperties DEF DynamicInv, DynamicTypes, ReplayInv
  <2>3. DynamicTypes' /\ ReplayInv'
    BY <1>4, <2>1, <2>2 DEF DynamicInv, DynamicTypes, ReplayInv
  <2> QED BY <1>1, <1>4, <2>3, DynamicFilesStay
<1> QED BY <1>2, <1>3, <1>4 DEF BindManifest, BindIdentity

LEMMA ReadHolds ==
  ASSUME CachesInv, ReadPacket, UNCHANGED semanticVars
  PROVE  DynamicInv' /\ DynamicStoreStep
<1>1. UNCHANGED <<index, manifest>>
  BY DEF semanticVars, disk
<1>2. DynamicRefuses => DynamicInv' /\ DynamicStoreStep
  BY <1>1, DynamicEndsHolds DEF CachesInv
<1>3. /\ Len(dseen) \in Nat /\ Len(dindex) \in Nat /\ NFrames \in Nat /\ dpc = "frame"
      /\ dseen \in Seq(Packet) /\ Len(dseen) <= NFrames
  BY LenProperties, SemanticAssumption DEF CachesInv, DynamicInv, DynamicTypes, ReadPacket
<1>4. CASE dpc' = "tracks" /\ UNCHANGED <<ddisk, djob, dseen>>
  <2>1. DynamicTypes' /\ ReplayInv'
    BY <1>3, <1>4 DEF CachesInv, DynamicInv, DynamicTypes, ReplayInv, ddisk
  <2> QED BY <1>1, <1>4, <2>1, DynamicFilesStay DEF CachesInv, ddisk
<1>5. CASE /\ At < NFrames /\ At + 1 \in DOMAIN packets /\ packets[At + 1] # Damaged
           /\ dseen' = Append(dseen, packets[At + 1]) /\ dpc' = "map"
           /\ UNCHANGED <<ddisk, djob>>
  <2>1. packets[At + 1] \in Packet
    BY <1>5 DEF CachesInv, SemanticInv, SemanticTypes
  <2>2. dseen' \in Seq(Packet) /\ Len(dseen') = Len(dseen) + 1
    BY <1>3, <1>5, <2>1, AppendProperties
  <2>3. Len(dseen) < NFrames /\ Len(dseen) <= Len(dindex)
    BY <1>3, <1>5 DEF At, CachesInv, DynamicInv, ReplayInv
  <2>4. DynamicTypes' /\ ReplayInv'
    BY <1>3, <1>5, <2>2, <2>3 DEF CachesInv, DynamicInv, DynamicTypes, ReplayInv, ddisk
  <2> QED BY <1>1, <1>5, <2>4, DynamicFilesStay DEF CachesInv, ddisk
<1> QED BY <1>2, <1>4, <1>5 DEF ReadPacket

LEMMA MapHolds ==
  ASSUME CachesInv, WriteMap, UNCHANGED semanticVars
  PROVE  DynamicInv' /\ DynamicStoreStep
<1>1. UNCHANGED <<index, manifest>>
  BY DEF semanticVars, disk
<1>2. DynamicRefuses => DynamicInv' /\ DynamicStoreStep
  BY <1>1, DynamicEndsHolds DEF CachesInv
<1>3. /\ Len(dseen) \in Nat /\ Len(dindex) \in Nat /\ NFrames \in Nat /\ dpc = "map"
      /\ dseen \in Seq(Packet) /\ Len(dseen) <= NFrames
      /\ 1 <= Len(dseen) /\ Len(dseen) <= Len(dindex) + 1
  BY LenProperties, SemanticAssumption
  DEF CachesInv, DynamicInv, DynamicTypes, ReplayInv, WriteMap
<1>4. CASE At <= Len(dindex) /\ dpc' = "frame" /\ UNCHANGED <<ddisk, djob, dseen>>
  <2>1. DynamicTypes' /\ ReplayInv'
    BY <1>3, <1>4 DEF CachesInv, DynamicInv, DynamicTypes, ReplayInv, ddisk, At
  <2> QED BY <1>1, <1>4, <2>1, DynamicFilesStay DEF CachesInv, ddisk
<1>5. CASE /\ At > Len(dindex) /\ dmaps' = Stored(dmaps, At, dseen) /\ dpc' = "append"
           /\ UNCHANGED <<dmanifest, didentity, dindex, dtracks, dmarker, djob, dseen>>
  <2>1. dseen \in Index
    BY <1>3, SequencesAreIndexes
  <2>2. At \in Frames /\ Len(dseen) = Len(dindex) + 1
    BY <1>3, <1>5 DEF At, Frames
  <2>3. DOMAIN dmaps' \subseteq Frames /\ \A f \in DOMAIN dmaps' : dmaps'[f] \in Index
    BY <1>5, <2>1, <2>2 DEF Stored, CachesInv, DynamicInv, DynamicTypes
  <2>4. DynamicTypes' /\ ReplayInv'
    BY <1>3, <1>5, <2>2, <2>3 DEF CachesInv, DynamicInv, DynamicTypes, ReplayInv
  <2> QED BY <1>1, <1>5, <2>4, DynamicFilesStay DEF CachesInv
<1> QED BY <1>2, <1>4, <1>5 DEF WriteMap

LEMMA AppendMapHolds ==
  ASSUME CachesInv, AppendMap, UNCHANGED semanticVars
  PROVE  DynamicInv' /\ DynamicStoreStep
<1>1. /\ UNCHANGED <<index, manifest>> /\ dpc = "append" /\ dpc' = "frame"
      /\ dindex' = Append(dindex, dseen)
      /\ UNCHANGED <<dmanifest, didentity, dmaps, dtracks, dmarker, djob, dseen>>
  BY DEF AppendMap, semanticVars, disk
<1>2. /\ dindex \in Seq(Index) /\ Len(dseen) = Len(dindex) + 1 /\ dmarker = Absent
      /\ dseen \in Seq(Packet) /\ Len(dseen) <= NFrames /\ NFrames \in Nat
  BY <1>1, SemanticAssumption DEF CachesInv, DynamicInv, DynamicTypes, ReplayInv
<1>3. dseen \in Index /\ Len(dindex) \in Nat
  BY <1>2, SequencesAreIndexes, LenProperties
<1>4. /\ dindex' \in Seq(Index) /\ Len(dindex') = Len(dindex) + 1
      /\ \A i \in 1 .. Len(dindex) : dindex'[i] = dindex[i]
  BY <1>1, <1>2, <1>3, AppendProperties
<1>5. DynamicTypes' /\ ReplayInv'
  BY <1>1, <1>2, <1>3, <1>4 DEF CachesInv, DynamicInv, DynamicTypes, ReplayInv
<1>6. DynamicFiles'
  BY <1>1, <1>2 DEF DynamicFiles
<1>7. Dynamic!Publish
  <2>1. Len(dindex) < NFrames
    BY <1>2, <1>3
  <2> QED BY <1>1, <1>2, <1>4, <2>1 DEF Dynamic!Publish, Dynamic!Extends
<1> QED BY <1>5, <1>6, <1>7 DEF DynamicInv, DynamicStoreStep

LEMMA FinishHolds ==
  ASSUME CachesInv, WriteTracks \/ ValidateDynamic \/ SealDynamic \/ ConfirmDynamic,
         UNCHANGED semanticVars
  PROVE  DynamicInv' /\ DynamicStoreStep
<1>1. UNCHANGED <<index, manifest>>
  BY DEF semanticVars, disk
<1>2. DynamicRefuses => DynamicInv' /\ DynamicStoreStep
  BY <1>1, DynamicEndsHolds DEF CachesInv
<1>3. CASE WriteTracks
  <2>1. /\ dpc = "tracks" /\ dtracks' = dseen /\ dpc' = "validate"
        /\ UNCHANGED <<dmanifest, didentity, dmaps, dindex, dmarker, djob, dseen>>
    BY <1>3 DEF WriteTracks
  <2>2. dseen \in Index /\ dmarker = Absent
    BY <2>1, SequencesAreIndexes DEF CachesInv, DynamicInv, DynamicTypes, ReplayInv
  <2>3. DynamicTypes' /\ ReplayInv'
    BY <2>1, <2>2 DEF CachesInv, DynamicInv, DynamicTypes, ReplayInv
  <2> QED BY <1>1, <2>1, <2>2, <2>3, DynamicFilesStay DEF CachesInv
<1>4. CASE dpc = "validate" /\ DynamicValid /\ dpc' = "seal" /\ UNCHANGED <<ddisk, djob, dseen>>
  <2>1. UNCHANGED <<dmanifest, didentity, dmaps, dindex, dtracks, dmarker, djob, dseen>>
    BY <1>4 DEF ddisk
  <2>2. DynamicTypes' /\ ReplayInv'
    BY <1>4, <2>1 DEF CachesInv, DynamicInv, DynamicTypes, ReplayInv
  <2>3. Derived
    <3>1. djob \in Binding /\ djob # Absent
      BY <1>4, DynamicAssumption DEF CachesInv, DynamicInv, DynamicTypes
    <3>2. /\ djob.manifest = manifest /\ djob.index = index /\ dmanifest = djob
          /\ Len(index) = NFrames /\ Len(dindex) = NFrames /\ dtracks = index
          /\ \A f \in Frames : dindex[f] = Replay(f)
      BY <1>4 DEF DynamicValid, InputsAreBound, SemanticIsValid, ValidCache
    <3> QED BY <3>1, <3>2 DEF Derived
  <2>4. Derived'
    BY <1>1, <2>1, <2>3, DerivedStays
  <2>5. DynamicFiles'
    BY <1>4, <2>1, <2>4 DEF CachesInv, DynamicInv, DynamicFiles
  <2> QED BY <2>1, <2>2, <2>5, DynamicStoreUnchanged DEF DynamicInv
<1>5. CASE SealDynamic
  <2>1. /\ dpc = "seal" /\ dpc' = "confirm"
        /\ dmarker' = [manifest |-> dmanifest, index |-> dindex, tracks |-> dtracks]
        /\ UNCHANGED <<dmanifest, didentity, dmaps, dindex, dtracks, djob, dseen>>
    BY <1>5 DEF SealDynamic
  <2>2. Derived /\ dmarker = Absent
    BY <2>1 DEF CachesInv, DynamicInv, DynamicFiles, ReplayInv
  <2>3. dmarker' \in DynamicMarker
    <3>1. dmanifest \in Binding /\ dindex \in Seq(Index)
      BY <2>2 DEF Derived, CachesInv, DynamicInv, DynamicTypes
    <3>2. dtracks \in Index
      BY <2>2, SequencesAreIndexes DEF Derived, CachesInv, SemanticInv, SemanticTypes
    <3> QED BY <2>1, <3>1, <3>2 DEF DynamicMarker
  <2>4. dmarker' # Absent
    BY <2>3, DynamicAssumption
  <2>5. DynamicTypes' /\ ReplayInv'
    BY <2>1, <2>3 DEF CachesInv, DynamicInv, DynamicTypes, ReplayInv
  <2>6. Derived'
    BY <1>1, <2>1, <2>2, DerivedStays
  <2>7. DynamicFiles'
    BY <2>1, <2>6 DEF DynamicFiles
  <2>8. Dynamic!Seal
    BY <2>1, <2>2, <2>4 DEF Derived, Dynamic!Seal
  <2> QED BY <2>5, <2>7, <2>8 DEF DynamicInv, DynamicStoreStep
<1> QED BY <1>2, <1>3, <1>4, <1>5 DEF ValidateDynamic, ConfirmDynamic

-----------------------------------------------------------------------------
LEMMA CachesStepHolds ==
  ASSUME CachesInv, [CachesNext]_cacheVars
  PROVE  CachesInv' /\ SemanticStoreStep /\ DynamicStoreStep
<1>1. CASE SemanticNext /\ UNCHANGED dynamicVars
  BY <1>1, SemanticStepHolds, SemanticLeavesDynamic DEF CachesInv
<1>2. ASSUME UNCHANGED semanticVars PROVE SemanticInv' /\ SemanticStoreStep
  BY <1>2, StoreUnchanged
  DEF semanticVars, disk, process, CachesInv, SemanticInv, SemanticTypes, GeneratorInv,
      SemanticFiles
<1>3. CASE (BuildDynamicJob \/ DynamicStep) /\ UNCHANGED semanticVars
  BY <1>2, <1>3, BuildJobHolds, BindHolds, ReadHolds, MapHolds, AppendMapHolds,
     FinishHolds DEF DynamicStep, CachesInv
<1>4. CASE CrashDynamic
  <2>1. /\ UNCHANGED <<head, manifest, packets, index, marker, gpc, job, frame, packet>>
        /\ faults < MaxFaults /\ faults' = faults + 1 /\ DynamicRefuses
    BY <1>4 DEF CrashDynamic, disk, process
  <2>2. faults' \in 0 .. MaxFaults
    BY <2>1, SemanticAssumption DEF CachesInv, SemanticInv, SemanticTypes
  <2>3. SemanticInv' /\ SemanticStoreStep
    BY <2>1, <2>2, StoreUnchanged
    DEF CachesInv, SemanticInv, SemanticTypes, GeneratorInv, SemanticFiles
  <2> QED BY <2>1, <2>3, DynamicEndsHolds DEF CachesInv
<1>5. CASE UNCHANGED cacheVars
  <2>1. /\ UNCHANGED semanticVars
        /\ UNCHANGED <<dmanifest, didentity, dmaps, dindex, dtracks, dmarker, dpc, djob, dseen>>
    BY <1>5 DEF cacheVars, dynamicVars, ddisk, dprocess
  <2>2. UNCHANGED <<index, manifest>>
    BY <2>1 DEF semanticVars, disk
  <2>3. Derived => Derived'
    BY <2>1, <2>2, DerivedStays
  <2>4. DynamicInv'
    BY <2>1, <2>3 DEF CachesInv, DynamicInv, DynamicTypes, ReplayInv, DynamicFiles
  <2> QED BY <1>2, <2>1, <2>4, DynamicStoreUnchanged DEF CachesInv
<1> QED BY <1>1, <1>3, <1>4, <1>5 DEF CachesNext

(***************************************************************************)
(* The inductive invariant of both caches, with both tools at work, killed *)
(* and started again, commits changing and packets damaged (cache.py,      *)
(* dynamic_cache.py).                                                      *)
(***************************************************************************)
THEOREM CachesInvariant == CachesSpec => []CachesInv
<1>1. CachesInit => CachesInv
  BY SemanticInitHolds, DynamicInitHolds DEF CachesInit, CachesInv
<1>2. CachesInv /\ [CachesNext]_cacheVars => CachesInv'
  BY CachesStepHolds
<1> QED BY <1>1, <1>2, PTL DEF CachesSpec

(* Both caches and both tools keep their types (cache.py, dynamic_cache.py).*)
THEOREM CachesTypes == CachesSpec => []CachesTypeOK
<1>1. CachesInv => CachesTypeOK
  <2> SUFFICES ASSUME CachesInv PROVE CachesTypeOK
    OBVIOUS
  <2>1. index \in Index /\ dseen \in Index
    BY SequencesAreIndexes
    DEF CachesInv, SemanticInv, SemanticTypes, DynamicInv, DynamicTypes
  <2>2. marker # Absent => marker \in Marker
    BY <2>1 DEF CachesInv, SemanticInv, SemanticTypes, SemanticFiles, Marker
  <2>3. /\ gpc # "idle" => job # Absent
        /\ gpc \in {"add", "append"} => packet # Absent
    BY SemanticAssumption DEF CachesInv, SemanticInv, SemanticTypes, GeneratorInv
  <2>4. SemanticTypeOK
    BY <2>1, <2>2, <2>3 DEF CachesInv, SemanticInv, SemanticTypes, SemanticTypeOK
  <2>5. /\ Len(dindex) \in 0 .. NFrames
        /\ \A f \in 1 .. Len(dindex) : dindex[f] \in Index
    <3>1. dindex \in Seq(Index) /\ Len(dindex) <= NFrames
      BY DEF CachesInv, DynamicInv, DynamicTypes
    <3>2. Len(dindex) \in Nat /\ NFrames \in Nat
      BY <3>1, LenProperties, SemanticAssumption
    <3> QED BY <3>1, <3>2, ElementOfSeq
  <2>6. dpc # "idle" => djob # Absent
    BY DynamicAssumption DEF CachesInv, DynamicInv, DynamicTypes
  <2>7. DynamicTypeOK
    BY <2>1, <2>5, <2>6 DEF CachesInv, DynamicInv, DynamicTypes, DynamicTypeOK
  <2> QED BY <2>4, <2>7 DEF CachesTypeOK
<1> QED BY <1>1, CachesInvariant, PTL

(* A semantic cache that says it is complete is whole, and of one          *)
(* resolution (cache.py:92, generate_cache.py:160).                        *)
THEOREM SealedCachesAreWhole == CachesSpec => []SealedIsWhole
<1>1. CachesInv => SealedIsWhole
  BY DEF CachesInv, SemanticInv, SemanticFiles, SealedIsWhole, Frames
<1> QED BY <1>1, CachesInvariant, PTL

(* A complete dynamic cache is derived from the semantic index and         *)
(* manifest that are there (dynamic_cache.py:532).                         *)
THEOREM DynamicCachesAreDerived == CachesSpec => []DynamicIsDerived
<1>1. CachesInv => DynamicIsDerived
  BY DEF CachesInv, DynamicInv, DynamicFiles, Derived, DynamicIsDerived
<1> QED BY <1>1, CachesInvariant, PTL

(***************************************************************************)
(* Both caches implement the sealed store: every step of a tool, a crash,  *)
(* damage or a move of HEAD publishes the next frame, seals the whole log, *)
(* sets an unsealed semantic cache aside, or is invisible (cache.py:60,    *)
(* dynamic_cache.py:563).                                                  *)
(***************************************************************************)
THEOREM CachesImplementStores == CachesSpec => CachesAreSealedStores
<1>1. CachesInit => Semantic!StoreInit /\ Dynamic!StoreInit
  BY DEF CachesInit, SemanticInit, DynamicInit, Semantic!StoreInit, Dynamic!StoreInit
<1>2. CachesInv /\ [CachesNext]_cacheVars => SemanticStoreStep /\ DynamicStoreStep
  BY CachesStepHolds
<1>3. CachesInv /\ [CachesNext]_cacheVars =>
        /\ [Semantic!Publish \/ Semantic!Seal \/ Semantic!SetAside]_<<index, marker # Absent>>
        /\ [Dynamic!Publish \/ Dynamic!Seal \/ Dynamic!SetAside]_<<dindex, dmarker # Absent>>
  BY <1>2 DEF SemanticStoreStep, DynamicStoreStep
<1> QED BY <1>1, <1>3, CachesInvariant, PTL
        DEF CachesSpec, CachesAreSealedStores, Semantic!StoreSpec, Dynamic!StoreSpec
=============================================================================
