---------------------------- MODULE SealedStore ----------------------------
(***************************************************************************)
(* What a cache of this repository promises its readers, whatever happens  *)
(* to the process that fills it: a log of published frames that only       *)
(* grows, and a seal that is set once, over the whole log, and that        *)
(* nothing breaks.  A store that is not sealed may be set aside and begun  *)
(* again where the code does so (MaySetAside).                             *)
(*                                                                         *)
(* cache_index.jsonl is the log, cache_complete.json the seal.             *)
(***************************************************************************)
EXTENDS Naturals, Sequences

CONSTANTS
  Total,          (* the frames of the sequence                             *)
  MaySetAside     (* whether an unsealed store may be started again         *)

VARIABLES log, sealed

StoreInit == log = <<>> /\ sealed = FALSE

Extends(longer, shorter) ==
  /\ Len(longer) = Len(shorter) + 1
  /\ \A i \in 1 .. Len(shorter) : longer[i] = shorter[i]

Publish == ~sealed /\ Len(log) < Total /\ Extends(log', log) /\ UNCHANGED sealed

Seal == ~sealed /\ Len(log) = Total /\ sealed' = TRUE /\ UNCHANGED log

SetAside == MaySetAside /\ ~sealed /\ log' = <<>> /\ UNCHANGED sealed

StoreSpec == StoreInit /\ [][Publish \/ Seal \/ SetAside]_<<log, sealed>>
=============================================================================
