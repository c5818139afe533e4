----------------------------- MODULE RunAttempt -----------------------------
(***************************************************************************)
(* One condition of an experiment run by tools/run_orb_tum.py              *)
(* (run_ov_condition): the attempt directories of the condition, their     *)
(* run_manifest.json, and the registry the manifests are appended to.  The *)
(* program is started again after a crash and looks at the attempts it     *)
(* finds.                                                                  *)
(*                                                                         *)
(* The files an attempt depends on (executable, vocabulary, settings, and  *)
(* for a run outside the study the commit) are one value, inputs, which    *)
(* may change at any time; the registration identity of an attempt is the  *)
(* value they had when it began, the rest of the identity is a function of *)
(* the condition.  Datasets and completed caches do not change.            *)
(***************************************************************************)
EXTENDS Naturals, Sequences

CONSTANTS
  Conditions,    (* sequence, mode and seed of the runs, in order           *)
  Inputs,        (* versions of the files an attempt depends on             *)
  MaxAttempts,   (* bound on the attempts of a condition                    *)
  MaxFaults,     (* bound on crashes, failures, damage and changes of files *)
  None           (* no file, no value                                       *)

States == {"REGISTERED", "RUNNING", "COMPLETED", "FAILED"}

(* metric: whether the study has entered its metric in the manifest. *)
Manifest == [state : States, inputs : Inputs, metric : BOOLEAN]

ASSUME RunAssumption ==
  /\ Conditions \subseteq Nat /\ MaxAttempts \in Nat /\ MaxFaults \in Nat
  /\ Inputs # {} /\ None \notin Manifest \cup Inputs

(***************************************************************************)
(* The files the process wrote: whole and valid, valid but of no use for a *)
(* metric (too few poses), or later damaged.  logged is the state in the   *)
(* last row of the attempt in the registry; began and ran are histories:   *)
(* the inputs when the attempt began and when the process was launched.    *)
(***************************************************************************)
Artifacts == {"none", "whole", "unusable", "damaged"}
Attempt == [ manifest  : Manifest \cup {None},
             artifacts : Artifacts,
             logged    : States \cup {None},
             began     : Inputs,
             ran       : Inputs \cup {None} ]

VARIABLES
  inputs,     (* the version of the files now                               *)
  faults,     (* faults so far                                              *)
  attempts,   (* attempts[c][n]: directory attempt-n of condition c         *)
  torn,       (* whether a row of the registry is incomplete                *)
  rpc,        (* what run_ov_condition does next                            *)
  target,     (* the condition it runs                                      *)
  current,    (* the attempt it runs or has found                           *)
  captured,   (* the inputs it has hashed                                   *)
  stage       (* the state it writes next                                   *)

runVars == <<attempts, torn, rpc, target, current, captured, stage>>
environmentVars == <<inputs, faults>>

RunTypeOK ==
  /\ inputs \in Inputs /\ faults \in 0 .. MaxFaults
  /\ DOMAIN attempts = Conditions
  /\ \A c \in Conditions :
       /\ Len(attempts[c]) \in 0 .. MaxAttempts
       /\ \A n \in 1 .. Len(attempts[c]) : attempts[c][n] \in Attempt
  /\ torn \in BOOLEAN
  /\ rpc \in {"idle", "write", "log", "process", "returned"}
  /\ rpc # "idle" =>
       target \in Conditions /\ current \in 1 .. Len(attempts[target])
  /\ captured \in Inputs \cup {None} /\ stage \in States \cup {None}

(* The versions are interchangeable: it begins at one of them. *)
RunInit ==
  /\ inputs = (CHOOSE version \in Inputs : TRUE) /\ faults = 0
  /\ attempts = [c \in Conditions |-> <<>>] /\ torn = FALSE
  /\ rpc = "idle" /\ target = None /\ current = None
  /\ captured = None /\ stage = None

RunnerEnds ==
  /\ rpc' = "idle" /\ target' = None /\ current' = None
  /\ captured' = None /\ stage' = None

With(c, n, attempt) == [attempts EXCEPT ![c][n] = attempt]

(* The telemetry and the trajectory are complete and hash to what the       *)
(* manifest says; whether a metric can be had from them is not looked at.  *)
Intact(artifacts) == artifacts \in {"whole", "unusable"}

(* _completed_ov_attempt: complete, of the same identity, and intact. *)
CompletedAttempt(attempt, version) ==
  /\ attempt.manifest # None
  /\ attempt.manifest.state = "COMPLETED" /\ attempt.manifest.inputs = version
  /\ Intact(attempt.artifacts)

Found(c, version) ==
  {n \in 1 .. Len(attempts[c]) : CompletedAttempt(attempts[c][n], version)}

(* Mutant: the identity is not entered in the manifest. *)
IdentityOmitted(version) == None

(* Mutant: the identity is what was once configured. *)
IdentityConfigured(version) == CHOOSE configured \in Inputs : TRUE

(* The identity that is hashed when a condition begins. *)
IdentityOf(version) == version

(* The first completed attempt is returned, or a new directory is made.    *)
(* The executable is hashed at run_orb_tum.py:708, the vocabulary and the  *)
(* settings at 732-733 for the search and once more at 772-773 for a new   *)
(* manifest: one step here, as all of them are one value.  A change in     *)
(* between is, like one before the launch, not noticed by the code.        *)
BeginCondition(c) ==
  /\ rpc = "idle"
  /\ target' = c /\ captured' = IdentityOf(inputs)
  /\ LET found == Found(c, captured')
     IN  \/ /\ found # {} /\ rpc' = "returned" /\ stage' = "COMPLETED"
            /\ current' \in {n \in found : \A m \in found : n <= m}
            /\ UNCHANGED <<attempts, torn>>
         \/ /\ found = {} /\ Len(attempts[c]) < MaxAttempts
            /\ attempts' = [attempts EXCEPT ![c] = Append(@,
                 [ manifest |-> None, artifacts |-> "none", logged |-> None,
                   began |-> inputs, ran |-> None ])]
            /\ current' = Len(attempts[c]) + 1
            /\ rpc' = "write" /\ stage' = "REGISTERED" /\ UNCHANGED torn
  /\ UNCHANGED environmentVars

This == attempts[target][current]

(* The manifest of the next state, put in place by an atomic rename. *)
WriteManifest ==
  /\ rpc = "write"
  /\ attempts' = With(target, current,
       [This EXCEPT !.manifest =
          [state |-> stage, inputs |-> captured, metric |-> FALSE]])
  /\ rpc' = "log"
  /\ UNCHANGED <<torn, target, current, captured, stage, environmentVars>>

(* Then the same manifest as a row of the registry. *)
LogManifest ==
  /\ rpc = "log"
  /\ attempts' = With(target, current, [This EXCEPT !.logged = stage])
  /\ \/ stage = "REGISTERED" /\ stage' = "RUNNING" /\ rpc' = "write"
     \/ stage = "RUNNING" /\ rpc' = "process" /\ UNCHANGED stage
     \/ stage \in {"COMPLETED", "FAILED"} /\ rpc' = "returned" /\ UNCHANGED stage
  /\ UNCHANGED <<torn, target, current, captured, environmentVars>>

(***************************************************************************)
(* The SLAM process runs and its files are validated.  A process that      *)
(* cannot be launched, exits with an error or leaves invalid files makes   *)
(* the attempt FAILED.                                                     *)
(***************************************************************************)
RunProcess(artifacts) ==
  /\ rpc = "process" /\ artifacts # "damaged"
  /\ artifacts # "whole" => faults < MaxFaults
  /\ faults' = IF artifacts = "whole" THEN faults ELSE faults + 1
  /\ attempts' = With(target, current,
                      [This EXCEPT !.artifacts = artifacts, !.ran = inputs])
  /\ stage' = IF Intact(artifacts) THEN "COMPLETED" ELSE "FAILED"
  /\ rpc' = "write"
  /\ UNCHANGED <<inputs, torn, target, current, captured>>

RunnerStep ==
  \/ WriteManifest \/ LogManifest
  \/ \E artifacts \in Artifacts : RunProcess(artifacts)

(* The program is killed; a row it was appending may be left incomplete. *)
CrashRunner ==
  /\ faults < MaxFaults /\ faults' = faults + 1
  /\ torn' \in {torn, torn \/ rpc = "log"}
  /\ RunnerEnds /\ UNCHANGED <<attempts, inputs>>

(* A file of a completed attempt is damaged. *)
DamageAttempt(c, n) ==
  /\ n \in 1 .. Len(attempts[c])
  /\ attempts[c][n].artifacts = "whole" /\ attempts[c][n].manifest # None
  /\ attempts[c][n].manifest.state = "COMPLETED"
  /\ faults < MaxFaults /\ faults' = faults + 1
  /\ attempts' = With(c, n, [attempts[c][n] EXCEPT !.artifacts = "damaged"])
  /\ UNCHANGED <<torn, rpc, target, current, captured, stage, inputs>>

ChangeInputs(version) ==
  /\ version # inputs /\ faults < MaxFaults
  /\ inputs' = version /\ faults' = faults + 1 /\ UNCHANGED runVars
=============================================================================
