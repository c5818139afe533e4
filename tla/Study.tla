------------------------------- MODULE Study -------------------------------
(***************************************************************************)
(* The pre-registered study (tools/run_study.py, with validate_run_manifest*)
(* and the run matrix of semantic_py/openvocab_slam/experiments.py):       *)
(* --freeze-order writes the order and the registration, --resume goes     *)
(* through the conditions in that order, skips those that have a valid     *)
(* attempt, marks the invalid attempts of the others as failed, runs one   *)
(* and enters its metric.  It is killed and resumed at any point, and the  *)
(* commit and the program files may change while it runs.                  *)
(***************************************************************************)
EXTENDS RunAttempt, FiniteSets

CONSTANT Commits      (* commits the product tree may be at                  *)

Registration == [commit : Commits, inputs : Inputs]
Failure == [original : Manifest \cup {None}]

ASSUME StudyAssumption == Commits # {} /\ None \notin Registration \cup Failure

(***************************************************************************)
(* The files the study adds to an attempt: metric_output.json, the copy of *)
(* the manifest before validation failed, and the failure record with the  *)
(* hash of the manifest it was written for, where there was one.           *)
(***************************************************************************)
Note == [ metric    : BOOLEAN,
          preserved : Manifest \cup {None},
          failure   : Failure \cup {None} ]

VARIABLES
  head,           (* the commit checked out                                  *)
  matrix,         (* whether run_matrix.csv is there                         *)
  registration,   (* study_registration.json, or None                        *)
  notes,          (* notes[c][n]: the files the study added to attempt n     *)
  summary,        (* summary[c]: the attempt of c that analyze_study used, or
                     None                                                    *)
  completed,      (* conditions the resume has found or made valid           *)
  spc,            (* what the study does next                                *)
  at,             (* the attempt under validation                            *)
  back            (* where marking an attempt as failed returns to           *)

studyVars == <<head, matrix, registration, notes, summary, completed, spc, at, back>>
vars == <<environmentVars, runVars, studyVars>>

StudySteps == { "idle", "matrix", "register", "collect", "next", "review",
                "preserve", "record", "fail", "logFailure", "run", "metric",
                "enrich", "confirm", "metricFails" }

StudyTypeOK ==
  /\ RunTypeOK
  /\ head \in Commits /\ matrix \in BOOLEAN
  /\ registration \in Registration \cup {None}
  /\ DOMAIN notes = Conditions
  /\ \A c \in Conditions : /\ Len(notes[c]) = Len(attempts[c])
                           /\ \A n \in 1 .. Len(notes[c]) : notes[c][n] \in Note
  /\ summary = None \/ summary \in [Conditions -> 1 .. MaxAttempts]
  /\ completed \subseteq Conditions
  /\ spc \in StudySteps /\ (spc \notin {"idle", "matrix", "register"} => registration # None)
  /\ at \in 0 .. MaxAttempts + 1 /\ back \in {"review", "idle"}

StudyInit ==
  /\ RunInit /\ head = (CHOOSE commit \in Commits : TRUE) /\ matrix = FALSE
  /\ registration = None
  /\ notes = [c \in Conditions |-> <<>>] /\ summary = None /\ completed = {}
  /\ spc = "idle" /\ at = 0 /\ back = "idle"

(* The program ends; what it had in memory is lost. *)
StudyEnds == spc' = "idle" /\ completed' = {} /\ at' = 0 /\ back' = "idle"

UnchangedDisk == UNCHANGED <<head, matrix, registration, notes, summary>>
UnchangedRuns == UNCHANGED <<environmentVars, runVars>>

-----------------------------------------------------------------------------
(* freeze_and_register. *)
Current == registration = [commit |-> head, inputs |-> inputs]

AttemptsExist == \E c \in Conditions : attempts[c] # <<>>

StartFreeze ==
  /\ spc = "idle" /\ registration = None /\ ~AttemptsExist
  /\ spc' = "matrix" /\ UNCHANGED <<completed, at, back>> /\ UnchangedDisk
  /\ UnchangedRuns

(* freeze_run_matrix: the order is a constant of the protocol. *)
FreezeMatrix ==
  /\ spc = "matrix" /\ matrix' = TRUE /\ spc' = "register"
  /\ UNCHANGED <<head, registration, notes, summary, completed, at, back>>
  /\ UnchangedRuns

(* build_registration; the row of the registry has no reader. *)
Register ==
  /\ spc = "register"
  /\ registration' = [commit |-> head, inputs |-> inputs]
  /\ StudyEnds /\ UNCHANGED <<head, matrix, notes, summary>> /\ UnchangedRuns

-----------------------------------------------------------------------------
(***************************************************************************)
(* compute_trajectory_metrics: whether the files of an attempt yield a     *)
(* metric.  It takes three poses that are matched with the ground truth    *)
(* and a pair of them a second apart; of a damaged file nothing is known.  *)
(***************************************************************************)
Measures(artifacts) ==
  {measured \in BOOLEAN : /\ artifacts = "whole" => measured
                          /\ artifacts \in {"none", "unusable"} => ~measured}

(* validate_attempt_registration_identity: the identity in the manifest is *)
(* the one that follows from the registration and the condition.           *)
IsRegistered(c, n) ==
  /\ attempts[c][n].manifest # None
  /\ attempts[c][n].manifest.inputs = registration.inputs

(* validate_run_manifest, of the manifest with the metric entered. *)
Accepted(manifest) ==
  manifest.state = "COMPLETED" /\ manifest.inputs = registration.inputs

(***************************************************************************)
(* validate_attempt: a completed attempt of the registered identity, with  *)
(* intact artifacts and a metric file that replays.  Whether the manifest  *)
(* has the metric is not looked at: it is entered in a copy.               *)
(***************************************************************************)
(* Mutant: the metric must have reached the manifest. *)
ValidEnriched(c, n) ==
  /\ IsRegistered(c, n) /\ CompletedAttempt(attempts[c][n], registration.inputs)
  /\ attempts[c][n].manifest.metric /\ Measures(attempts[c][n].artifacts) = {TRUE}
  /\ Accepted(attempts[c][n].manifest)

Valid(c, n) ==
  /\ IsRegistered(c, n) /\ CompletedAttempt(attempts[c][n], registration.inputs)
  /\ notes[c][n].metric /\ Measures(attempts[c][n].artifacts) = {TRUE}
  /\ Accepted(attempts[c][n].manifest)

ValidOnes(c) == {n \in 1 .. Len(attempts[c]) : Valid(c, n)}

(* execute_registered: validate_registration_current, once. *)
StartResume ==
  /\ spc = "idle" /\ matrix /\ Current
  /\ spc' = "collect" /\ UNCHANGED <<completed, at, back>> /\ UnchangedDisk
  /\ UnchangedRuns

(* collect_valid_attempts; duplicates end the program. *)
Collect ==
  /\ spc = "collect"
  /\ IF \E c \in Conditions : Cardinality(ValidOnes(c)) > 1
     THEN StudyEnds
     ELSE /\ completed' = {c \in Conditions : ValidOnes(c) # {}}
          /\ spc' = "next" /\ UNCHANGED <<at, back>>
  /\ UnchangedDisk /\ UnchangedRuns

Pending == Conditions \ completed
Condition == CHOOSE c \in Pending : \A d \in Pending : c <= d

NextCondition ==
  /\ spc = "next"
  /\ \/ Pending = {} /\ StudyEnds
     \/ Pending # {} /\ spc' = "review" /\ at' = 1 /\ UNCHANGED <<completed, back>>
  /\ UnchangedDisk /\ UnchangedRuns

(* The attempts of the condition, one after the other. *)
Review ==
  /\ spc = "review"
  /\ \/ at > Len(attempts[Condition]) /\ spc' = "run" /\ UNCHANGED <<at, back>>
     \/ /\ at <= Len(attempts[Condition]) /\ Valid(Condition, at)
        /\ at' = at + 1 /\ UNCHANGED <<spc, back>>
     \/ /\ at <= Len(attempts[Condition]) /\ ~Valid(Condition, at)
        /\ spc' = "preserve" /\ back' = "review" /\ UNCHANGED at
  /\ UNCHANGED completed /\ UnchangedDisk /\ UnchangedRuns

-----------------------------------------------------------------------------
(***************************************************************************)
(* terminalize_failed_validation of attempt "at": the manifest is copied   *)
(* once, a failure record with its hash is written once, and the manifest  *)
(* becomes FAILED.                                                         *)
(***************************************************************************)
Noted == notes[Condition][at]
ManifestAt == attempts[Condition][at].manifest

(* Mutant: the manifest is copied on every resume. *)
PreserveAgain ==
  /\ spc = "preserve"
  /\ notes' = [notes EXCEPT ![Condition][at].preserved = ManifestAt]
  /\ spc' = "record"
  /\ UNCHANGED <<head, matrix, registration, summary, completed, at, back>> /\ UnchangedRuns

Preserve ==
  /\ spc = "preserve"
  /\ notes' = IF Noted.preserved = None
              THEN [notes EXCEPT ![Condition][at].preserved = ManifestAt] ELSE notes
  /\ spc' = "record"
  /\ UNCHANGED <<head, matrix, registration, summary, completed, at, back>> /\ UnchangedRuns

RecordFailure ==
  /\ spc = "record"
  /\ notes' = IF Noted.failure = None
              THEN [notes EXCEPT ![Condition][at].failure =
                      [original |-> ManifestAt]]
              ELSE notes
  /\ spc' = "fail"
  /\ UNCHANGED <<head, matrix, registration, summary, completed, at, back>> /\ UnchangedRuns

(* Mutant: the manifest of a completed attempt is left as it is. *)
FailedIfUnfinished(manifest) ==
  IF manifest = None THEN None
  ELSE IF manifest.state = "COMPLETED" THEN manifest
  ELSE [manifest EXCEPT !.state = "FAILED"]

(* The manifest with another state, when there is one. *)
Failed(manifest) ==
  IF manifest = None THEN None ELSE [manifest EXCEPT !.state = "FAILED"]

FailManifest ==
  /\ spc = "fail"
  /\ attempts' = With(Condition, at,
       [attempts[Condition][at] EXCEPT !.manifest = Failed(ManifestAt)])
  /\ spc' = "logFailure"
  /\ UNCHANGED <<torn, rpc, target, current, captured, stage, environmentVars,
                 completed, at, back>>
  /\ UnchangedDisk

(* The row says FAILED whatever the manifest says; then the next attempt, *)
(* or, after a metric that did not validate, the end.                      *)
LogFailure ==
  /\ spc = "logFailure"
  /\ attempts' = With(Condition, at, [attempts[Condition][at] EXCEPT !.logged = "FAILED"])
  /\ \/ back = "review" /\ spc' = "review" /\ at' = at + 1 /\ UNCHANGED <<completed, back>>
     \/ back = "idle" /\ StudyEnds
  /\ UNCHANGED <<torn, rpc, target, current, captured, stage, environmentVars>>
  /\ UnchangedDisk

-----------------------------------------------------------------------------
(* run_ov_condition, with a note for every directory it makes. *)
StartRun ==
  /\ spc = "run" /\ BeginCondition(Condition)
  /\ notes' = IF Len(attempts'[Condition]) = Len(notes[Condition]) THEN notes
              ELSE [notes EXCEPT ![Condition] = Append(@,
                      [metric |-> FALSE, preserved |-> None, failure |-> None])]
  /\ UNCHANGED <<head, matrix, registration, summary, completed, spc, at, back>>

Run == spc = "run" /\ RunnerStep /\ UNCHANGED studyVars

(* An attempt that failed ends the program; a completed one gets its metric. *)
RunReturns ==
  /\ spc = "run" /\ rpc = "returned"
  /\ \/ stage = "FAILED" /\ StudyEnds
     \/ stage # "FAILED" /\ spc' = "metric" /\ at' = current /\ UNCHANGED <<completed, back>>
  /\ RunnerEnds /\ UNCHANGED <<attempts, torn, environmentVars>> /\ UnchangedDisk

(***************************************************************************)
(* _finalize_metric: metric_output.json, the metric in the manifest, and   *)
(* the validation of both.  A trajectory without a metric makes the        *)
(* manifest FAILED without a copy or a failure record.                     *)
(***************************************************************************)
WriteMetric ==
  /\ spc = "metric"
  /\ \E measured \in Measures(attempts[Condition][at].artifacts) :
       IF measured
       THEN spc' = "enrich" /\ notes' = [notes EXCEPT ![Condition][at].metric = TRUE]
       ELSE spc' = "metricFails" /\ UNCHANGED notes
  /\ UNCHANGED <<head, matrix, registration, summary, completed, at, back>> /\ UnchangedRuns

MetricFails ==
  /\ spc = "metricFails"
  /\ attempts' = With(Condition, at,
       [attempts[Condition][at] EXCEPT !.manifest = Failed(ManifestAt)])
  /\ spc' = "logFailure" /\ back' = "idle"
  /\ UNCHANGED <<torn, rpc, target, current, captured, stage, environmentVars,
                 completed, at>>
  /\ UnchangedDisk

EnrichManifest ==
  /\ spc = "enrich"
  /\ attempts' = With(Condition, at,
       [attempts[Condition][at] EXCEPT !.manifest.metric = TRUE])
  /\ spc' = "confirm"
  /\ UNCHANGED <<torn, rpc, target, current, captured, stage, environmentVars,
                 completed, at, back>>
  /\ UnchangedDisk

Confirm ==
  /\ spc = "confirm"
  /\ \/ /\ Valid(Condition, at)
        /\ completed' = completed \cup {Condition} /\ spc' = "next" /\ at' = 0
        /\ UNCHANGED back
     \/ /\ ~Valid(Condition, at)
        /\ spc' = "preserve" /\ back' = "idle" /\ UNCHANGED <<completed, at>>
  /\ UnchangedDisk /\ UnchangedRuns

StudyStep ==
  \/ FreezeMatrix \/ Register
  \/ Collect \/ NextCondition \/ Review
  \/ Preserve \/ RecordFailure \/ FailManifest \/ LogFailure
  \/ StartRun \/ Run \/ RunReturns
  \/ WriteMetric \/ MetricFails \/ EnrichManifest \/ Confirm

CrashStudy ==
  /\ spc # "idle" /\ CrashRunner /\ StudyEnds /\ UnchangedDisk

(***************************************************************************)
(* tools/analyze_study.py, which may run beside a resume: like             *)
(* validate_runs.py it wants exactly one valid attempt of every condition  *)
(* and the registered commit and files, and its summary has the metrics of *)
(* these attempts.                                                         *)
(***************************************************************************)
Complete == \A c \in Conditions : Cardinality(ValidOnes(c)) = 1

Analyze ==
  /\ matrix /\ registration # None /\ Current /\ Complete
  /\ summary' = [c \in Conditions |-> CHOOSE n \in ValidOnes(c) : TRUE]
  /\ UNCHANGED <<head, matrix, registration, notes, completed, spc, at, back>>
  /\ UnchangedRuns

(* The product tree is moved to another commit. *)
MoveHead(commit) ==
  /\ commit # head /\ faults < MaxFaults
  /\ head' = commit /\ faults' = faults + 1
  /\ UNCHANGED <<inputs, runVars, matrix, registration, notes, summary, completed,
                 spc, at, back>>

Environment ==
  \/ \E version \in Inputs : ChangeInputs(version) /\ UNCHANGED studyVars
  \/ \E commit \in Commits : MoveHead(commit)
  \/ \E c \in Conditions, n \in 1 .. MaxAttempts :
       DamageAttempt(c, n) /\ UNCHANGED studyVars

StudyNext ==
  \/ StartFreeze \/ StartResume \/ StudyStep \/ Analyze \/ CrashStudy \/ Environment

(***************************************************************************)
(* The program runs on, and is started again for as long as it takes.      *)
(***************************************************************************)
StudyFairness ==
  /\ WF_vars(StudyStep) /\ WF_vars(StartResume) /\ WF_vars(StartFreeze)

StudySpec == StudyInit /\ [][StudyNext]_vars /\ StudyFairness

-----------------------------------------------------------------------------
(***************************************************************************)
(* A new attempt of a condition is made only when every earlier one is     *)
(* marked as failed or has no manifest: whatever was killed, damaged or    *)
(* run with other files, at most one attempt can count, and duplicates     *)
(* never end a resume (run_study.py:610, 633, run_orb_tum.py:749).         *)
(***************************************************************************)
EarlierAttemptsFailed ==
  \A c \in Conditions : \A n \in 1 .. Len(attempts[c]) - 1 :
    \/ attempts[c][n].manifest = None
    \/ attempts[c][n].manifest.state = "FAILED"

(***************************************************************************)
(* The manifest copied before an attempt was marked as failed is the one   *)
(* whose hash is in the failure record, over any number of resumes that    *)
(* are killed in between and find the attempt again (run_study.py:448).    *)
(***************************************************************************)
FailureIsFaithful ==
  \A c \in Conditions : \A n \in 1 .. Len(notes[c]) :
    notes[c][n].failure # None =>
      notes[c][n].preserved = notes[c][n].failure.original

Counts(c, n) ==
  /\ registration # None /\ n \in 1 .. Len(attempts[c])
  /\ attempts[c][n].manifest # None
  /\ attempts[c][n].manifest.state = "COMPLETED"
  /\ attempts[c][n].manifest.inputs = registration.inputs
  /\ attempts[c][n].artifacts = "whole" /\ notes[c][n].metric

(***************************************************************************)
(* A measurement is never lost to the tool itself: an attempt that counts  *)
(* goes on counting through crashes and resumes until one of its files is  *)
(* damaged (run_study.py:567, 605).                                        *)
(***************************************************************************)
MeasurementsAreKept ==
  [][\A c \in Conditions, n \in 1 .. MaxAttempts :
       Counts(c, n) => Counts(c, n)' \/ attempts'[c][n].artifacts = "damaged"]_vars

(***************************************************************************)
(* An attempt that counts, or that the summary was made from, ran the      *)
(* registered files, although they are compared with the registration once *)
(* and may change in any later attempt.  Only a change between the hash of *)
(* an attempt and its launch goes unnoticed (run_study.py:619,             *)
(* run_orb_tum.py:708, 808, analyze_study.py:208).                         *)
(***************************************************************************)
CountedRanRegistered ==
  \A c \in Conditions, n \in 1 .. MaxAttempts :
    /\ Counts(c, n) \/ (summary # None /\ summary[c] = n)
    /\ attempts[c][n].began = attempts[c][n].ran
    => attempts[c][n].ran = registration.inputs

(***************************************************************************)
(* Resumed for as long as it takes, with the registered commit and files   *)
(* back in place for good, the study gets a valid attempt of every         *)
(* condition (run_study.py:617).                                           *)
(***************************************************************************)
StudyCompletes ==
  <>[]Current => <>[](\A c \in Conditions : \E n \in 1 .. MaxAttempts : Counts(c, n))
=============================================================================
