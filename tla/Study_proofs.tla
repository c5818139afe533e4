--------------------------- MODULE Study_proofs ---------------------------
(***************************************************************************)
(* Proofs about Study, for any number of conditions, attempts, versions of *)
(* the files and faults: its types, that only the last attempt of a        *)
(* condition can count, that the copy of a manifest is the one its failure *)
(* record names, and that what counts or was analyzed ran what was         *)
(* registered.                                                             *)
(***************************************************************************)
EXTENDS Study, RunAttempt_proofs, FiniteSetTheorems

-----------------------------------------------------------------------------
(* Sets of natural numbers have least elements, so that Condition is one.  *)
LEMMA LeastExists ==
  ASSUME NEW T \in SUBSET Nat, T # {}
  PROVE  \E x \in T : \A y \in T : x <= y
<1> DEFINE R == {p \in Nat \X Nat : p[1] < p[2]}
<1>1. OpToRel(<, Nat) = R
  BY DEF OpToRel
<1>2. IsWellFoundedOn(R, Nat)
  BY <1>1, NatLessThanWellFounded
<1>3. \E x \in T : \A y \in T : ~ (<<y, x>> \in R)
  <2> HIDE DEF R
  <2> QED BY <1>2, WFMin
<1>4. PICK x \in T : \A y \in T : ~ (<<y, x>> \in R)
  BY <1>3
<1>5. ASSUME NEW y \in T PROVE x <= y
  <2>1. <<y, x>> \in Nat \X Nat
    OBVIOUS
  <2>2. ~(y < x)
    BY <1>4, <2>1
  <2>3. x \in Nat /\ y \in Nat
    OBVIOUS
  <2> QED BY <2>2, <2>3
<1> QED BY <1>5

LEMMA ConditionIsPending == Pending # {} => Condition \in Pending
<1> SUFFICES ASSUME Pending # {} PROVE Condition \in Pending
  OBVIOUS
<1>1. Pending \in SUBSET Nat
  BY RunAssumption DEF Pending
<1>2. \E x \in Pending : \A y \in Pending : x <= y
  BY <1>1, LeastExists
<1> QED BY <1>2 DEF Condition

LEMMA SameCondition ==
  ASSUME UNCHANGED completed PROVE Pending' = Pending /\ Condition' = Condition
BY DEF Pending, Condition

-----------------------------------------------------------------------------
Judging == {"preserve", "record", "fail", "logFailure"}
Measuring == {"metric", "enrich", "confirm", "metricFails"}
Working == {"review", "run"} \cup Judging \cup Measuring

(* StudyTypeOK, with what it leaves to TLC. *)
Types ==
  /\ RunInv /\ head \in Commits /\ matrix \in BOOLEAN
  /\ registration \in Registration \cup {None}
  /\ notes \in [Conditions -> Seq(Note)]
  /\ \A c \in Conditions : Len(notes[c]) = Len(attempts[c])
  /\ summary = None \/ summary \in [Conditions -> 1 .. MaxAttempts]
  /\ completed \subseteq Conditions /\ spc \in StudySteps
  /\ at \in 0 .. MaxAttempts + 1 /\ back \in {"review", "idle"}

(* Which variables are meaningful at which point of the program. *)
Control ==
  /\ spc \notin {"idle", "matrix", "register"} => registration # None
  /\ spc \in {"matrix", "register"} => registration = None
  /\ spc \in Working => Pending # {}
  /\ rpc # "idle" => spc = "run" /\ target = Condition /\ current = Len(attempts[target])
  /\ spc \in Judging => at \in 1 .. Len(attempts[Condition])
  /\ spc \in Measuring => at = Len(attempts[Condition]) /\ at # 0
  /\ spc = "review" => at \in 1 .. Len(attempts[Condition]) + 1

Dead(c, n) ==
  attempts[c][n].manifest = None \/ attempts[c][n].manifest.state = "FAILED"

(* The inputs in a manifest are those the attempt began with. *)
InputsKept(c, n) ==
  attempts[c][n].manifest # None => attempts[c][n].manifest.inputs = attempts[c][n].began

(* A failure record names the preserved manifest; until there is one, the  *)
(* manifest is still the preserved one.                                    *)
Faithful(c, n) ==
  /\ notes[c][n].failure # None =>
       /\ notes[c][n].preserved = notes[c][n].failure.original
       /\ notes[c][n].preserved = None => attempts[c][n].manifest = None
  /\ notes[c][n].failure = None /\ notes[c][n].preserved # None =>
       notes[c][n].preserved = attempts[c][n].manifest

AttemptInv(c, n) ==
  InputsKept(c, n) /\ Faithful(c, n) /\ (n < Len(attempts[c]) => Dead(c, n))

(* The summary was made from attempts that began with the registered files.*)
Summarized ==
  summary # None =>
    /\ registration # None
    /\ \A c \in Conditions :
         /\ summary[c] \in 1 .. Len(attempts[c])
         /\ attempts[c][summary[c]].began = registration.inputs

Data ==
  /\ \A c \in Conditions : \A n \in 1 .. Len(attempts[c]) : AttemptInv(c, n)
  /\ Summarized

(* While a condition is worked on, no pending attempt is valid but the one *)
(* whose metric is being entered.                                          *)
Late == spc \in Measuring \/ (spc \in Judging /\ back = "idle")

Fresh ==
  spc \in {"next"} \cup Working =>
    \A c \in Pending : \A n \in 1 .. Len(attempts[c]) :
      Valid(c, n) => c = Condition /\ Late

(* The attempt that is being run has no files of the study yet. *)
Clean(c, n) ==
  /\ notes[c][n].metric = FALSE
  /\ notes[c][n].preserved = None /\ notes[c][n].failure = None

Running ==
  rpc # "idle" =>
    /\ Clean(target, current) /\ captured = This.began
    /\ rpc \in {"log", "process", "returned"} => This.manifest # None

(* What has been established about the attempt under validation. *)
Judged ==
  /\ spc \in Measuring =>
       ManifestAt # None /\ Noted.preserved = None /\ Noted.failure = None
  /\ spc = "metricFails" => attempts[Condition][at].artifacts # "whole"
  /\ spc = "record" => Noted.failure # None \/ Noted.preserved = ManifestAt
  /\ spc = "fail" => Noted.failure # None
  /\ spc \in {"preserve", "record", "fail"} => ~Counts(Condition, at)
  /\ spc = "logFailure" => Dead(Condition, at)

(* What has been established about the earlier ones. *)
Reviewed ==
  /\ spc = "review" => \A n \in 1 .. at - 1 : Dead(Condition, n)
  /\ spc = "run" /\ rpc = "idle" =>
       \A n \in 1 .. Len(attempts[Condition]) : Dead(Condition, n)

StudyInv == Types /\ Control /\ Data /\ Fresh /\ Running /\ Judged /\ Reviewed

(* The body of MeasurementsAreKept. *)
Kept ==
  \A c \in Conditions, n \in 1 .. MaxAttempts :
    Counts(c, n) => Counts(c, n)' \/ attempts'[c][n].artifacts = "damaged"

-----------------------------------------------------------------------------
(* What the types say of one attempt. *)
LEMMA OneAttempt ==
  ASSUME Types, NEW c \in Conditions, NEW n \in 1 .. Len(attempts[c])
  PROVE  /\ attempts[c][n] \in Attempt /\ notes[c][n] \in Note
         /\ n \in 1 .. Len(notes[c]) /\ n \in 1 .. MaxAttempts /\ n \in Nat
         /\ Len(attempts[c]) \in Nat /\ Len(attempts[c]) <= MaxAttempts
<1>1. /\ attempts[c] \in Seq(Attempt) /\ notes[c] \in Seq(Note)
      /\ Len(notes[c]) = Len(attempts[c]) /\ Len(attempts[c]) <= MaxAttempts
  BY DEF Types, RunInv
<1>2. Len(attempts[c]) \in Nat /\ MaxAttempts \in Nat
  BY <1>1, LenProperties, RunAssumption
<1>3. attempts[c][n] \in Attempt /\ notes[c][n] \in Note
  BY <1>1, ElementOfSeq
<1> QED BY <1>1, <1>2, <1>3

(* The metric of a whole trajectory is always had. *)
LEMMA WholeMeasures == Measures("whole") = {TRUE}
BY DEF Measures

LEMMA CountingIsValid ==
  ASSUME NEW c, NEW n, Counts(c, n) PROVE Valid(c, n)
<1>1. Measures(attempts[c][n].artifacts) = {TRUE}
  BY WholeMeasures DEF Counts
<1> QED BY <1>1 DEF Counts, Valid, IsRegistered, CompletedAttempt, Accepted, Intact

LEMMA DeadIsInvalid ==
  ASSUME NEW c, NEW n, Dead(c, n) PROVE ~Valid(c, n)
BY DEF Dead, Valid, CompletedAttempt

-----------------------------------------------------------------------------
(***************************************************************************)
(* Most steps change one attempt and its notes, or none: what they leave   *)
(* alone is as it was.                                                     *)
(***************************************************************************)
Elsewhere(c, n) ==
  /\ UNCHANGED registration
  /\ \A d \in Conditions :
       /\ Len(attempts'[d]) = Len(attempts[d])
       /\ \A m \in 1 .. Len(attempts[d]) : ~(d = c /\ m = n) =>
            attempts'[d][m] = attempts[d][m] /\ notes'[d][m] = notes[d][m]

LEMMA OtherAttempt ==
  ASSUME NEW c, NEW n, Elsewhere(c, n),
         NEW d \in Conditions, NEW m \in 1 .. Len(attempts[d]), ~(d = c /\ m = n)
  PROVE  /\ AttemptInv(d, m) => AttemptInv(d, m)'
         /\ Valid(d, m)' <=> Valid(d, m)
         /\ Counts(d, m) => Counts(d, m)'
         /\ Dead(d, m)' <=> Dead(d, m)
<1>1. /\ attempts'[d][m] = attempts[d][m] /\ notes'[d][m] = notes[d][m]
      /\ Len(attempts'[d]) = Len(attempts[d]) /\ registration' = registration
  BY DEF Elsewhere
<1>2. Dead(d, m)' <=> Dead(d, m)
  BY <1>1 DEF Dead
<1>3. AttemptInv(d, m) => AttemptInv(d, m)'
  BY <1>1, <1>2 DEF AttemptInv, InputsKept, Faithful
<1>4. Valid(d, m)' <=> Valid(d, m)
  BY <1>1 DEF Valid, IsRegistered, CompletedAttempt, Accepted
<1>5. Counts(d, m) => Counts(d, m)'
  BY <1>1 DEF Counts
<1> QED BY <1>2, <1>3, <1>4, <1>5

(* The attempt that is changed keeps its part of the invariant. *)
LEMMA DataHolds ==
  ASSUME Types, Data, NEW c \in Conditions, NEW n, Elsewhere(c, n), UNCHANGED summary,
         n \in 1 .. Len(attempts[c]) =>
           /\ AttemptInv(c, n)' /\ attempts'[c][n].began = attempts[c][n].began
           /\ Counts(c, n) => Counts(c, n)' \/ attempts'[c][n].artifacts = "damaged"
  PROVE  Data' /\ Kept
<1>1. ASSUME NEW d \in Conditions, NEW m \in 1 .. Len(attempts'[d])
      PROVE AttemptInv(d, m)'
  <2>1. m \in 1 .. Len(attempts[d])
    BY DEF Elsewhere
  <2>2. CASE d = c /\ m = n
    BY <2>1, <2>2
  <2>3. CASE ~(d = c /\ m = n)
    BY <2>1, <2>3, OtherAttempt DEF Data
  <2> QED BY <2>2, <2>3
<1>2. Summarized'
  <2> SUFFICES ASSUME summary # None PROVE Summarized'
    BY DEF Summarized
  <2>1. registration' # None /\ registration' = registration
    BY DEF Data, Summarized, Elsewhere
  <2>2. ASSUME NEW d \in Conditions
        PROVE /\ summary[d] \in 1 .. Len(attempts'[d])
              /\ attempts'[d][summary[d]].began = registration.inputs
    <3>1. /\ summary[d] \in 1 .. Len(attempts[d])
          /\ attempts[d][summary[d]].began = registration.inputs
      BY DEF Data, Summarized
    <3>2. Len(attempts'[d]) = Len(attempts[d])
      BY DEF Elsewhere
    <3>3. CASE d = c /\ summary[d] = n
      BY <3>1, <3>2, <3>3
    <3>4. CASE ~(d = c /\ summary[d] = n)
      BY <3>1, <3>2, <3>4 DEF Elsewhere
    <3> QED BY <3>3, <3>4
  <2> QED BY <2>1, <2>2 DEF Summarized
<1>3. ASSUME NEW d \in Conditions, NEW m \in 1 .. MaxAttempts, Counts(d, m)
      PROVE Counts(d, m)' \/ attempts'[d][m].artifacts = "damaged"
  <2>1. m \in 1 .. Len(attempts[d])
    BY <1>3 DEF Counts
  <2>2. CASE d = c /\ m = n
    BY <1>3, <2>1, <2>2
  <2>3. CASE ~(d = c /\ m = n)
    BY <1>3, <2>1, <2>3, OtherAttempt
  <2> QED BY <2>2, <2>3
<1> QED BY <1>1, <1>2, <1>3 DEF Data, Kept

(* Nothing of it is changed. *)
LEMMA DataStays ==
  ASSUME Types, Data, UNCHANGED <<attempts, notes, registration>>
  PROVE  /\ \A d \in Conditions : \A m \in 1 .. Len(attempts[d]) :
              Valid(d, m)' <=> Valid(d, m)
         /\ UNCHANGED summary => Data' /\ Kept
<1>1. \A d, m : /\ AttemptInv(d, m)' <=> AttemptInv(d, m)
                /\ Valid(d, m)' <=> Valid(d, m)
                /\ Counts(d, m)' <=> Counts(d, m)
  BY DEF AttemptInv, InputsKept, Faithful, Dead, Valid, IsRegistered,
         CompletedAttempt, Accepted, Counts
<1>2. UNCHANGED summary => Data' /\ Kept
  BY <1>1 DEF Data, Summarized, Kept
<1> QED BY <1>1, <1>2

-----------------------------------------------------------------------------
(* Freshness is kept while what is valid stays so. *)
LEMMA FreshHolds ==
  ASSUME Fresh, UNCHANGED completed, spc \in {"next"} \cup Working, Late => Late',
         \A d \in Pending : \A m \in 1 .. Len(attempts'[d]) :
           Valid(d, m)' => \/ m \in 1 .. Len(attempts[d]) /\ Valid(d, m)
                           \/ d = Condition /\ Late'
  PROVE  Fresh'
<1>1. Pending' = Pending /\ Condition' = Condition
  BY SameCondition
<1>2. ASSUME NEW d \in Pending, NEW m \in 1 .. Len(attempts'[d]), Valid(d, m)'
      PROVE d = Condition /\ Late'
  <2>1. CASE m \in 1 .. Len(attempts[d]) /\ Valid(d, m)
    BY <2>1 DEF Fresh
  <2>2. CASE d = Condition /\ Late'
    BY <2>2
  <2> QED BY <1>2, <2>1, <2>2
<1> HIDE DEF Late, Valid
<1> QED BY <1>1, <1>2 DEF Fresh

(* The program ends, or is killed, between two writes. *)
LEMMA EndHolds ==
  ASSUME StudyInv, StudyEnds, rpc' = "idle", RunInv', head' \in Commits,
         UNCHANGED <<matrix, attempts, notes, registration, summary>>
  PROVE  StudyInv' /\ Kept
<1>1. Types'
  BY RunAssumption DEF StudyInv, Types, StudyEnds, StudySteps
<1>2. Data' /\ Kept
  BY DataStays DEF StudyInv
<1>3. Control'
  BY DEF StudyInv, Control, StudyEnds, Judging, Measuring, Working
<1>4. Fresh' /\ Running' /\ Judged' /\ Reviewed'
  BY DEF StudyEnds, Fresh, Running, Judged, Reviewed, Judging, Measuring, Working
<1> QED BY <1>1, <1>2, <1>3, <1>4 DEF StudyInv

(* Something else changes: the commit or the program files. *)
LEMMA OutsideHolds ==
  ASSUME StudyInv, RunInv', head' \in Commits,
         UNCHANGED <<runVars, matrix, registration, notes, summary, completed, spc, at, back>>
  PROVE  StudyInv' /\ Kept
<1> USE DEF runVars
<1>1. Types'
  BY DEF StudyInv, Types
<1>2. /\ Data' /\ Kept
      /\ \A d \in Conditions : \A m \in 1 .. Len(attempts[d]) : Valid(d, m)' <=> Valid(d, m)
  BY DataStays DEF StudyInv
<1>3. Pending' = Pending /\ Condition' = Condition
  BY SameCondition
<1>4. Control'
  BY <1>3 DEF StudyInv, Control
<1>5. Fresh'
  BY <1>2, <1>3 DEF StudyInv, Fresh, Late, Pending
<1>6. Running'
  BY DEF StudyInv, Running, Clean, This
<1>7. Judged' /\ Reviewed'
  BY <1>3 DEF StudyInv, Judged, Reviewed, ManifestAt, Noted, Counts, Dead
<1> QED BY <1>1, <1>2, <1>4, <1>5, <1>6, <1>7 DEF StudyInv

LEMMA StudyInitHolds == StudyInit => StudyInv
<1> SUFFICES ASSUME StudyInit PROVE StudyInv
  OBVIOUS
<1>1. RunInv
  BY RunInitTyped DEF StudyInit
<1>2. ASSUME NEW c \in Conditions
      PROVE /\ notes[c] = <<>> /\ attempts[c] = <<>> /\ Len(attempts[c]) = 0
            /\ Len(notes[c]) = Len(attempts[c])
  BY DEF StudyInit, RunInit
<1>3. notes \in [Conditions -> Seq(Note)]
  BY EmptySeq DEF StudyInit
<1>4. head \in Commits /\ MaxAttempts \in Nat
  BY StudyAssumption, RunAssumption DEF StudyInit
<1>5. Types
  <2>1. \A c \in Conditions : Len(notes[c]) = Len(attempts[c])
    BY <1>2
  <2>2. at \in 0 .. MaxAttempts + 1
    BY <1>4 DEF StudyInit
  <2> QED BY <1>1, <1>3, <1>4, <2>1, <2>2 DEF StudyInit, Types, StudySteps
<1>6. Data
  BY <1>2 DEF StudyInit, Data, Summarized
<1>7. Control /\ Fresh /\ Running /\ Judged /\ Reviewed
  BY DEF StudyInit, RunInit, Control, Fresh, Running, Judged, Reviewed,
         Judging, Measuring, Working
<1> QED BY <1>5, <1>6, <1>7 DEF StudyInv

LEMMA SameRuns ==
  ASSUME RunInv, UnchangedRuns
  PROVE  RunInv' /\ UNCHANGED <<attempts, rpc, target, current, captured, stage>>
BY DEF RunInv, UnchangedRuns, environmentVars, runVars

LEMMA SameDisk ==
  ASSUME UnchangedDisk
  PROVE  UNCHANGED <<head, matrix, registration, notes, summary>>
BY DEF UnchangedDisk

LEMMA StartFreezeHolds == ASSUME StudyInv, StartFreeze PROVE StudyInv' /\ Kept
<1>1. /\ RunInv' /\ UNCHANGED <<attempts, rpc, target, current, captured, stage>>
      /\ UNCHANGED <<head, matrix, registration, notes, summary>>
      /\ spc' = "matrix" /\ UNCHANGED <<completed, at, back>> /\ registration = None
      /\ spc = "idle"
  BY SameRuns, SameDisk DEF StartFreeze, StudyInv, Types
<1>2. Types'
  BY <1>1 DEF StudyInv, Types, StudySteps
<1>3. Data' /\ Kept
  BY <1>1, DataStays DEF StudyInv
<1>4. rpc' = "idle"
  BY <1>1 DEF StudyInv, Control
<1>5. Control'
  BY <1>1, <1>4 DEF Control, Judging, Measuring, Working
<1>6. Fresh' /\ Running' /\ Judged' /\ Reviewed'
  BY <1>1, <1>4 DEF Fresh, Running, Judged, Reviewed, Judging, Measuring, Working
<1> QED BY <1>2, <1>3, <1>5, <1>6 DEF StudyInv

LEMMA FreezeMatrixHolds == ASSUME StudyInv, FreezeMatrix PROVE StudyInv' /\ Kept
<1>1. /\ RunInv' /\ UNCHANGED <<attempts, rpc, target, current, captured, stage>>
      /\ UNCHANGED <<head, registration, notes, summary>> /\ matrix' = TRUE
      /\ spc' = "register" /\ UNCHANGED <<completed, at, back>> /\ spc = "matrix"
  BY SameRuns DEF FreezeMatrix, StudyInv, Types
<1>2. Types'
  BY <1>1 DEF StudyInv, Types, StudySteps
<1>3. Data' /\ Kept
  BY <1>1, DataStays DEF StudyInv
<1>4. rpc' = "idle" /\ registration' = None
  BY <1>1 DEF StudyInv, Control
<1>5. Control'
  BY <1>1, <1>4 DEF Control, Judging, Measuring, Working
<1>6. Fresh' /\ Running' /\ Judged' /\ Reviewed'
  BY <1>1, <1>4 DEF Fresh, Running, Judged, Reviewed, Judging, Measuring, Working
<1> QED BY <1>2, <1>3, <1>5, <1>6 DEF StudyInv

(* Nothing counts and nothing is summarized before the registration. *)
LEMMA RegisterHolds == ASSUME StudyInv, Register PROVE StudyInv' /\ Kept
<1>1. /\ RunInv' /\ UNCHANGED <<attempts, rpc, target, current, captured, stage>>
      /\ UNCHANGED <<head, matrix, notes, summary>>
      /\ registration' = [commit |-> head, inputs |-> inputs]
      /\ StudyEnds /\ spc = "register"
  BY SameRuns DEF Register, StudyInv, Types
<1>2. registration' \in Registration
  BY <1>1 DEF StudyInv, Types, RunInv, Registration
<1>3. Types'
  BY <1>1, <1>2, RunAssumption DEF StudyInv, Types, StudySteps, StudyEnds
<1>4. rpc' = "idle" /\ registration = None
  BY <1>1 DEF StudyInv, Control
<1>5. summary' = None
  BY <1>1, <1>4 DEF StudyInv, Data, Summarized
<1>6. \A d, m : AttemptInv(d, m)' <=> AttemptInv(d, m)
  BY <1>1 DEF AttemptInv, InputsKept, Faithful, Dead
<1>7. Data'
  BY <1>1, <1>5, <1>6 DEF StudyInv, Data, Summarized
<1>8. Kept
  BY <1>4 DEF Kept, Counts
<1>9. registration' # None
  BY <1>2, StudyAssumption
<1>10. Control'
  BY <1>1, <1>4, <1>9 DEF Control, StudyEnds, Judging, Measuring, Working
<1>11. Fresh' /\ Running' /\ Judged' /\ Reviewed'
  BY <1>1, <1>4 DEF StudyEnds, Fresh, Running, Judged, Reviewed, Judging, Measuring, Working
<1> QED BY <1>3, <1>7, <1>8, <1>10, <1>11 DEF StudyInv

LEMMA StartResumeHolds == ASSUME StudyInv, StartResume PROVE StudyInv' /\ Kept
<1>1. /\ RunInv' /\ UNCHANGED <<attempts, rpc, target, current, captured, stage>>
      /\ UNCHANGED <<head, matrix, registration, notes, summary>>
      /\ spc' = "collect" /\ UNCHANGED <<completed, at, back>> /\ spc = "idle"
      /\ registration = [commit |-> head, inputs |-> inputs]
  BY SameRuns, SameDisk DEF StartResume, Current, StudyInv, Types
<1>2. Types'
  BY <1>1 DEF StudyInv, Types, StudySteps
<1>3. Data' /\ Kept
  BY <1>1, DataStays DEF StudyInv
<1>4. rpc' = "idle"
  BY <1>1 DEF StudyInv, Control
<1>5. registration' # None
  BY <1>1, StudyAssumption DEF StudyInv, Types, RunInv, Registration
<1>6. Control'
  BY <1>1, <1>4, <1>5 DEF Control, Judging, Measuring, Working
<1>7. Fresh' /\ Running' /\ Judged' /\ Reviewed'
  BY <1>1, <1>4 DEF Fresh, Running, Judged, Reviewed, Judging, Measuring, Working
<1> QED BY <1>2, <1>3, <1>6, <1>7 DEF StudyInv

(* What is pending has no valid attempt. *)
LEMMA CollectHolds == ASSUME StudyInv, Collect PROVE StudyInv' /\ Kept
<1>1. /\ RunInv' /\ UNCHANGED <<attempts, rpc, target, current, captured, stage>>
      /\ UNCHANGED <<head, matrix, registration, notes, summary>> /\ spc = "collect"
  BY SameRuns, SameDisk DEF Collect, StudyInv, Types
<1>2. rpc' = "idle" /\ registration # None
  BY <1>1 DEF StudyInv, Control
<1>3. CASE StudyEnds
  <2>1. head' \in Commits
    BY <1>1 DEF StudyInv, Types
  <2> QED BY <1>1, <1>2, <1>3, <2>1, EndHolds
<1>4. CASE /\ completed' = {c \in Conditions : ValidOnes(c) # {}}
           /\ spc' = "next" /\ UNCHANGED <<at, back>>
  <2>1. completed' \subseteq Conditions
    BY <1>4
  <2>2. Types'
    BY <1>1, <1>4, <2>1 DEF StudyInv, Types, StudySteps
  <2>3. /\ Data' /\ Kept
        /\ \A d \in Conditions : \A m \in 1 .. Len(attempts[d]) : Valid(d, m)' <=> Valid(d, m)
    BY <1>1, DataStays DEF StudyInv
  <2>4. Control'
    BY <1>1, <1>2, <1>4 DEF Control, Judging, Measuring, Working
  <2>5. ASSUME NEW d \in Pending', NEW m \in 1 .. Len(attempts'[d]) PROVE ~Valid(d, m)'
    <3>1. d \in Conditions /\ ValidOnes(d) = {}
      BY <1>4 DEF Pending
    <3>2. ~Valid(d, m)
      BY <1>1, <3>1 DEF ValidOnes
    <3> QED BY <1>1, <2>3, <3>1, <3>2
  <2>6. Fresh'
    BY <2>5 DEF Fresh
  <2>7. Running' /\ Judged' /\ Reviewed'
    BY <1>2, <1>4 DEF Running, Judged, Reviewed, Judging, Measuring
  <2> QED BY <2>2, <2>3, <2>4, <2>6, <2>7 DEF StudyInv
<1> QED BY <1>3, <1>4 DEF Collect

LEMMA NextConditionHolds == ASSUME StudyInv, NextCondition PROVE StudyInv' /\ Kept
<1>1. /\ RunInv' /\ UNCHANGED <<attempts, rpc, target, current, captured, stage>>
      /\ UNCHANGED <<head, matrix, registration, notes, summary>> /\ spc = "next"
  BY SameRuns, SameDisk DEF NextCondition, StudyInv, Types
<1>2. rpc' = "idle" /\ registration # None
  BY <1>1 DEF StudyInv, Control
<1>3. CASE StudyEnds
  <2>1. head' \in Commits
    BY <1>1 DEF StudyInv, Types
  <2> QED BY <1>1, <1>2, <1>3, <2>1, EndHolds
<1>4. CASE /\ Pending # {} /\ spc' = "review" /\ at' = 1 /\ UNCHANGED <<completed, back>>
  <2>1. 1 \in 0 .. MaxAttempts + 1
    BY RunAssumption
  <2>2. Types'
    BY <1>1, <1>4, <2>1 DEF StudyInv, Types, StudySteps
  <2>3. /\ Data' /\ Kept
        /\ \A d \in Conditions : \A m \in 1 .. Len(attempts[d]) : Valid(d, m)' <=> Valid(d, m)
    BY <1>1, DataStays DEF StudyInv
  <2>4. Pending' = Pending /\ Condition' = Condition /\ Condition \in Conditions
    BY <1>4, SameCondition, ConditionIsPending DEF Pending
  <2>5. Len(attempts[Condition]) \in Nat
    BY <2>4, LenProperties DEF StudyInv, Types, RunInv
  <2>6. Control'
    BY <1>1, <1>2, <1>4, <2>4, <2>5 DEF Control, Judging, Measuring, Working
  <2>7. ~Late
    BY <1>1 DEF Late, Judging, Measuring
  <2>8. Fresh'
    <3>1. spc \in {"next"} \cup Working /\ completed' = completed
      BY <1>1, <1>4
    <3>2. \A d \in Pending : d \in Conditions
      BY DEF Pending
    <3> HIDE DEF Valid, Late
    <3> QED BY <1>1, <2>3, <2>7, <3>1, <3>2, FreshHolds DEF StudyInv
  <2>9. Running' /\ Judged' /\ Reviewed'
    BY <1>2, <1>4 DEF Running, Judged, Reviewed, Judging, Measuring
  <2> QED BY <2>2, <2>3, <2>6, <2>8, <2>9 DEF StudyInv
<1> QED BY <1>3, <1>4 DEF NextCondition

(* The condition that is worked on. *)
LEMMA AtCondition ==
  ASSUME Types, Control, spc \in Working
  PROVE  /\ Condition \in Conditions /\ Condition \in Pending /\ registration # None
         /\ Len(attempts[Condition]) \in Nat /\ Len(attempts[Condition]) <= MaxAttempts
         /\ spc \in Judging \cup Measuring => at \in 1 .. Len(attempts[Condition])
         /\ spc \in {"next"} \cup Working
<1>1. Condition \in Conditions /\ Condition \in Pending
  BY ConditionIsPending DEF Control, Pending
<1>2. attempts[Condition] \in Seq(Attempt) /\ Len(attempts[Condition]) <= MaxAttempts
  BY <1>1 DEF Types, RunInv
<1>3. Len(attempts[Condition]) \in Nat
  BY <1>2, LenProperties
<1>4. registration # None
  BY DEF Control, Working, Judging, Measuring
<1>5. spc \in Judging \cup Measuring => at \in 1 .. Len(attempts[Condition])
  BY <1>3 DEF Control
<1> QED BY <1>1, <1>2, <1>3, <1>4, <1>5

(* The steps of the program that leave the files alone. *)
LEMMA FilesStay ==
  ASSUME StudyInv, UnchangedRuns, UnchangedDisk
  PROVE  /\ RunInv' /\ UNCHANGED <<attempts, rpc, target, current, captured, stage>>
         /\ UNCHANGED <<head, matrix, registration, notes, summary>>
         /\ Data' /\ Kept
         /\ \A d \in Conditions : \A m \in 1 .. Len(attempts[d]) : Valid(d, m)' <=> Valid(d, m)
<1>1. /\ RunInv' /\ UNCHANGED <<attempts, rpc, target, current, captured, stage>>
      /\ UNCHANGED <<head, matrix, registration, notes, summary>>
  BY SameRuns, SameDisk DEF StudyInv, Types
<1> QED BY <1>1, DataStays DEF StudyInv

(* An attempt that is pending is not valid, so that it is judged. *)
LEMMA ReviewHolds == ASSUME StudyInv, Review PROVE StudyInv' /\ Kept
<1>1. /\ RunInv' /\ UNCHANGED <<attempts, rpc, target, current, captured, stage>>
      /\ UNCHANGED <<head, matrix, registration, notes, summary>>
      /\ Data' /\ Kept
      /\ \A d \in Conditions : \A m \in 1 .. Len(attempts[d]) : Valid(d, m)' <=> Valid(d, m)
      /\ spc = "review" /\ UNCHANGED completed
  BY FilesStay DEF Review
<1>2. rpc = "idle" /\ spc \in Working
  BY <1>1 DEF StudyInv, Control, Working
<1>3. /\ Condition \in Conditions /\ Condition \in Pending /\ registration # None
      /\ Len(attempts[Condition]) \in Nat /\ Len(attempts[Condition]) <= MaxAttempts
      /\ at \in 1 .. Len(attempts[Condition]) + 1
  BY <1>1, <1>2, AtCondition DEF StudyInv, Control
<1>4. ~Late
  BY <1>1 DEF Late, Judging, Measuring
<1>5. ASSUME Late => Late' PROVE Fresh'
  <2>1. \A d \in Pending : d \in Conditions
    BY DEF Pending
  <2> HIDE DEF Valid, Late
  <2> QED BY <1>1, <1>2, <1>5, <2>1, FreshHolds DEF StudyInv
<1>6. Fresh'
  BY <1>4, <1>5
<1>7. ~Valid(Condition, at) \/ at > Len(attempts[Condition])
  BY <1>2, <1>3, <1>4 DEF StudyInv, Fresh
<1>8. Pending' = Pending /\ Condition' = Condition
  BY <1>1, SameCondition
<1>9. CASE at > Len(attempts[Condition]) /\ spc' = "run" /\ UNCHANGED <<at, back>>
  <2>1. Types'
    BY <1>1, <1>9 DEF StudyInv, Types, StudySteps
  <2>2. Control'
    BY <1>1, <1>2, <1>3, <1>8, <1>9 DEF Control, Judging, Measuring, Working
  <2>3. at = Len(attempts[Condition]) + 1
    BY <1>3, <1>9
  <2>4. \A n \in 1 .. Len(attempts[Condition]) : Dead(Condition, n)
    BY <1>1, <1>3, <2>3 DEF StudyInv, Reviewed
  <2>5. Reviewed'
    BY <1>1, <1>8, <1>9, <2>4 DEF Reviewed, Dead
  <2>6. Running' /\ Judged'
    BY <1>1, <1>2, <1>9 DEF Running, Judged, Judging, Measuring
  <2> QED BY <1>1, <1>6, <2>1, <2>2, <2>5, <2>6 DEF StudyInv
<1>10. CASE /\ at <= Len(attempts[Condition]) /\ ~Valid(Condition, at)
            /\ spc' = "preserve" /\ back' = "review" /\ UNCHANGED at
  <2>1. Types'
    BY <1>1, <1>10 DEF StudyInv, Types, StudySteps
  <2>2. Control'
    BY <1>1, <1>2, <1>3, <1>8, <1>10 DEF Control, Judging, Measuring, Working
  <2>3. ~Counts(Condition, at)
    BY <1>10, CountingIsValid
  <2>4. Judged'
    BY <1>1, <1>8, <1>10, <2>3 DEF Judged, Judging, Measuring, Counts
  <2>5. Running' /\ Reviewed'
    BY <1>1, <1>2, <1>10 DEF Running, Reviewed
  <2> QED BY <1>1, <1>6, <2>1, <2>2, <2>4, <2>5 DEF StudyInv
<1>11. at <= Len(attempts[Condition]) \/ at > Len(attempts[Condition])
  BY <1>3
<1> QED BY <1>7, <1>9, <1>10, <1>11, <1>3 DEF Review

(* A condition whose metric was entered is complete when it validates. *)
LEMMA ConfirmHolds == ASSUME StudyInv, Confirm PROVE StudyInv' /\ Kept
<1>1. /\ RunInv' /\ UNCHANGED <<attempts, rpc, target, current, captured, stage>>
      /\ UNCHANGED <<head, matrix, registration, notes, summary>>
      /\ Data' /\ Kept
      /\ \A d \in Conditions : \A m \in 1 .. Len(attempts[d]) : Valid(d, m)' <=> Valid(d, m)
      /\ spc = "confirm"
  BY FilesStay DEF Confirm
<1>2. rpc = "idle" /\ spc \in Working
  BY <1>1 DEF StudyInv, Control, Measuring, Working
<1>3. /\ Condition \in Conditions /\ registration # None
      /\ Len(attempts[Condition]) \in Nat /\ at \in 1 .. Len(attempts[Condition])
      /\ Condition \in Pending
  BY <1>1, <1>2, AtCondition DEF StudyInv, Measuring
<1>4. CASE /\ completed' = completed \cup {Condition} /\ spc' = "next" /\ at' = 0
           /\ UNCHANGED back
  <2>1. completed' \subseteq Conditions /\ 0 \in 0 .. MaxAttempts + 1
    BY <1>3, <1>4, RunAssumption DEF StudyInv, Types
  <2>2. Types'
    BY <1>1, <1>4, <2>1 DEF StudyInv, Types, StudySteps
  <2>3. Control'
    BY <1>1, <1>2, <1>3, <1>4 DEF Control, Judging, Measuring, Working
  <2>4. ASSUME NEW d \in Pending', NEW m \in 1 .. Len(attempts'[d]) PROVE ~Valid(d, m)'
    <3>1. d \in Pending /\ d # Condition /\ d \in Conditions
      BY <1>4 DEF Pending
    <3>2. ~Valid(d, m)
      BY <1>1, <1>2, <3>1 DEF StudyInv, Fresh
    <3> QED BY <1>1, <3>1, <3>2
  <2>5. Fresh'
    BY <2>4 DEF Fresh
  <2>6. Running' /\ Judged' /\ Reviewed'
    BY <1>1, <1>2, <1>4 DEF Running, Judged, Reviewed, Judging, Measuring
  <2> QED BY <1>1, <2>2, <2>3, <2>5, <2>6 DEF StudyInv
<1>5. CASE /\ ~Valid(Condition, at) /\ spc' = "preserve" /\ back' = "idle"
           /\ UNCHANGED <<completed, at>>
  <2>1. Types'
    BY <1>1, <1>5 DEF StudyInv, Types, StudySteps
  <2>2. Pending' = Pending /\ Condition' = Condition
    BY <1>5, SameCondition
  <2>3. Control'
    BY <1>1, <1>2, <1>3, <1>5, <2>2 DEF Control, Judging, Measuring, Working
  <2>4. ~Counts(Condition, at)
    BY <1>5, CountingIsValid
  <2>5. Judged'
    BY <1>1, <1>5, <2>2, <2>4 DEF Judged, Judging, Measuring, Counts
  <2>6. Running' /\ Reviewed'
    BY <1>1, <1>2, <1>5 DEF Running, Reviewed
  <2>7. Fresh'
    <3>1. Late'
      BY <1>5 DEF Late, Judging
    <3>2. \A d \in Pending : d \in Conditions
      BY DEF Pending
    <3>3. UNCHANGED completed /\ spc \in {"next"} \cup Working
      BY <1>2, <1>5
    <3> HIDE DEF Valid, Late
    <3> QED BY <1>1, <3>1, <3>2, <3>3, FreshHolds DEF StudyInv
  <2> QED BY <1>1, <2>1, <2>3, <2>5, <2>6, <2>7 DEF StudyInv
<1> QED BY <1>4, <1>5 DEF Confirm

-----------------------------------------------------------------------------
(* A kill loses nothing but what is in memory. *)
LEMMA CrashHolds == ASSUME StudyInv, CrashStudy PROVE StudyInv' /\ Kept
<1>1. RunInv' /\ rpc' = "idle" /\ UNCHANGED attempts
  BY CrashTyped DEF CrashStudy, StudyInv, Types, CrashRunner, RunnerEnds
<1>2. /\ UNCHANGED <<head, matrix, registration, notes, summary>> /\ StudyEnds
      /\ head' \in Commits
  BY SameDisk DEF CrashStudy, StudyInv, Types
<1> QED BY <1>1, <1>2, EndHolds

LEMMA MoveHeadHolds ==
  ASSUME StudyInv, NEW commit \in Commits, MoveHead(commit) PROVE StudyInv' /\ Kept
<1>1. faults' \in 0 .. MaxFaults
  BY RunAssumption DEF MoveHead, StudyInv, Types, RunInv
<1>2. RunInv'
  BY <1>1 DEF MoveHead, StudyInv, Types, RunInv, runVars
<1>3. /\ head' \in Commits
      /\ UNCHANGED <<runVars, matrix, registration, notes, summary, completed, spc, at, back>>
  BY DEF MoveHead
<1> QED BY <1>2, <1>3, OutsideHolds

LEMMA ChangeInputsHolds ==
  ASSUME StudyInv, NEW version \in Inputs, ChangeInputs(version), UNCHANGED studyVars
  PROVE  StudyInv' /\ Kept
<1>1. RunInv'
  BY ChangeTyped DEF StudyInv, Types
<1>2. /\ head' \in Commits
      /\ UNCHANGED <<runVars, matrix, registration, notes, summary, completed, spc, at, back>>
  BY DEF ChangeInputs, studyVars, StudyInv, Types
<1> QED BY <1>1, <1>2, OutsideHolds

(* The summary is made from valid attempts, which began as registered. *)
LEMMA AnalyzeHolds == ASSUME StudyInv, Analyze PROVE StudyInv' /\ Kept
<1>1. /\ RunInv' /\ UNCHANGED <<attempts, rpc, target, current, captured, stage>>
      /\ UNCHANGED <<head, matrix, registration, notes, completed, spc, at, back>>
      /\ registration # None
      /\ summary' = [c \in Conditions |-> CHOOSE n \in ValidOnes(c) : TRUE]
  BY SameRuns DEF Analyze, StudyInv, Types
<1>2. ASSUME NEW c \in Conditions
      PROVE /\ summary'[c] \in 1 .. Len(attempts[c]) /\ summary'[c] \in 1 .. MaxAttempts
            /\ attempts[c][summary'[c]].began = registration.inputs
  <2>1. ValidOnes(c) # {}
    <3>1. Cardinality(ValidOnes(c)) = 1
      BY DEF Analyze, Complete
    <3>2. Cardinality({}) = 0
      BY FS_EmptySet
    <3> QED BY <3>1, <3>2
  <2>2. summary'[c] \in ValidOnes(c)
    <3> HIDE DEF ValidOnes
    <3>1. summary'[c] = CHOOSE n \in ValidOnes(c) : TRUE
      BY <1>1
    <3> QED BY <2>1, <3>1
  <2>3. summary'[c] \in 1 .. Len(attempts[c]) /\ Valid(c, summary'[c])
    BY <2>2 DEF ValidOnes
  <2>4. /\ attempts[c][summary'[c]].manifest # None
        /\ attempts[c][summary'[c]].manifest.inputs = registration.inputs
    BY <2>3 DEF Valid, IsRegistered
  <2>5. AttemptInv(c, summary'[c])
    BY <2>3 DEF StudyInv, Data
  <2>6. summary'[c] \in 1 .. MaxAttempts
    BY <2>3, OneAttempt DEF StudyInv
  <2> QED BY <2>3, <2>4, <2>5, <2>6 DEF AttemptInv, InputsKept
<1>3. summary' \in [Conditions -> 1 .. MaxAttempts]
  <2>1. \A c \in Conditions : summary'[c] \in 1 .. MaxAttempts
    BY <1>2
  <2>2. summary' = [c \in Conditions |-> summary'[c]]
    BY <1>1
  <2> HIDE DEF ValidOnes
  <2> QED BY <2>1, <2>2
<1>4. Types'
  BY <1>1, <1>3 DEF StudyInv, Types
<1>5. /\ \A d \in Conditions : \A m \in 1 .. Len(attempts[d]) : Valid(d, m)' <=> Valid(d, m)
  BY <1>1, DataStays DEF StudyInv
<1>6. \A d, m : /\ AttemptInv(d, m)' <=> AttemptInv(d, m)
                /\ Counts(d, m)' <=> Counts(d, m)
  BY <1>1 DEF AttemptInv, InputsKept, Faithful, Dead, Counts
<1>7. Summarized'
  BY <1>1, <1>2 DEF Summarized
<1>8. Data' /\ Kept
  BY <1>1, <1>6, <1>7 DEF StudyInv, Data, Kept
<1>9. Pending' = Pending /\ Condition' = Condition
  BY <1>1, SameCondition
<1>10. Control'
  BY <1>1, <1>9 DEF StudyInv, Control
<1>11. Fresh'
  BY <1>1, <1>5, <1>9 DEF StudyInv, Fresh, Late, Pending
<1>12. Running' /\ Judged' /\ Reviewed'
  BY <1>1, <1>9 DEF StudyInv, Running, Clean, This, Judged, Reviewed, ManifestAt, Noted,
                    Counts, Dead
<1> QED BY <1>4, <1>8, <1>10, <1>11, <1>12 DEF StudyInv

(* The attempt that was run, or found complete, gets its metric. *)
LEMMA RunReturnsHolds == ASSUME StudyInv, RunReturns PROVE StudyInv' /\ Kept
<1>1. /\ RunInv' /\ UNCHANGED attempts /\ rpc' = "idle"
      /\ UNCHANGED <<head, matrix, registration, notes, summary>>
      /\ spc = "run" /\ rpc = "returned"
  BY EndsTyped, SameDisk DEF RunReturns, RunnerEnds, StudyInv, Types
<1>2. /\ target = Condition /\ current = Len(attempts[Condition])
      /\ current \in 1 .. Len(attempts[Condition])
      /\ Clean(Condition, current) /\ attempts[Condition][current].manifest # None
  BY <1>1 DEF StudyInv, Types, RunInv, Control, Running, This
<1>3. spc \in Working
  BY <1>1 DEF Working
<1>4. /\ Condition \in Conditions /\ registration # None
      /\ Len(attempts[Condition]) \in Nat /\ Len(attempts[Condition]) <= MaxAttempts
  BY <1>3, AtCondition DEF StudyInv
<1>5. CASE StudyEnds
  <2>1. head' \in Commits
    BY <1>1 DEF StudyInv, Types
  <2> QED BY <1>1, <1>5, <2>1, EndHolds
<1>6. CASE spc' = "metric" /\ at' = current /\ UNCHANGED <<completed, back>>
  <2>1. current \in 0 .. MaxAttempts + 1 /\ current # 0
    BY <1>2, <1>4, RunAssumption
  <2>2. Types'
    BY <1>1, <1>6, <2>1 DEF StudyInv, Types, StudySteps
  <2>3. /\ Data' /\ Kept
        /\ \A d \in Conditions : \A m \in 1 .. Len(attempts[d]) : Valid(d, m)' <=> Valid(d, m)
    BY <1>1, DataStays DEF StudyInv
  <2>4. Pending' = Pending /\ Condition' = Condition /\ Pending # {}
    BY <1>3, <1>6, SameCondition DEF StudyInv, Control
  <2>5. Control'
    BY <1>1, <1>2, <1>4, <1>6, <2>1, <2>4 DEF Control, Judging, Measuring, Working
  <2>6. Fresh'
    <3>1. Late'
      BY <1>6 DEF Late, Measuring
    <3>2. \A d \in Pending : d \in Conditions
      BY DEF Pending
    <3>3. UNCHANGED completed /\ spc \in {"next"} \cup Working
      BY <1>3, <1>6
    <3> HIDE DEF Valid, Late
    <3> QED BY <1>1, <2>3, <3>1, <3>2, <3>3, FreshHolds DEF StudyInv
  <2>7. Judged'
    BY <1>1, <1>2, <1>6, <2>4 DEF Judged, Judging, Measuring, ManifestAt, Noted, Clean
  <2>8. Running' /\ Reviewed'
    BY <1>1, <1>6 DEF Running, Reviewed
  <2> QED BY <2>2, <2>3, <2>5, <2>6, <2>7, <2>8 DEF StudyInv
<1> QED BY <1>5, <1>6 DEF RunReturns

-----------------------------------------------------------------------------
(* The steps that change one attempt, or the notes of one attempt. *)
LEMMA AttemptChanges ==
  ASSUME StudyInv, NEW c \in Conditions, NEW n \in 1 .. Len(attempts[c]),
         NEW a \in Attempt, attempts' = With(c, n, a), UNCHANGED <<notes, registration>>
  PROVE  /\ attempts' \in [Conditions -> Seq(Attempt)]
         /\ \A d \in Conditions : Len(attempts'[d]) <= MaxAttempts
         /\ \A d \in Conditions : Len(notes'[d]) = Len(attempts'[d])
         /\ Elsewhere(c, n) /\ attempts'[c][n] = a
         /\ Len(attempts'[c]) = Len(attempts[c])
<1> DEFINE s == [attempts[c] EXCEPT ![n] = a]
<1>1. attempts \in [Conditions -> Seq(Attempt)] /\ attempts[c] \in Seq(Attempt) /\ RunInv
  BY DEF StudyInv, Types, RunInv
<1>2. /\ s \in Seq(Attempt) /\ Len(s) = Len(attempts[c])
      /\ \A j \in 1 .. Len(attempts[c]) : s[j] = IF j = n THEN a ELSE attempts[c][j]
  BY <1>1, ExceptSeq
<1>3. attempts' = [attempts EXCEPT ![c] = s]
  BY DEF With
<1> HIDE DEF s
<1>4. /\ attempts' \in [Conditions -> Seq(Attempt)]
      /\ \A d \in Conditions : attempts'[d] = IF d = c THEN s ELSE attempts[d]
  BY <1>1, <1>2, <1>3
<1>5. \A d \in Conditions : Len(attempts'[d]) = Len(attempts[d])
  BY <1>2, <1>4
<1>6. \A d \in Conditions : Len(attempts'[d]) <= MaxAttempts
  BY <1>1, <1>5 DEF RunInv
<1>7. \A d \in Conditions : Len(notes'[d]) = Len(attempts'[d])
  BY <1>5 DEF StudyInv, Types
<1>8. Elsewhere(c, n)
  BY <1>2, <1>4, <1>5 DEF Elsewhere
<1> QED BY <1>2, <1>4, <1>5, <1>6, <1>7, <1>8

WithNote(c, n, note) == [notes EXCEPT ![c] = [notes[c] EXCEPT ![n] = note]]

(* The study writes one of its files into the attempt under validation. *)
LEMMA NoteStep ==
  ASSUME StudyInv, spc \in Judging \cup Measuring, NEW c, NEW n, c = Condition, n = at,
         NEW b \in Note, notes' = WithNote(c, n, b),
         UnchangedRuns, UNCHANGED <<head, matrix, registration, summary, completed, at, back>>,
         spc' \in StudySteps, notes[c][n].metric => b.metric,
         b.failure # None =>
           /\ b.preserved = b.failure.original
           /\ b.preserved = None => attempts[c][n].manifest = None,
         b.failure = None /\ b.preserved # None => b.preserved = attempts[c][n].manifest,
         Late => Late', b.metric = notes[c][n].metric \/ Late'
  PROVE  /\ Types' /\ Data' /\ Fresh' /\ Kept
         /\ UNCHANGED <<attempts, rpc, target, current, captured, stage>>
         /\ Pending' = Pending /\ Condition' = Condition /\ notes'[c][n] = b
         /\ c \in Conditions /\ n \in 1 .. Len(attempts[c]) /\ rpc = "idle"
<1>1. /\ RunInv' /\ UNCHANGED <<attempts, rpc, target, current, captured, stage>>
  BY SameRuns DEF StudyInv, Types
<1>2. /\ c \in Conditions /\ c \in Pending /\ n \in 1 .. Len(attempts[c])
      /\ spc \in Working /\ spc \in {"next"} \cup Working
  BY AtCondition DEF StudyInv, Working
<1>3. rpc = "idle" /\ registration # None
  BY DEF StudyInv, Control, Judging, Measuring
<1>4. /\ notes' \in [Conditions -> Seq(Note)]
      /\ \A d \in Conditions : Len(notes'[d]) = Len(attempts'[d])
      /\ Elsewhere(c, n) /\ notes'[c][n] = b
  <2> DEFINE s == [notes[c] EXCEPT ![n] = b]
  <2>1. /\ notes \in [Conditions -> Seq(Note)] /\ notes[c] \in Seq(Note)
        /\ Len(notes[c]) = Len(attempts[c]) /\ n \in 1 .. Len(notes[c])
    BY <1>2 DEF StudyInv, Types
  <2>2. /\ s \in Seq(Note) /\ Len(s) = Len(notes[c])
        /\ \A j \in 1 .. Len(notes[c]) : s[j] = IF j = n THEN b ELSE notes[c][j]
    BY <2>1, ExceptSeq
  <2>3. notes' = [notes EXCEPT ![c] = s]
    BY DEF WithNote
  <2> HIDE DEF s
  <2>4. /\ notes' \in [Conditions -> Seq(Note)]
        /\ \A d \in Conditions : notes'[d] = IF d = c THEN s ELSE notes[d]
    BY <2>1, <2>2, <2>3
  <2>5. \A d \in Conditions : Len(notes'[d]) = Len(attempts'[d])
    BY <1>1, <2>2, <2>4 DEF StudyInv, Types
  <2>6. Elsewhere(c, n)
    BY <1>1, <2>1, <2>2, <2>4 DEF Elsewhere, StudyInv, Types
  <2> QED BY <1>2, <2>1, <2>2, <2>4, <2>5, <2>6
<1>5. Types'
  BY <1>1, <1>4 DEF StudyInv, Types
<1>6. Pending' = Pending /\ Condition' = Condition
  BY SameCondition
<1>7. AttemptInv(c, n)'
  <2>1. AttemptInv(c, n)
    BY <1>2 DEF StudyInv, Data
  <2>2. Faithful(c, n)'
    BY <1>1, <1>4 DEF Faithful
  <2> QED BY <1>1, <2>1, <2>2 DEF AttemptInv, InputsKept, Dead
<1>8. Counts(c, n) => Counts(c, n)'
  BY <1>1, <1>4 DEF Counts
<1>9. Data' /\ Kept
  BY <1>1, <1>2, <1>4, <1>7, <1>8, DataHolds DEF StudyInv
<1>10. ASSUME NEW d \in Pending, NEW m \in 1 .. Len(attempts'[d]), Valid(d, m)'
       PROVE \/ m \in 1 .. Len(attempts[d]) /\ Valid(d, m)
             \/ d = Condition /\ Late'
  <2>1. d \in Conditions /\ m \in 1 .. Len(attempts[d])
    BY <1>1 DEF Pending
  <2>2. CASE d = c /\ m = n
    <3>1. b.metric = notes[c][n].metric => Valid(c, n)
      BY <1>1, <1>4, <1>10, <2>2 DEF Valid, IsRegistered, CompletedAttempt, Accepted
    <3> HIDE DEF Valid, Late
    <3> QED BY <2>1, <2>2, <3>1
  <2>3. CASE ~(d = c /\ m = n)
    BY <1>4, <1>10, <2>1, <2>3, OtherAttempt
  <2> QED BY <2>2, <2>3
<1>11. Fresh'
  <2> HIDE DEF Valid, Late
  <2> QED BY <1>2, <1>10, FreshHolds DEF StudyInv
<1> QED BY <1>1, <1>2, <1>3, <1>4, <1>5, <1>6, <1>9, <1>11

(* None of its files is written: only the program counter moves. *)
LEMMA NoNoteStep ==
  ASSUME StudyInv, spc \in Judging \cup Measuring, NEW c, NEW n, c = Condition, n = at,
         UnchangedRuns, UNCHANGED <<head, matrix, registration, notes, summary>>,
         UNCHANGED <<completed, at, back>>,
         spc' \in StudySteps, Late => Late'
  PROVE  /\ Types' /\ Data' /\ Fresh' /\ Kept
         /\ UNCHANGED <<attempts, rpc, target, current, captured, stage>>
         /\ Pending' = Pending /\ Condition' = Condition
         /\ c \in Conditions /\ n \in 1 .. Len(attempts[c]) /\ rpc = "idle"
<1>1. /\ RunInv' /\ UNCHANGED <<attempts, rpc, target, current, captured, stage>>
  BY SameRuns DEF StudyInv, Types
<1>2. /\ c \in Conditions /\ c \in Pending /\ n \in 1 .. Len(attempts[c])
      /\ spc \in Working /\ spc \in {"next"} \cup Working
  BY AtCondition DEF StudyInv, Working
<1>3. rpc = "idle" /\ registration # None
  BY DEF StudyInv, Control, Judging, Measuring
<1>4. Types'
  BY <1>1 DEF StudyInv, Types
<1>5. Pending' = Pending /\ Condition' = Condition
  BY SameCondition
<1>6. /\ Data' /\ Kept
      /\ \A d \in Conditions : \A m \in 1 .. Len(attempts[d]) : Valid(d, m)' <=> Valid(d, m)
  BY <1>1, DataStays DEF StudyInv
<1>7. Fresh'
  <2>1. \A d \in Pending : d \in Conditions
    BY DEF Pending
  <2> HIDE DEF Valid, Late
  <2> QED BY <1>1, <1>2, <1>6, <2>1, FreshHolds DEF StudyInv
<1> QED BY <1>1, <1>2, <1>3, <1>4, <1>5, <1>6, <1>7

(* The attempt under validation and the place where it is worked on. *)
LEMMA AtAttempt ==
  ASSUME StudyInv, spc \in Judging \cup Measuring, NEW c, NEW n, c = Condition, n = at
  PROVE  /\ c \in Conditions /\ c \in Pending /\ n \in 1 .. Len(attempts[c])
         /\ attempts[c][n] \in Attempt /\ notes[c][n] \in Note /\ AttemptInv(c, n)
         /\ n \in 1 .. MaxAttempts /\ rpc = "idle" /\ registration # None
         /\ Pending # {} /\ spc \in {"next"} \cup Working
         /\ ManifestAt = attempts[c][n].manifest /\ Noted = notes[c][n]
<1>1. /\ c \in Conditions /\ c \in Pending /\ n \in 1 .. Len(attempts[c])
      /\ spc \in Working /\ spc \in {"next"} \cup Working
  BY AtCondition DEF StudyInv, Working
<1>2. rpc = "idle" /\ registration # None /\ Pending # {}
  BY <1>1 DEF StudyInv, Control, Judging, Measuring, Working
<1>3. attempts[c][n] \in Attempt /\ notes[c][n] \in Note /\ n \in 1 .. MaxAttempts
  BY <1>1, OneAttempt DEF StudyInv
<1>4. AttemptInv(c, n)
  BY <1>1 DEF StudyInv, Data
<1> QED BY <1>1, <1>2, <1>3, <1>4 DEF ManifestAt, Noted

(* The manifest is copied once: a second copy would be of a FAILED one. *)
LEMMA PreserveHolds == ASSUME StudyInv, Preserve PROVE StudyInv' /\ Kept
<1>1. PICK c, n : c = Condition /\ n = at
  OBVIOUS
<1>2. /\ UnchangedRuns /\ UNCHANGED <<head, matrix, registration, summary, completed, at, back>>
      /\ spc = "preserve" /\ spc' = "record"
      /\ spc \in Judging \cup Measuring /\ spc' \in StudySteps
  BY DEF Preserve, Judging, StudySteps
<1>3. /\ attempts[c][n] \in Attempt /\ notes[c][n] \in Note /\ AttemptInv(c, n)
      /\ ManifestAt = attempts[c][n].manifest /\ Noted = notes[c][n]
      /\ registration # None /\ Pending # {} /\ n \in 1 .. Len(attempts[c])
  BY <1>1, <1>2, AtAttempt
<1>4. ~Counts(c, n) /\ (Late => Late')
  BY <1>1, <1>2 DEF StudyInv, Judged, Late, Judging, Measuring
<1>5. ASSUME Types', Data', Fresh', Kept, UNCHANGED attempts, rpc' = "idle",
             Pending' = Pending, Condition' = Condition, notes'[c][n].metric = notes[c][n].metric,
             notes'[c][n].failure # None \/ notes'[c][n].preserved = attempts[c][n].manifest
      PROVE StudyInv' /\ Kept
  <2>1. Control'
    BY <1>1, <1>2, <1>3, <1>5 DEF Control, Judging, Measuring, Working
  <2>2. ~Counts(c, n)'
    BY <1>2, <1>4, <1>5 DEF Counts
  <2>3. Judged'
    <3>1. Noted' = notes'[c][n] /\ ManifestAt' = attempts[c][n].manifest /\ ~Counts(Condition, at)'
      BY <1>1, <1>2, <1>5, <2>2 DEF Noted, ManifestAt, Counts
    <3> QED BY <1>2, <1>5, <3>1 DEF Judged, Measuring
  <2>4. Running' /\ Reviewed'
    BY <1>2, <1>5 DEF Running, Reviewed
  <2> QED BY <1>5, <2>1, <2>3, <2>4 DEF StudyInv
<1>6. CASE Noted.preserved = None
  <2> DEFINE b == [notes[c][n] EXCEPT !.preserved = attempts[c][n].manifest]
  <2>1. b \in Note
    BY <1>3 DEF Note, Attempt
  <2>2. notes' = WithNote(c, n, b)
    BY <1>1, <1>3, <1>6 DEF Preserve, WithNote
  <2>3. /\ b.metric = notes[c][n].metric /\ b.failure = notes[c][n].failure
        /\ b.preserved = attempts[c][n].manifest
    BY <1>3 DEF Note
  <2>4. b.failure # None => /\ b.preserved = b.failure.original
                            /\ b.preserved = None => attempts[c][n].manifest = None
    BY <1>3, <1>6, <2>3 DEF AttemptInv, Faithful
  <2> HIDE DEF b
  <2>5. /\ Types' /\ Data' /\ Fresh' /\ Kept
        /\ UNCHANGED <<attempts, rpc, target, current, captured, stage>>
        /\ Pending' = Pending /\ Condition' = Condition /\ notes'[c][n] = b
        /\ rpc = "idle"
    BY <1>1, <1>2, <1>4, <2>1, <2>2, <2>3, <2>4, NoteStep
  <2> QED BY <1>5, <2>3, <2>5
<1>7. CASE Noted.preserved # None
  <2>1. UNCHANGED notes
    BY <1>7 DEF Preserve
  <2>2. /\ Types' /\ Data' /\ Fresh' /\ Kept
        /\ UNCHANGED <<attempts, rpc, target, current, captured, stage>>
        /\ Pending' = Pending /\ Condition' = Condition /\ rpc = "idle"
    BY <1>1, <1>2, <1>4, <2>1, NoNoteStep
  <2>3. notes[c][n].failure # None \/ notes[c][n].preserved = attempts[c][n].manifest
    BY <1>3, <1>7 DEF AttemptInv, Faithful
  <2> QED BY <1>5, <2>1, <2>2, <2>3
<1> QED BY <1>6, <1>7

(* The record is written once, and names the manifest that was copied. *)
LEMMA RecordFailureHolds == ASSUME StudyInv, RecordFailure PROVE StudyInv' /\ Kept
<1>1. PICK c, n : c = Condition /\ n = at
  OBVIOUS
<1>2. /\ UnchangedRuns /\ UNCHANGED <<head, matrix, registration, summary, completed, at, back>>
      /\ spc = "record" /\ spc' = "fail"
      /\ spc \in Judging \cup Measuring /\ spc' \in StudySteps
  BY DEF RecordFailure, Judging, StudySteps
<1>3. /\ attempts[c][n] \in Attempt /\ notes[c][n] \in Note /\ AttemptInv(c, n)
      /\ ManifestAt = attempts[c][n].manifest /\ Noted = notes[c][n]
      /\ registration # None /\ Pending # {} /\ n \in 1 .. Len(attempts[c])
  BY <1>1, <1>2, AtAttempt
<1>4. /\ ~Counts(c, n) /\ (Late => Late')
      /\ notes[c][n].failure # None \/ notes[c][n].preserved = attempts[c][n].manifest
  BY <1>1, <1>2, <1>3 DEF StudyInv, Judged, Late, Judging, Measuring
<1>5. ASSUME Types', Data', Fresh', Kept, UNCHANGED attempts, rpc' = "idle",
             Pending' = Pending, Condition' = Condition, notes'[c][n].metric = notes[c][n].metric,
             notes'[c][n].failure # None
      PROVE StudyInv' /\ Kept
  <2>1. Control'
    BY <1>1, <1>2, <1>3, <1>5 DEF Control, Judging, Measuring, Working
  <2>2. ~Counts(c, n)'
    BY <1>2, <1>4, <1>5 DEF Counts
  <2>3. Judged'
    <3>1. Noted' = notes'[c][n] /\ ~Counts(Condition, at)'
      BY <1>1, <1>2, <1>5, <2>2 DEF Noted, Counts
    <3> QED BY <1>2, <1>5, <3>1 DEF Judged, Measuring
  <2>4. Running' /\ Reviewed'
    BY <1>2, <1>5 DEF Running, Reviewed
  <2> QED BY <1>5, <2>1, <2>3, <2>4 DEF StudyInv
<1>6. CASE Noted.failure = None
  <2> DEFINE r == [original |-> attempts[c][n].manifest]
             b == [notes[c][n] EXCEPT !.failure = r]
  <2>1. r \in Failure /\ r # None /\ r.original = attempts[c][n].manifest
    BY <1>3, StudyAssumption DEF Failure, Attempt
  <2>2. notes' = WithNote(c, n, b)
    BY <1>1, <1>3, <1>6 DEF RecordFailure, WithNote
  <2> HIDE DEF r
  <2>3. b \in Note
    BY <1>3, <2>1 DEF Note
  <2>4. /\ b.metric = notes[c][n].metric /\ b.failure = r
        /\ b.preserved = notes[c][n].preserved
    BY <1>3 DEF Note
  <2> HIDE DEF b
  <2>5. b.failure # None => /\ b.preserved = b.failure.original
                            /\ b.preserved = None => attempts[c][n].manifest = None
    BY <1>3, <1>4, <1>6, <2>1, <2>4
  <2>6. /\ Types' /\ Data' /\ Fresh' /\ Kept
        /\ UNCHANGED <<attempts, rpc, target, current, captured, stage>>
        /\ Pending' = Pending /\ Condition' = Condition /\ notes'[c][n] = b
        /\ rpc = "idle"
    <3>1. /\ b.failure # None /\ (notes[c][n].metric => b.metric)
          /\ b.metric = notes[c][n].metric \/ Late'
      BY <2>1, <2>4
    <3>2. b.failure = None /\ b.preserved # None => b.preserved = attempts[c][n].manifest
      BY <3>1
    <3> QED BY <1>1, <1>2, <1>4, <2>2, <2>3, <2>5, <3>1, <3>2, NoteStep
  <2> QED BY <1>5, <2>1, <2>4, <2>6
<1>7. CASE Noted.failure # None
  <2>1. UNCHANGED notes
    BY <1>7 DEF RecordFailure
  <2>2. /\ Types' /\ Data' /\ Fresh' /\ Kept
        /\ UNCHANGED <<attempts, rpc, target, current, captured, stage>>
        /\ Pending' = Pending /\ Condition' = Condition /\ rpc = "idle"
    BY <1>1, <1>2, <1>4, <2>1, NoNoteStep
  <2> QED BY <1>3, <1>5, <1>7, <2>1, <2>2
<1> QED BY <1>6, <1>7

(* A metric that cannot be had is no attempt that counts. *)
LEMMA WriteMetricHolds == ASSUME StudyInv, WriteMetric PROVE StudyInv' /\ Kept
<1>1. PICK c, n : c = Condition /\ n = at
  OBVIOUS
<1>2. /\ UnchangedRuns /\ UNCHANGED <<head, matrix, registration, summary, completed, at, back>>
      /\ spc = "metric" /\ spc' \in {"enrich", "metricFails"}
      /\ spc \in Judging \cup Measuring /\ spc' \in StudySteps /\ Late'
  BY DEF WriteMetric, Judging, Measuring, StudySteps, Late
<1>3. /\ attempts[c][n] \in Attempt /\ notes[c][n] \in Note /\ AttemptInv(c, n)
      /\ ManifestAt = attempts[c][n].manifest /\ Noted = notes[c][n]
      /\ registration # None /\ Pending # {} /\ n \in 1 .. Len(attempts[c])
  BY <1>1, <1>2, AtAttempt
<1>4. /\ attempts[c][n].manifest # None /\ notes[c][n].preserved = None
      /\ notes[c][n].failure = None
  BY <1>2, <1>3 DEF StudyInv, Judged, Measuring
<1>5. ASSUME Types', Data', Fresh', Kept, UNCHANGED attempts, rpc' = "idle",
             Pending' = Pending, Condition' = Condition,
             notes'[c][n].preserved = None, notes'[c][n].failure = None,
             spc' = "enrich" \/ attempts[c][n].artifacts # "whole"
      PROVE StudyInv' /\ Kept
  <2>1. Control'
    <3>1. n = Len(attempts[c]) /\ n # 0
      BY <1>1, <1>2 DEF StudyInv, Control, Measuring
    <3> QED BY <1>1, <1>2, <1>3, <1>5, <3>1 DEF Control, Judging, Measuring, Working
  <2>2. Judged'
    <3>1. /\ Noted' = notes'[c][n] /\ ManifestAt' = attempts[c][n].manifest
          /\ attempts'[Condition'][at'] = attempts[c][n]
      BY <1>1, <1>2, <1>5 DEF Noted, ManifestAt
    <3> QED BY <1>2, <1>4, <1>5, <3>1 DEF Judged
  <2>3. Running' /\ Reviewed'
    BY <1>2, <1>5 DEF Running, Reviewed
  <2> QED BY <1>5, <2>1, <2>2, <2>3 DEF StudyInv
<1>6. CASE /\ spc' = "enrich"
           /\ notes' = [notes EXCEPT ![Condition][at].metric = TRUE]
  <2> DEFINE b == [notes[c][n] EXCEPT !.metric = TRUE]
  <2>1. b \in Note
    BY <1>3 DEF Note
  <2>2. notes' = WithNote(c, n, b)
    BY <1>1, <1>6 DEF WithNote
  <2>3. b.preserved = None /\ b.failure = None
    BY <1>3, <1>4 DEF Note
  <2>4. notes[c][n].metric => b.metric
    BY <1>3 DEF Note
  <2> HIDE DEF b
  <2>5. /\ Types' /\ Data' /\ Fresh' /\ Kept
        /\ UNCHANGED <<attempts, rpc, target, current, captured, stage>>
        /\ Pending' = Pending /\ Condition' = Condition /\ notes'[c][n] = b
        /\ rpc = "idle"
    BY <1>1, <1>2, <2>1, <2>2, <2>3, <2>4, NoteStep
  <2> QED BY <1>5, <1>6, <2>3, <2>5
<1>7. CASE /\ spc' = "metricFails" /\ UNCHANGED notes
           /\ FALSE \in Measures(attempts[Condition][at].artifacts)
  <2>1. attempts[c][n].artifacts # "whole"
    BY <1>1, <1>7, WholeMeasures
  <2>2. /\ Types' /\ Data' /\ Fresh' /\ Kept
        /\ UNCHANGED <<attempts, rpc, target, current, captured, stage>>
        /\ Pending' = Pending /\ Condition' = Condition /\ rpc = "idle"
    BY <1>1, <1>2, <1>7, NoNoteStep
  <2> QED BY <1>4, <1>5, <1>7, <2>1, <2>2
<1>8. PICK measured \in Measures(attempts[Condition][at].artifacts) :
        IF measured
        THEN spc' = "enrich" /\ notes' = [notes EXCEPT ![Condition][at].metric = TRUE]
        ELSE spc' = "metricFails" /\ UNCHANGED notes
  BY DEF WriteMetric
<1>9. measured \in BOOLEAN
  BY <1>8 DEF Measures
<1>10. CASE measured
  BY <1>6, <1>8, <1>10
<1>11. CASE ~measured
  <2>1. measured = FALSE
    BY <1>9, <1>11
  <2> QED BY <1>7, <1>8, <2>1
<1> QED BY <1>10, <1>11

(* The study writes the manifest or the row of the attempt it validates. *)
LEMMA AttemptStep ==
  ASSUME StudyInv, spc \in Judging \cup Measuring, NEW c, NEW n, c = Condition, n = at,
         NEW a \in Attempt, attempts' = With(c, n, a),
         UNCHANGED <<torn, rpc, target, current, captured, stage, environmentVars>>,
         UnchangedDisk, a.began = attempts[c][n].began,
         a.manifest # None => a.manifest.inputs = a.began,
         notes[c][n].failure # None /\ notes[c][n].preserved = None => a.manifest = None,
         notes[c][n].failure = None /\ notes[c][n].preserved # None =>
           notes[c][n].preserved = a.manifest,
         Dead(c, n) => a.manifest = None \/ a.manifest.state = "FAILED",
         Counts(c, n) => /\ a.manifest # None /\ a.manifest.state = "COMPLETED"
                         /\ a.artifacts = "whole"
  PROVE  /\ RunInv' /\ Data' /\ Kept /\ Elsewhere(c, n) /\ attempts'[c][n] = a
         /\ \A d \in Conditions : Len(notes'[d]) = Len(attempts'[d])
         /\ UNCHANGED <<head, matrix, registration, notes, summary>>
         /\ rpc' = "idle" /\ Len(attempts'[c]) = Len(attempts[c])
<1>1. /\ c \in Conditions /\ n \in 1 .. Len(attempts[c]) /\ AttemptInv(c, n)
      /\ rpc = "idle"
  BY AtAttempt
<1>2. UNCHANGED <<head, matrix, registration, notes, summary>>
  BY SameDisk
<1>3. /\ attempts' \in [Conditions -> Seq(Attempt)]
      /\ \A d \in Conditions : Len(attempts'[d]) <= MaxAttempts
      /\ \A d \in Conditions : Len(notes'[d]) = Len(attempts'[d])
      /\ Elsewhere(c, n) /\ attempts'[c][n] = a
      /\ Len(attempts'[c]) = Len(attempts[c])
  BY <1>1, <1>2, AttemptChanges
<1>4. RunInv'
  BY <1>1, <1>3 DEF StudyInv, Types, RunInv, environmentVars
<1>5. AttemptInv(c, n)'
  <2>1. InputsKept(c, n)'
    BY <1>3 DEF InputsKept
  <2>2. Faithful(c, n)'
    BY <1>1, <1>2, <1>3 DEF AttemptInv, Faithful
  <2>3. n < Len(attempts[c]) => Dead(c, n)'
    BY <1>1, <1>3 DEF AttemptInv, Dead
  <2> QED BY <1>3, <2>1, <2>2, <2>3 DEF AttemptInv
<1>6. Counts(c, n) => Counts(c, n)'
  <2> SUFFICES ASSUME Counts(c, n) PROVE Counts(c, n)'
    OBVIOUS
  <2>1. a.manifest.inputs = attempts[c][n].manifest.inputs
    BY <1>1 DEF AttemptInv, InputsKept, Counts
  <2> QED BY <1>1, <1>2, <1>3, <2>1 DEF Counts
<1>7. Data' /\ Kept
  BY <1>1, <1>2, <1>3, <1>5, <1>6, DataHolds DEF StudyInv
<1> QED BY <1>1, <1>2, <1>3, <1>4, <1>7

LEMMA AttemptFresh ==
  ASSUME Types, Fresh, spc \in {"next"} \cup Working, NEW c, NEW n, c = Condition,
         Elsewhere(c, n), UNCHANGED completed, Late => Late',
         Late' \/ Dead(c, n)'
  PROVE  Fresh'
<1>1. ASSUME NEW d \in Pending, NEW m \in 1 .. Len(attempts'[d]), Valid(d, m)'
       PROVE \/ m \in 1 .. Len(attempts[d]) /\ Valid(d, m)
             \/ d = Condition /\ Late'
  <2>1. d \in Conditions /\ m \in 1 .. Len(attempts[d])
    BY DEF Pending, Elsewhere
  <2>2. CASE d = c /\ m = n
    <3>1. ~Dead(c, n)'
      BY <1>1, <2>2 DEF Valid, CompletedAttempt, Dead
    <3> HIDE DEF Valid, Late
    <3> QED BY <2>2, <3>1
  <2>3. CASE ~(d = c /\ m = n)
    BY <1>1, <2>1, <2>3, OtherAttempt
  <2> QED BY <2>2, <2>3
<1> HIDE DEF Valid, Late
<1> QED BY <1>1, FreshHolds

(* A manifest that is there becomes FAILED and keeps its identity. *)
LEMMA FailedManifest ==
  ASSUME NEW m \in Manifest \cup {None}
  PROVE  /\ Failed(m) \in Manifest \cup {None}
         /\ Failed(m) = None \/ Failed(m).state = "FAILED"
         /\ m = None <=> Failed(m) = None
         /\ m # None => Failed(m).inputs = m.inputs
BY RunAssumption DEF Failed, Manifest, States

(* With its failure record written, the manifest may be changed. *)
LEMMA FailManifestHolds == ASSUME StudyInv, FailManifest PROVE StudyInv' /\ Kept
<1>1. PICK c, n : c = Condition /\ n = at
  OBVIOUS
<1> DEFINE a == [attempts[c][n] EXCEPT !.manifest = Failed(attempts[c][n].manifest)]
<1>2. /\ UNCHANGED <<torn, rpc, target, current, captured, stage, environmentVars>>
      /\ UNCHANGED <<completed, at, back>> /\ UnchangedDisk
      /\ spc = "fail" /\ spc' = "logFailure"
      /\ spc \in Judging \cup Measuring /\ spc' \in StudySteps
  BY DEF FailManifest, Judging, StudySteps
<1>3. /\ attempts[c][n] \in Attempt /\ notes[c][n] \in Note /\ AttemptInv(c, n)
      /\ ManifestAt = attempts[c][n].manifest /\ Noted = notes[c][n] /\ c \in Conditions
      /\ registration # None /\ Pending # {} /\ n \in 1 .. Len(attempts[c])
      /\ spc \in {"next"} \cup Working
  BY <1>1, <1>2, AtAttempt
<1>4. ~Counts(c, n) /\ notes[c][n].failure # None /\ (Late => Late')
  BY <1>1, <1>2, <1>3 DEF StudyInv, Judged, Late, Judging, Measuring
<1>5. attempts' = With(c, n, a)
  BY <1>1, <1>3 DEF FailManifest
<1>6. attempts[c][n].manifest \in Manifest \cup {None}
  BY <1>3 DEF Attempt
<1>7. a \in Attempt
  <2>1. Failed(attempts[c][n].manifest) \in Manifest \cup {None}
    BY <1>6, FailedManifest
  <2> QED BY <1>3, <2>1 DEF Attempt
<1>8. /\ a.manifest = Failed(attempts[c][n].manifest) /\ a.began = attempts[c][n].began
  BY <1>3 DEF Attempt
<1> HIDE DEF a
<1>9. /\ a.manifest = None \/ a.manifest.state = "FAILED"
      /\ attempts[c][n].manifest = None <=> a.manifest = None
      /\ a.manifest # None => a.manifest.inputs = attempts[c][n].manifest.inputs
  BY <1>6, <1>8, FailedManifest
<1>10. /\ RunInv' /\ Data' /\ Kept /\ Elsewhere(c, n) /\ attempts'[c][n] = a
       /\ \A d \in Conditions : Len(notes'[d]) = Len(attempts'[d])
       /\ UNCHANGED <<head, matrix, registration, notes, summary>>
       /\ rpc' = "idle" /\ Len(attempts'[c]) = Len(attempts[c])
  <2>1. a.manifest # None => a.manifest.inputs = a.began
    BY <1>3, <1>8, <1>9 DEF AttemptInv, InputsKept
  <2>2. notes[c][n].failure # None /\ notes[c][n].preserved = None => a.manifest = None
    BY <1>3, <1>9 DEF AttemptInv, Faithful
  <2>3. notes[c][n].failure = None /\ notes[c][n].preserved # None =>
          notes[c][n].preserved = a.manifest
    BY <1>4
  <2> QED BY <1>1, <1>2, <1>4, <1>5, <1>7, <1>8, <1>9, <2>1, <2>2, <2>3, AttemptStep
<1>11. Pending' = Pending /\ Condition' = Condition
  BY <1>2, SameCondition
<1>12. Types'
  BY <1>2, <1>10 DEF StudyInv, Types
<1>13. Control'
  BY <1>1, <1>2, <1>3, <1>10, <1>11 DEF Control, Judging, Measuring, Working
<1>14. Dead(c, n)'
  BY <1>9, <1>10 DEF Dead
<1>15. Fresh'
  BY <1>1, <1>2, <1>3, <1>4, <1>10, <1>14, AttemptFresh DEF StudyInv
<1>16. Judged'
  BY <1>1, <1>2, <1>11, <1>14 DEF Judged, Measuring, Dead
<1>17. Running' /\ Reviewed'
  BY <1>2, <1>10 DEF Running, Reviewed
<1> QED BY <1>10, <1>12, <1>13, <1>15, <1>16, <1>17 DEF StudyInv

(* Without a metric there is nothing to lose. *)
LEMMA MetricFailsHolds == ASSUME StudyInv, MetricFails PROVE StudyInv' /\ Kept
<1>1. PICK c, n : c = Condition /\ n = at
  OBVIOUS
<1> DEFINE a == [attempts[c][n] EXCEPT !.manifest = Failed(attempts[c][n].manifest)]
<1>2. /\ UNCHANGED <<torn, rpc, target, current, captured, stage, environmentVars>>
      /\ UNCHANGED <<completed, at>> /\ UnchangedDisk /\ back' = "idle"
      /\ spc = "metricFails" /\ spc' = "logFailure"
      /\ spc \in Judging \cup Measuring /\ spc' \in StudySteps
  BY DEF MetricFails, Measuring, StudySteps
<1>3. /\ attempts[c][n] \in Attempt /\ notes[c][n] \in Note /\ AttemptInv(c, n)
      /\ ManifestAt = attempts[c][n].manifest /\ Noted = notes[c][n] /\ c \in Conditions
      /\ registration # None /\ Pending # {} /\ n \in 1 .. Len(attempts[c])
      /\ spc \in {"next"} \cup Working
  BY <1>1, <1>2, AtAttempt
<1>4. /\ notes[c][n].preserved = None /\ notes[c][n].failure = None
      /\ attempts[c][n].artifacts # "whole" /\ Late'
  BY <1>1, <1>2, <1>3 DEF StudyInv, Judged, Late, Judging, Measuring
<1>5. attempts' = With(c, n, a)
  BY <1>1, <1>3 DEF MetricFails
<1>6. attempts[c][n].manifest \in Manifest \cup {None}
  BY <1>3 DEF Attempt
<1>7. a \in Attempt
  <2>1. Failed(attempts[c][n].manifest) \in Manifest \cup {None}
    BY <1>6, FailedManifest
  <2> QED BY <1>3, <2>1 DEF Attempt
<1>8. /\ a.manifest = Failed(attempts[c][n].manifest) /\ a.began = attempts[c][n].began
  BY <1>3 DEF Attempt
<1> HIDE DEF a
<1>9. /\ a.manifest = None \/ a.manifest.state = "FAILED"
      /\ attempts[c][n].manifest = None <=> a.manifest = None
      /\ a.manifest # None => a.manifest.inputs = attempts[c][n].manifest.inputs
  BY <1>6, <1>8, FailedManifest
<1>10. /\ RunInv' /\ Data' /\ Kept /\ Elsewhere(c, n) /\ attempts'[c][n] = a
       /\ \A d \in Conditions : Len(notes'[d]) = Len(attempts'[d])
       /\ UNCHANGED <<head, matrix, registration, notes, summary>>
       /\ rpc' = "idle" /\ Len(attempts'[c]) = Len(attempts[c])
  <2>1. a.manifest # None => a.manifest.inputs = a.began
    BY <1>3, <1>8, <1>9 DEF AttemptInv, InputsKept
  <2>2. ~Counts(c, n)
    BY <1>4 DEF Counts
  <2> QED BY <1>1, <1>2, <1>4, <1>5, <1>7, <1>8, <1>9, <2>1, <2>2, AttemptStep
<1>11. Pending' = Pending /\ Condition' = Condition
  BY <1>2, SameCondition
<1>12. Types'
  BY <1>2, <1>10 DEF StudyInv, Types
<1>13. Control'
  BY <1>1, <1>2, <1>3, <1>10, <1>11 DEF Control, Judging, Measuring, Working
<1>14. Dead(c, n)'
  BY <1>9, <1>10 DEF Dead
<1>15. Fresh'
  BY <1>1, <1>2, <1>3, <1>4, <1>10, <1>14, AttemptFresh DEF StudyInv
<1>16. Judged'
  BY <1>1, <1>2, <1>11, <1>14 DEF Judged, Measuring, Dead
<1>17. Running' /\ Reviewed'
  BY <1>2, <1>10 DEF Running, Reviewed
<1> QED BY <1>10, <1>12, <1>13, <1>15, <1>16, <1>17 DEF StudyInv

(* The metric in the manifest changes neither its state nor its identity. *)
LEMMA EnrichHolds == ASSUME StudyInv, EnrichManifest PROVE StudyInv' /\ Kept
<1>1. PICK c, n : c = Condition /\ n = at
  OBVIOUS
<1> DEFINE m == [attempts[c][n].manifest EXCEPT !.metric = TRUE]
           a == [attempts[c][n] EXCEPT !.manifest = m]
<1>2. /\ UNCHANGED <<torn, rpc, target, current, captured, stage, environmentVars>>
      /\ UNCHANGED <<completed, at, back>> /\ UnchangedDisk
      /\ spc = "enrich" /\ spc' = "confirm"
      /\ spc \in Judging \cup Measuring /\ spc' \in StudySteps
  BY DEF EnrichManifest, Measuring, StudySteps
<1>3. /\ attempts[c][n] \in Attempt /\ notes[c][n] \in Note /\ AttemptInv(c, n)
      /\ ManifestAt = attempts[c][n].manifest /\ Noted = notes[c][n] /\ c \in Conditions
      /\ registration # None /\ Pending # {} /\ n \in 1 .. Len(attempts[c])
      /\ spc \in {"next"} \cup Working
  BY <1>1, <1>2, AtAttempt
<1>4. /\ notes[c][n].preserved = None /\ notes[c][n].failure = None
      /\ attempts[c][n].manifest # None /\ Late' /\ n = Len(attempts[c]) /\ n # 0
  BY <1>1, <1>2, <1>3 DEF StudyInv, Judged, Control, Late, Judging, Measuring
<1>5. attempts' = With(c, n, a)
  BY <1>1 DEF EnrichManifest
<1>6. attempts[c][n].manifest \in Manifest
  BY <1>3, <1>4 DEF Attempt
<1>7. /\ m \in Manifest /\ m.state = attempts[c][n].manifest.state
      /\ m.inputs = attempts[c][n].manifest.inputs
  BY <1>6 DEF Manifest
<1> HIDE DEF m
<1>8. /\ a \in Attempt /\ a.manifest = m /\ a.began = attempts[c][n].began
      /\ a.artifacts = attempts[c][n].artifacts
  BY <1>3, <1>7 DEF Attempt
<1>9. m # None
  BY <1>7, RunAssumption
<1> HIDE DEF a
<1>10. /\ RunInv' /\ Data' /\ Kept /\ Elsewhere(c, n) /\ attempts'[c][n] = a
       /\ \A d \in Conditions : Len(notes'[d]) = Len(attempts'[d])
       /\ UNCHANGED <<head, matrix, registration, notes, summary>>
       /\ rpc' = "idle" /\ Len(attempts'[c]) = Len(attempts[c])
  <2>1. a.manifest.inputs = a.began
    BY <1>3, <1>4, <1>7, <1>8 DEF AttemptInv, InputsKept
  <2>2. Dead(c, n) => a.manifest.state = "FAILED"
    BY <1>4, <1>7, <1>8 DEF Dead
  <2>3. Counts(c, n) => /\ a.manifest # None /\ a.manifest.state = "COMPLETED"
                        /\ a.artifacts = "whole"
    BY <1>7, <1>8, <1>9 DEF Counts
  <2> QED BY <1>1, <1>2, <1>4, <1>5, <1>8, <2>1, <2>2, <2>3, AttemptStep
<1>11. Pending' = Pending /\ Condition' = Condition
  BY <1>2, SameCondition
<1>12. Types'
  BY <1>2, <1>10 DEF StudyInv, Types
<1>13. Control'
  BY <1>1, <1>2, <1>3, <1>4, <1>10, <1>11 DEF Control, Judging, Measuring, Working
<1>14. Fresh'
  BY <1>1, <1>2, <1>3, <1>4, <1>10, AttemptFresh DEF StudyInv
<1>15. Judged'
  BY <1>1, <1>2, <1>3, <1>4, <1>8, <1>9, <1>10, <1>11
  DEF Judged, Judging, Measuring, ManifestAt, Noted
<1>16. Running' /\ Reviewed'
  BY <1>2, <1>10 DEF Running, Reviewed
<1> QED BY <1>10, <1>12, <1>13, <1>14, <1>15, <1>16 DEF StudyInv

(* The review goes on after an attempt that is marked, or the program ends.*)
LEMMA LogFailureHolds == ASSUME StudyInv, LogFailure PROVE StudyInv' /\ Kept
<1>1. PICK c, n : c = Condition /\ n = at
  OBVIOUS
<1> DEFINE a == [attempts[c][n] EXCEPT !.logged = "FAILED"]
<1>2. /\ UNCHANGED <<torn, rpc, target, current, captured, stage, environmentVars>>
      /\ UnchangedDisk /\ spc = "logFailure" /\ spc \in Judging \cup Measuring
  BY DEF LogFailure, Judging
<1>3. /\ attempts[c][n] \in Attempt /\ notes[c][n] \in Note /\ AttemptInv(c, n)
      /\ ManifestAt = attempts[c][n].manifest /\ Noted = notes[c][n] /\ c \in Conditions
      /\ registration # None /\ Pending # {} /\ n \in 1 .. Len(attempts[c])
      /\ spc \in {"next"} \cup Working /\ n \in 1 .. MaxAttempts
  BY <1>1, <1>2, AtAttempt
<1>4. Dead(c, n)
  BY <1>1, <1>2 DEF StudyInv, Judged, Dead
<1>5. attempts' = With(c, n, a)
  BY <1>1 DEF LogFailure
<1>6. /\ a \in Attempt /\ a.manifest = attempts[c][n].manifest
      /\ a.began = attempts[c][n].began /\ a.artifacts = attempts[c][n].artifacts
  BY <1>3 DEF Attempt, States
<1> HIDE DEF a
<1>7. /\ RunInv' /\ Data' /\ Kept /\ Elsewhere(c, n) /\ attempts'[c][n] = a
      /\ \A d \in Conditions : Len(notes'[d]) = Len(attempts'[d])
      /\ UNCHANGED <<head, matrix, registration, notes, summary>>
      /\ rpc' = "idle" /\ Len(attempts'[c]) = Len(attempts[c])
  <2>1. a.manifest # None => a.manifest.inputs = a.began
    BY <1>3, <1>6 DEF AttemptInv, InputsKept
  <2>2. /\ notes[c][n].failure # None /\ notes[c][n].preserved = None => a.manifest = None
        /\ notes[c][n].failure = None /\ notes[c][n].preserved # None =>
             notes[c][n].preserved = a.manifest
    BY <1>3, <1>6 DEF AttemptInv, Faithful
  <2>3. /\ Dead(c, n) => a.manifest = None \/ a.manifest.state = "FAILED"
        /\ Counts(c, n) => /\ a.manifest # None /\ a.manifest.state = "COMPLETED"
                           /\ a.artifacts = "whole"
    BY <1>6 DEF Dead, Counts
  <2> QED BY <1>1, <1>2, <1>5, <1>6, <2>1, <2>2, <2>3, AttemptStep
<1>8. Dead(c, n)'
  BY <1>4, <1>6, <1>7 DEF Dead
<1>9. CASE back = "review" /\ spc' = "review" /\ at' = at + 1 /\ UNCHANGED <<completed, back>>
  <2>1. Pending' = Pending /\ Condition' = Condition
    BY <1>9, SameCondition
  <2>2. Len(attempts[c]) \in Nat /\ MaxAttempts \in Nat
    BY <1>3, OneAttempt, RunAssumption DEF StudyInv
  <2>3. at + 1 \in 1 .. Len(attempts'[c]) + 1 /\ at + 1 \in 0 .. MaxAttempts + 1
    BY <1>1, <1>3, <1>7, <2>2
  <2>4. Types'
    BY <1>7, <1>9, <2>3 DEF StudyInv, Types, StudySteps
  <2>5. Control'
    BY <1>1, <1>2, <1>3, <1>7, <1>9, <2>1, <2>3 DEF Control, Judging, Measuring, Working
  <2>6. Fresh'
    <3>1. ~Late
      BY <1>2, <1>9 DEF Late, Measuring
    <3> QED BY <1>1, <1>3, <1>7, <1>8, <1>9, <3>1, AttemptFresh DEF StudyInv
  <2>7. ASSUME NEW m \in 1 .. n PROVE Dead(c, m)'
    <3>1. CASE m = n
      BY <1>8, <3>1
    <3>2. CASE m # n
      <4>1. m \in 1 .. Len(attempts[c]) /\ m < Len(attempts[c])
        BY <1>3, <2>2, <3>2
      <4>2. Dead(c, m)
        BY <1>3, <4>1 DEF StudyInv, Data, AttemptInv
      <4> QED BY <1>3, <1>7, <3>2, <4>1, <4>2, OtherAttempt
    <3> QED BY <3>1, <3>2
  <2>8. Reviewed'
    <3>1. at' - 1 = n /\ Condition' = c
      BY <1>1, <1>3, <1>9, <2>1
    <3> QED BY <1>9, <2>7, <3>1 DEF Reviewed, Dead
  <2>9. Running' /\ Judged'
    BY <1>7, <1>9 DEF Running, Judged, Judging, Measuring
  <2> QED BY <1>7, <2>4, <2>5, <2>6, <2>8, <2>9 DEF StudyInv
<1>10. CASE StudyEnds
  <2>1. Types'
    BY <1>7, <1>10, RunAssumption DEF StudyInv, Types, StudyEnds, StudySteps
  <2>2. Control' /\ Fresh' /\ Running' /\ Judged' /\ Reviewed'
    BY <1>7, <1>10
    DEF StudyEnds, Control, Fresh, Running, Judged, Reviewed, Judging, Measuring, Working
  <2> QED BY <1>7, <2>1, <2>2 DEF StudyInv
<1> QED BY <1>9, <1>10 DEF LogFailure

-----------------------------------------------------------------------------
(* A damaged file makes an attempt invalid and changes nothing else. *)
LEMMA DamageHolds ==
  ASSUME StudyInv, NEW c \in Conditions, NEW n \in 1 .. MaxAttempts,
         DamageAttempt(c, n), UNCHANGED studyVars
  PROVE  StudyInv' /\ Kept
<1> DEFINE a == [attempts[c][n] EXCEPT !.artifacts = "damaged"]
<1>1. /\ n \in 1 .. Len(attempts[c]) /\ attempts' = With(c, n, a) /\ n \in Nat
      /\ UNCHANGED <<rpc, target, current, captured, stage>>
      /\ UNCHANGED <<head, matrix, registration, notes, summary, completed, spc, at, back>>
      /\ attempts[c][n].artifacts = "whole"
  BY DEF DamageAttempt, studyVars
<1>2. RunInv'
  BY <1>1, DamageTyped DEF StudyInv, Types
<1>3. attempts[c][n] \in Attempt /\ AttemptInv(c, n)
  BY <1>1, OneAttempt DEF StudyInv, Data
<1>4. /\ a \in Attempt /\ a.artifacts = "damaged" /\ a.manifest = attempts[c][n].manifest
      /\ a.began = attempts[c][n].began
  BY <1>3 DEF Attempt, Artifacts
<1> HIDE DEF a
<1>5. /\ \A d \in Conditions : Len(notes'[d]) = Len(attempts'[d])
      /\ Elsewhere(c, n) /\ attempts'[c][n] = a /\ Len(attempts'[c]) = Len(attempts[c])
  BY <1>1, <1>4, AttemptChanges
<1>6. Types'
  BY <1>1, <1>2, <1>5 DEF StudyInv, Types
<1>7. AttemptInv(c, n)'
  BY <1>1, <1>3, <1>4, <1>5 DEF AttemptInv, InputsKept, Faithful, Dead
<1>8. Data' /\ Kept
  <2>1. attempts'[c][n].artifacts = "damaged" /\ attempts'[c][n].began = attempts[c][n].began
    BY <1>4, <1>5
  <2> QED BY <1>1, <1>5, <1>7, <2>1, DataHolds DEF StudyInv
<1>9. Pending' = Pending /\ Condition' = Condition
  BY <1>1, SameCondition
<1>10. ASSUME NEW d \in Conditions, NEW m \in 1 .. Len(attempts[d])
       PROVE /\ attempts'[d][m].manifest = attempts[d][m].manifest
             /\ attempts'[d][m].began = attempts[d][m].began
             /\ attempts'[d][m].artifacts = "whole" => attempts[d][m].artifacts = "whole"
             /\ Valid(d, m)' => Valid(d, m)
             /\ Len(attempts'[d]) = Len(attempts[d])
  <2>1. CASE d = c /\ m = n
    <3>1. ~Valid(c, n)'
      BY <1>4, <1>5 DEF Valid, CompletedAttempt, Intact
    <3>2. Valid(d, m)' => Valid(d, m)
      BY <2>1, <3>1
    <3> HIDE DEF Valid
    <3> QED BY <1>1, <1>4, <1>5, <2>1, <3>2
  <2>2. CASE ~(d = c /\ m = n)
    <3>1. Valid(d, m)' <=> Valid(d, m)
      BY <1>5, <2>2, OtherAttempt
    <3> HIDE DEF Valid
    <3> QED BY <1>5, <2>2, <3>1 DEF Elsewhere
  <2> QED BY <2>1, <2>2
<1>11. \A d \in Conditions : Len(attempts'[d]) = Len(attempts[d])
  BY <1>5 DEF Elsewhere
<1>12. Control'
  <2>1. spc \in Working \/ rpc # "idle" => Condition \in Conditions
    BY AtCondition DEF StudyInv, Control, Working
  <2> QED BY <1>1, <1>9, <1>11, <2>1 DEF StudyInv, Control, Judging, Measuring, Working
<1>13. Fresh'
  <2>1. ASSUME NEW d \in Pending, NEW m \in 1 .. Len(attempts'[d]), Valid(d, m)',
               spc \in {"next"} \cup Working
        PROVE d = Condition /\ Late
    <3>1. d \in Conditions /\ m \in 1 .. Len(attempts[d])
      BY <1>11 DEF Pending
    <3>2. Valid(d, m)
      BY <1>10, <2>1, <3>1
    <3> QED BY <2>1, <3>1, <3>2 DEF StudyInv, Fresh
  <2>2. Late' <=> Late
    BY <1>1 DEF Late
  <2> HIDE DEF Valid, Late
  <2> QED BY <1>1, <1>9, <2>1, <2>2 DEF Fresh
<1>14. Running'
  <2> SUFFICES ASSUME rpc # "idle" PROVE Running'
    BY <1>1 DEF Running
  <2>1. target \in Conditions /\ current \in 1 .. Len(attempts[target])
    BY DEF StudyInv, Types, RunInv
  <2>2. /\ This'.manifest = This.manifest /\ This'.began = This.began
    BY <1>1, <1>10, <2>1 DEF This
  <2> QED BY <1>1, <2>2 DEF StudyInv, Running, Clean
<1>15. Judged'
  <2> SUFFICES ASSUME spc \in Judging \cup Measuring PROVE Judged'
    BY <1>1 DEF Judged, Judging, Measuring
  <2>1. Condition \in Conditions /\ at \in 1 .. Len(attempts[Condition])
    BY AtAttempt DEF StudyInv
  <2>2. PICK e, k : e = Condition /\ k = at
    OBVIOUS
  <2>3. /\ attempts'[e][k].manifest = attempts[e][k].manifest
        /\ attempts'[e][k].artifacts = "whole" => attempts[e][k].artifacts = "whole"
    BY <1>10, <2>1, <2>2
  <2>4. /\ Noted' = Noted /\ ManifestAt' = ManifestAt
        /\ Counts(Condition, at)' => Counts(Condition, at)
        /\ Dead(Condition, at) => Dead(Condition, at)'
    BY <1>1, <1>5, <1>9, <1>11, <2>1, <2>2, <2>3 DEF Noted, ManifestAt, Counts, Dead
  <2> QED BY <1>1, <1>9, <2>2, <2>3, <2>4 DEF StudyInv, Judged
<1>16. Reviewed'
  <2> SUFFICES ASSUME spc \in {"review", "run"} PROVE Reviewed'
    BY <1>1 DEF Reviewed
  <2>1. Condition \in Conditions /\ Len(attempts[Condition]) \in Nat
    BY AtCondition DEF StudyInv, Working
  <2>2. PICK e : e = Condition
    OBVIOUS
  <2>3. \A k \in 1 .. Len(attempts[e]) : Dead(e, k) => Dead(e, k)'
    BY <1>10, <2>1, <2>2 DEF Dead
  <2>4. spc = "review" => at - 1 <= Len(attempts[e]) /\ at \in Nat
    BY <2>1, <2>2 DEF StudyInv, Control
  <2> QED BY <1>1, <1>9, <1>11, <2>1, <2>2, <2>3, <2>4 DEF StudyInv, Reviewed, Dead
<1> QED BY <1>6, <1>8, <1>12, <1>13, <1>14, <1>15, <1>16 DEF StudyInv

-----------------------------------------------------------------------------
(* All attempts are marked as failed, so that a new one is made.           *)
LEMMA StartRunHolds == ASSUME StudyInv, StartRun PROVE StudyInv' /\ Kept
<1>1. PICK c : c = Condition
  OBVIOUS
<1> DEFINE a == [ manifest |-> None, artifacts |-> "none", logged |-> None,
                  began |-> inputs, ran |-> None ]
           b == [metric |-> FALSE, preserved |-> None, failure |-> None]
           s == Append(attempts[c], a)
           u == Append(notes[c], b)
           k == Len(attempts[c])
<1>2. /\ spc = "run" /\ rpc = "idle" /\ BeginCondition(c)
      /\ UNCHANGED <<head, matrix, registration, summary, completed, spc, at, back>>
      /\ UNCHANGED environmentVars
  BY <1>1 DEF StartRun, BeginCondition
<1>3. RunInv'
  <2>1. c \in Conditions
    BY <1>1, <1>2, AtCondition DEF StudyInv, Working
  <2> QED BY <1>2, <2>1, BeginTyped DEF StudyInv, Types
<1>4. /\ c \in Conditions /\ c \in Pending /\ registration # None
      /\ spc \in {"next"} \cup Working /\ k \in Nat
  BY <1>1, <1>2, AtCondition DEF StudyInv, Working
<1>5. \A n \in 1 .. k : Dead(c, n)
  BY <1>1, <1>2 DEF StudyInv, Reviewed
<1>6. Found(c, captured') = {}
  BY <1>5 DEF Found, CompletedAttempt, Dead
<1>7. /\ rpc' = "write" /\ target' = c /\ current' = k + 1
      /\ attempts' = [attempts EXCEPT ![c] = s] /\ captured' = inputs
  BY <1>2, <1>6 DEF BeginCondition, IdentityOf
<1>8. /\ attempts[c] \in Seq(Attempt) /\ notes[c] \in Seq(Note) /\ Len(notes[c]) = k
      /\ attempts \in [Conditions -> Seq(Attempt)] /\ notes \in [Conditions -> Seq(Note)]
      /\ inputs \in Inputs
  BY <1>4 DEF StudyInv, Types, RunInv
<1>9. a \in Attempt /\ b \in Note
  BY <1>8 DEF Attempt, Artifacts, Note
<1>10. /\ s \in Seq(Attempt) /\ Len(s) = k + 1 /\ s[k + 1] = a
       /\ \A j \in 1 .. k : s[j] = attempts[c][j]
  <2> HIDE DEF a
  <2> QED BY <1>8, <1>9, AppendProperties
<1>11. /\ u \in Seq(Note) /\ Len(u) = k + 1 /\ u[k + 1] = b
       /\ \A j \in 1 .. k : u[j] = notes[c][j]
  <2> HIDE DEF b
  <2> QED BY <1>8, <1>9, AppendProperties
<1>12. \A d \in Conditions : attempts'[d] = IF d = c THEN s ELSE attempts[d]
  <2> HIDE DEF s
  <2> QED BY <1>7, <1>8
<1>13. notes' = [notes EXCEPT ![c] = u]
  <2>1. Len(attempts'[c]) # Len(notes[c])
    <3> HIDE DEF s
    <3> QED BY <1>4, <1>8, <1>10, <1>12
  <2> QED BY <1>1, <2>1 DEF StartRun
<1> HIDE DEF s, u
<1>14. /\ notes' \in [Conditions -> Seq(Note)]
       /\ \A d \in Conditions : notes'[d] = IF d = c THEN u ELSE notes[d]
  BY <1>8, <1>11, <1>13
<1>15. \A d \in Conditions : Len(notes'[d]) = Len(attempts'[d])
  BY <1>10, <1>11, <1>12, <1>14 DEF StudyInv, Types
<1>16. Types'
  BY <1>2, <1>3, <1>14, <1>15 DEF StudyInv, Types
<1> HIDE DEF k
<1>17. k = Len(attempts[c])
  BY DEF k
<1>18. ASSUME NEW d \in Conditions, NEW m \in 1 .. Len(attempts[d])
       PROVE /\ attempts'[d][m] = attempts[d][m] /\ notes'[d][m] = notes[d][m]
             /\ m \in 1 .. Len(attempts'[d])
  <2>1. CASE d = c
    BY <1>4, <1>10, <1>11, <1>12, <1>14, <1>17, <2>1
  <2>2. CASE d # c
    BY <1>12, <1>14, <2>2
  <2> QED BY <2>1, <2>2
<1>19. ASSUME NEW d \in Conditions, NEW m \in 1 .. Len(attempts'[d])
       PROVE \/ m \in 1 .. Len(attempts[d])
             \/ /\ d = c /\ m = k + 1 /\ m = Len(attempts'[d])
                /\ attempts'[d][m] = a /\ notes'[d][m] = b
  BY <1>4, <1>10, <1>11, <1>12, <1>14, <1>17
<1>20. a.manifest = None /\ b.failure = None /\ b.preserved = None /\ b.metric = FALSE
       /\ a.began = inputs
  OBVIOUS
<1> HIDE DEF a, b
<1>21. ASSUME NEW d \in Conditions, NEW m \in 1 .. Len(attempts'[d])
       PROVE AttemptInv(d, m)'
  <2>1. CASE m \in 1 .. Len(attempts[d])
    <3>1. AttemptInv(d, m)
      BY <2>1 DEF StudyInv, Data
    <3>2. attempts'[d][m] = attempts[d][m] /\ notes'[d][m] = notes[d][m]
      BY <1>18, <2>1
    <3>3. m < Len(attempts[d]) => Dead(d, m)'
      BY <3>1, <3>2 DEF AttemptInv, Dead
    <3>4. ~(m < Len(attempts[d])) /\ m < Len(attempts'[d]) => d = c
      BY <1>12, <2>1
    <3>5. d = c => Dead(d, m)'
      BY <1>5, <1>17, <2>1, <3>2 DEF Dead
    <3>6. m < Len(attempts'[d]) => Dead(d, m)'
      BY <3>3, <3>4, <3>5
    <3> QED BY <3>1, <3>2, <3>6 DEF AttemptInv, InputsKept, Faithful
  <2>2. CASE /\ d = c /\ m = k + 1 /\ m = Len(attempts'[d])
             /\ attempts'[d][m] = a /\ notes'[d][m] = b
    <3>1. ~(m < Len(attempts'[d]))
      BY <1>4, <1>17, <2>2
    <3> QED BY <1>20, <2>2, <3>1 DEF AttemptInv, InputsKept, Faithful
  <2> QED BY <1>19, <2>1, <2>2
<1>22. Summarized'
  BY <1>2, <1>18 DEF StudyInv, Data, Summarized
<1>23. Data'
  BY <1>21, <1>22 DEF Data
<1>24. Kept
  BY <1>2, <1>18 DEF Kept, Counts
<1>25. Pending' = Pending /\ Condition' = Condition
  BY <1>2, SameCondition
<1>26. Len(attempts'[c]) = k + 1
  BY <1>4, <1>10, <1>12
<1>27. Control'
  BY <1>1, <1>2, <1>4, <1>7, <1>25, <1>26 DEF Control, Judging, Measuring, Working
<1>28. Fresh'
  <2>1. ASSUME NEW d \in Pending, NEW m \in 1 .. Len(attempts'[d]), Valid(d, m)'
        PROVE m \in 1 .. Len(attempts[d]) /\ Valid(d, m)
    <3>1. d \in Conditions
      BY DEF Pending
    <3>2. CASE m \in 1 .. Len(attempts[d])
      BY <1>2, <1>18, <2>1, <3>1, <3>2
      DEF Valid, IsRegistered, CompletedAttempt, Accepted
    <3>3. CASE attempts'[d][m] = a
      BY <1>20, <2>1, <3>3 DEF Valid, IsRegistered
    <3> HIDE DEF Valid
    <3> QED BY <1>19, <3>1, <3>2, <3>3
  <2>2. Late => Late'
    BY <1>2 DEF Late
  <2> HIDE DEF Valid, Late
  <2> QED BY <1>2, <1>4, <2>1, <2>2, FreshHolds DEF StudyInv
<1>29. Running'
  <2>1. attempts'[c][k + 1] = a /\ notes'[c][k + 1] = b
    BY <1>4, <1>10, <1>11, <1>12, <1>14
  <2> QED BY <1>7, <1>20, <2>1 DEF Running, Clean, This
<1>30. Judged' /\ Reviewed'
  BY <1>2, <1>7 DEF Judged, Reviewed, Judging, Measuring
<1> QED BY <1>16, <1>23, <1>24, <1>27, <1>28, <1>29, <1>30 DEF StudyInv

-----------------------------------------------------------------------------
(* The runner writes only into the attempt that it made, which cannot      *)
(* count yet: it has no metric file.                                       *)
LEMMA RunStep ==
  ASSUME StudyInv, spc = "run", rpc # "idle", UNCHANGED studyVars, RunInv',
         NEW c, NEW n, c = target, n = current, NEW a \in Attempt,
         attempts' = With(c, n, a), UNCHANGED <<target, current, captured>>,
         rpc' # "idle", a.began = attempts[c][n].began,
         a.manifest # None => a.manifest.inputs = a.began,
         rpc' \in {"log", "process", "returned"} => a.manifest # None
  PROVE  StudyInv' /\ Kept
<1>1. /\ c \in Conditions /\ n \in 1 .. Len(attempts[c]) /\ c = Condition
      /\ n = Len(attempts[c]) /\ Clean(c, n) /\ captured = attempts[c][n].began
  BY DEF StudyInv, Types, RunInv, Control, Running, This
<1>2. UNCHANGED <<head, matrix, registration, notes, summary, completed, spc, at, back>>
  BY DEF studyVars
<1>3. /\ \A d \in Conditions : Len(notes'[d]) = Len(attempts'[d])
      /\ Elsewhere(c, n) /\ attempts'[c][n] = a /\ Len(attempts'[c]) = Len(attempts[c])
  BY <1>1, <1>2, AttemptChanges
<1>4. Types'
  BY <1>2, <1>3 DEF StudyInv, Types
<1>5. Pending' = Pending /\ Condition' = Condition
  BY <1>2, SameCondition
<1>6. Clean(c, n)'
  BY <1>1, <1>2 DEF Clean
<1>7. AttemptInv(c, n)'
  <2>1. ~(n < Len(attempts'[c]))
    BY <1>1, <1>3
  <2> QED BY <1>3, <1>6, <2>1 DEF AttemptInv, InputsKept, Faithful, Clean
<1>8. ~Counts(c, n) /\ ~Valid(c, n)'
  BY <1>1, <1>6 DEF Counts, Valid, Clean
<1>9. Data' /\ Kept
  BY <1>1, <1>2, <1>3, <1>7, <1>8, DataHolds DEF StudyInv
<1>10. Control'
  <2>1. Pending # {} /\ registration # None
    BY AtCondition DEF StudyInv, Control, Working
  <2> QED BY <1>1, <1>2, <1>3, <1>5, <2>1 DEF Control, Judging, Measuring, Working
<1>11. Fresh'
  <2>1. ASSUME NEW d \in Pending, NEW m \in 1 .. Len(attempts'[d]), Valid(d, m)'
        PROVE m \in 1 .. Len(attempts[d]) /\ Valid(d, m)
    <3>1. d \in Conditions /\ m \in 1 .. Len(attempts[d])
      BY <1>3 DEF Pending, Elsewhere
    <3>2. ~(d = c /\ m = n)
      <4> HIDE DEF Valid
      <4> QED BY <1>8, <2>1
    <3> QED BY <1>3, <2>1, <3>1, <3>2, OtherAttempt
  <2>2. (Late => Late') /\ spc \in {"next"} \cup Working /\ UNCHANGED completed
    BY <1>2 DEF Late, Working
  <2> HIDE DEF Valid, Late
  <2> QED BY <2>1, <2>2, FreshHolds DEF StudyInv
<1>12. Running'
  <2>1. This' = a
    BY <1>3 DEF This
  <2> QED BY <1>1, <1>6, <2>1 DEF Running, Clean
<1>13. Judged' /\ Reviewed'
  BY <1>2 DEF Judged, Reviewed, Judging, Measuring
<1> QED BY <1>4, <1>9, <1>10, <1>11, <1>12, <1>13 DEF StudyInv

LEMMA RunHolds == ASSUME StudyInv, Run PROVE StudyInv' /\ Kept
<1>1. PICK c, n : c = target /\ n = current
  OBVIOUS
<1>2. spc = "run" /\ RunnerStep /\ UNCHANGED studyVars /\ rpc # "idle"
  BY DEF Run, RunnerStep, WriteManifest, LogManifest, RunProcess
<1>3. RunInv'
  BY <1>2, RunnerTyped DEF StudyInv, Types
<1>4. /\ c \in Conditions /\ n \in 1 .. Len(attempts[c])
      /\ captured \in Inputs /\ stage \in States /\ inputs \in Inputs
      /\ captured = attempts[c][n].began
      /\ rpc \in {"log", "process", "returned"} => attempts[c][n].manifest # None
      /\ This = attempts[c][n]
  BY <1>1, <1>2 DEF StudyInv, Types, RunInv, Running, This
<1>5. attempts[c][n] \in Attempt /\ AttemptInv(c, n)
  BY <1>4, OneAttempt DEF StudyInv, Data
<1>6. CASE WriteManifest
  <2> DEFINE m == [state |-> stage, inputs |-> captured, metric |-> FALSE]
             a == [attempts[c][n] EXCEPT !.manifest = m]
  <2>1. m \in Manifest /\ m.inputs = captured
    BY <1>4 DEF Manifest
  <2>2. m # None
    BY <2>1, RunAssumption
  <2>3. /\ attempts' = With(c, n, a) /\ rpc' = "log"
        /\ UNCHANGED <<target, current, captured>>
    BY <1>1, <1>4, <1>6 DEF WriteManifest
  <2> HIDE DEF m
  <2>4. a \in Attempt /\ a.began = attempts[c][n].began /\ a.manifest = m
    BY <1>5, <2>1 DEF Attempt
  <2> HIDE DEF a
  <2>5. /\ rpc' # "idle" /\ a.manifest # None => a.manifest.inputs = a.began
        /\ rpc' \in {"log", "process", "returned"} => a.manifest # None
    BY <1>4, <2>1, <2>2, <2>3, <2>4
  <2> QED BY <1>1, <1>2, <1>3, <2>3, <2>4, <2>5, RunStep
<1>7. CASE LogManifest
  <2> DEFINE a == [attempts[c][n] EXCEPT !.logged = stage]
  <2>1. /\ attempts' = With(c, n, a) /\ rpc = "log" /\ rpc' # "idle"
        /\ UNCHANGED <<target, current, captured>>
    BY <1>1, <1>4, <1>7 DEF LogManifest
  <2>2. /\ a \in Attempt /\ a.began = attempts[c][n].began
        /\ a.manifest = attempts[c][n].manifest
    BY <1>4, <1>5 DEF Attempt
  <2> HIDE DEF a
  <2>3. /\ a.manifest # None => a.manifest.inputs = a.began
        /\ rpc' \in {"log", "process", "returned"} => a.manifest # None
    BY <1>4, <1>5, <2>1, <2>2 DEF AttemptInv, InputsKept
  <2> QED BY <1>1, <1>2, <1>3, <2>1, <2>2, <2>3, RunStep
<1>8. ASSUME NEW artifacts \in Artifacts, RunProcess(artifacts) PROVE StudyInv' /\ Kept
  <2> DEFINE a == [attempts[c][n] EXCEPT !.artifacts = artifacts, !.ran = inputs]
  <2>1. /\ attempts' = With(c, n, a) /\ rpc = "process" /\ rpc' = "write"
        /\ UNCHANGED <<target, current, captured>>
    BY <1>1, <1>4, <1>8 DEF RunProcess
  <2>2. /\ a \in Attempt /\ a.began = attempts[c][n].began
        /\ a.manifest = attempts[c][n].manifest
    BY <1>4, <1>5 DEF Attempt
  <2> HIDE DEF a
  <2>3. /\ rpc' # "idle" /\ a.manifest # None => a.manifest.inputs = a.began
        /\ rpc' \in {"log", "process", "returned"} => a.manifest # None
    BY <1>4, <1>5, <2>1, <2>2 DEF AttemptInv, InputsKept
  <2> QED BY <1>1, <1>2, <1>3, <2>1, <2>2, <2>3, RunStep
<1> QED BY <1>2, <1>6, <1>7, <1>8 DEF RunnerStep

-----------------------------------------------------------------------------
LEMMA StepHolds == ASSUME StudyInv, StudyNext PROVE StudyInv' /\ Kept
<1>1. CASE StudyStep
  BY <1>1, FreezeMatrixHolds, RegisterHolds, CollectHolds, NextConditionHolds,
     ReviewHolds, PreserveHolds, RecordFailureHolds, FailManifestHolds,
     LogFailureHolds, StartRunHolds, RunHolds, RunReturnsHolds, WriteMetricHolds,
     MetricFailsHolds, EnrichHolds, ConfirmHolds
  DEF StudyStep
<1>2. CASE Environment
  BY <1>2, ChangeInputsHolds, MoveHeadHolds, DamageHolds DEF Environment
<1> QED BY <1>1, <1>2, StartFreezeHolds, StartResumeHolds, AnalyzeHolds, CrashHolds
        DEF StudyNext

LEMMA StutterHolds == ASSUME StudyInv, UNCHANGED vars PROVE StudyInv' /\ Kept
<1>1. RunInv' /\ head' \in Commits
  BY DEF vars, environmentVars, runVars, studyVars, StudyInv, Types, RunInv
<1>2. UNCHANGED <<runVars, matrix, registration, notes, summary, completed, spc, at, back>>
  BY DEF vars, environmentVars, runVars, studyVars
<1> QED BY <1>1, <1>2, OutsideHolds

-----------------------------------------------------------------------------
(***************************************************************************)
(* The inductive invariant of the study, with the runner inside it and a   *)
(* commit, files and attempts that may change or be damaged at any time.   *)
(***************************************************************************)
THEOREM StudyInvariant == StudySpec => []StudyInv
<1>1. StudyInit => StudyInv
  BY StudyInitHolds
<1>2. StudyInv /\ [StudyNext]_vars => StudyInv'
  BY StepHolds, StutterHolds
<1> QED BY <1>1, <1>2, PTL DEF StudySpec

(* The study keeps its types (run_study.py).                               *)
THEOREM StudyTypes == StudySpec => []StudyTypeOK
<1>1. StudyInv => StudyTypeOK
  <2> SUFFICES ASSUME StudyInv PROVE StudyTypeOK
    OBVIOUS
  <2>1. RunTypeOK
    BY RunInvTypes DEF StudyInv, Types
  <2>2. DOMAIN notes = Conditions
    BY DEF StudyInv, Types
  <2>3. ASSUME NEW c \in Conditions
        PROVE /\ Len(notes[c]) = Len(attempts[c])
              /\ \A n \in 1 .. Len(notes[c]) : notes[c][n] \in Note
    <3>1. notes[c] \in Seq(Note) /\ Len(notes[c]) = Len(attempts[c])
      BY DEF StudyInv, Types
    <3> QED BY <3>1, ElementOfSeq
  <2> QED BY <2>1, <2>2, <2>3 DEF StudyInv, Types, Control, StudyTypeOK
<1> QED BY <1>1, StudyInvariant, PTL

(* Only the last attempt of a condition can count: every earlier one is    *)
(* marked as failed or has no manifest (run_study.py:606, 630).            *)
THEOREM OneAttemptCounts == StudySpec => []EarlierAttemptsFailed
<1>1. StudyInv => EarlierAttemptsFailed
  <2> SUFFICES ASSUME StudyInv, NEW c \in Conditions, NEW n \in 1 .. Len(attempts[c]) - 1
               PROVE  Dead(c, n)
    BY DEF EarlierAttemptsFailed, Dead
  <2>1. Len(attempts[c]) \in Nat
    BY LenProperties DEF StudyInv, Types, RunInv
  <2>2. n \in 1 .. Len(attempts[c]) /\ n < Len(attempts[c])
    BY <2>1
  <2> QED BY <2>2 DEF StudyInv, Data, AttemptInv
<1> QED BY <1>1, StudyInvariant, PTL

(* The copy of a manifest is the one whose hash is in the failure record,  *)
(* however often the tool is killed in between (run_study.py:448).         *)
THEOREM FailuresAreFaithful == StudySpec => []FailureIsFaithful
<1>1. StudyInv => FailureIsFaithful
  <2> SUFFICES ASSUME StudyInv, NEW c \in Conditions, NEW n \in 1 .. Len(notes[c]),
                      notes[c][n].failure # None
               PROVE  notes[c][n].preserved = notes[c][n].failure.original
    BY DEF FailureIsFaithful
  <2>1. n \in 1 .. Len(attempts[c])
    BY DEF StudyInv, Types
  <2> QED BY <2>1 DEF StudyInv, Data, AttemptInv, Faithful
<1> QED BY <1>1, StudyInvariant, PTL

(* What counts, or was analyzed, ran what was registered, unless a file    *)
(* changed between its hash and the launch (run_study.py:619).             *)
THEOREM CountedRuns == StudySpec => []CountedRanRegistered
<1>1. StudyInv => CountedRanRegistered
  <2> SUFFICES ASSUME StudyInv, NEW c \in Conditions, NEW n \in 1 .. MaxAttempts,
                      Counts(c, n) \/ (summary # None /\ summary[c] = n)
               PROVE  attempts[c][n].began = registration.inputs
    BY DEF CountedRanRegistered
  <2>1. CASE Counts(c, n)
    BY <2>1 DEF StudyInv, Data, AttemptInv, InputsKept, Counts
  <2>2. CASE summary # None /\ summary[c] = n
    BY <2>2 DEF StudyInv, Data, Summarized
  <2> QED BY <2>1, <2>2
<1> QED BY <1>1, StudyInvariant, PTL

(* An attempt that counts goes on counting until a file of it is damaged   *)
(* (run_study.py:556, 591).                                                *)
THEOREM MeasurementsKept == StudySpec => MeasurementsAreKept
<1>1. StudyInv /\ [StudyNext]_vars => [Kept]_vars
  BY StepHolds, StutterHolds
<1>2. StudySpec => [][Kept]_vars
  BY <1>1, StudyInvariant, PTL DEF StudySpec
<1> QED BY <1>2 DEF MeasurementsAreKept, Kept
=============================================================================
