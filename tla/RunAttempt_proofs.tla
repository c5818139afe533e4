------------------------- MODULE RunAttempt_proofs -------------------------
(***************************************************************************)
(* The runner keeps its types: the lemmas that the proofs of StaticMap and *)
(* Study share, one for each operation of RunAttempt.                      *)
(***************************************************************************)
EXTENDS RunAttempt, SequenceTheorems, TLAPS

(* RunTypeOK, with what it leaves to TLC (attempts is a function to         *)
(* sequences) and with the values the runner has in memory while it runs.  *)
RunInv ==
  /\ inputs \in Inputs /\ faults \in 0 .. MaxFaults
  /\ attempts \in [Conditions -> Seq(Attempt)]
  /\ \A c \in Conditions : Len(attempts[c]) <= MaxAttempts
  /\ torn \in BOOLEAN
  /\ rpc \in {"idle", "write", "log", "process", "returned"}
  /\ rpc = "idle" => captured = None /\ stage = None
  /\ rpc # "idle" =>
       /\ target \in Conditions /\ current \in 1 .. Len(attempts[target])
       /\ captured \in Inputs /\ stage \in States

LEMMA RunInvTypes == RunInv => RunTypeOK
<1> SUFFICES ASSUME RunInv PROVE RunTypeOK
  OBVIOUS
<1>1. DOMAIN attempts = Conditions
  BY DEF RunInv
<1>2. ASSUME NEW c \in Conditions
      PROVE /\ Len(attempts[c]) \in 0 .. MaxAttempts
            /\ \A n \in 1 .. Len(attempts[c]) : attempts[c][n] \in Attempt
  <2>1. attempts[c] \in Seq(Attempt) /\ Len(attempts[c]) <= MaxAttempts
    BY DEF RunInv
  <2>2. Len(attempts[c]) \in Nat /\ MaxAttempts \in Nat
    BY <2>1, LenProperties, RunAssumption
  <2>3. ASSUME NEW n \in 1 .. Len(attempts[c]) PROVE attempts[c][n] \in Attempt
    BY <2>1, ElementOfSeq
  <2> QED BY <2>1, <2>2, <2>3
<1>3. captured \in Inputs \cup {None} /\ stage \in States \cup {None}
  BY DEF RunInv
<1> QED BY <1>1, <1>2, <1>3 DEF RunInv, RunTypeOK

(* Replacing an attempt by another one. *)
LEMMA WithTyped ==
  ASSUME attempts \in [Conditions -> Seq(Attempt)],
         NEW c \in Conditions, NEW n \in 1 .. Len(attempts[c]), NEW a \in Attempt
  PROVE  /\ With(c, n, a) \in [Conditions -> Seq(Attempt)]
         /\ \A d \in Conditions :
              /\ Len(With(c, n, a)[d]) = Len(attempts[d])
              /\ \A m \in 1 .. Len(attempts[d]) :
                   With(c, n, a)[d][m] = IF d = c /\ m = n THEN a ELSE attempts[d][m]
<1> DEFINE s == [attempts[c] EXCEPT ![n] = a]
<1>1. attempts[c] \in Seq(Attempt)
  OBVIOUS
<1>2. /\ s \in Seq(Attempt) /\ Len(s) = Len(attempts[c])
      /\ \A j \in 1 .. Len(attempts[c]) : s[j] = IF j = n THEN a ELSE attempts[c][j]
  BY <1>1, ExceptSeq
<1>3. With(c, n, a) = [attempts EXCEPT ![c] = s]
  BY DEF With
<1> HIDE DEF s
<1>4. With(c, n, a) \in [Conditions -> Seq(Attempt)]
  BY <1>2, <1>3
<1>5. ASSUME NEW d \in Conditions
      PROVE With(c, n, a)[d] = IF d = c THEN s ELSE attempts[d]
  BY <1>3
<1> QED BY <1>2, <1>4, <1>5

LEMMA RunInitTyped == RunInit => RunInv
<1> SUFFICES ASSUME RunInit PROVE RunInv
  OBVIOUS
<1>1. inputs \in Inputs
  BY RunAssumption DEF RunInit
<1>2. ASSUME NEW c \in Conditions PROVE attempts[c] = <<>> /\ Len(attempts[c]) = 0
  BY DEF RunInit
<1>3. attempts \in [Conditions -> Seq(Attempt)]
  BY EmptySeq DEF RunInit
<1>4. MaxAttempts \in Nat /\ MaxFaults \in Nat
  BY RunAssumption
<1>5. ASSUME NEW c \in Conditions PROVE Len(attempts[c]) <= MaxAttempts
  <2>1. Len(attempts[c]) = 0
    BY <1>2
  <2> QED BY <2>1, <1>4
<1>6. faults \in 0 .. MaxFaults
  BY <1>4 DEF RunInit
<1> QED BY <1>1, <1>3, <1>5, <1>6 DEF RunInit, RunInv

LEMMA EndsTyped ==
  ASSUME RunInv, RunnerEnds, UNCHANGED <<attempts, torn, environmentVars>>
  PROVE  RunInv'
BY DEF RunInv, RunnerEnds, environmentVars

LEMMA CrashTyped == ASSUME RunInv, CrashRunner PROVE RunInv'
<1>1. faults' \in 0 .. MaxFaults
  BY RunAssumption DEF RunInv, CrashRunner
<1>2. torn' \in BOOLEAN
  BY DEF RunInv, CrashRunner
<1> QED BY <1>1, <1>2 DEF RunInv, CrashRunner, RunnerEnds

LEMMA ChangeTyped ==
  ASSUME RunInv, NEW version \in Inputs, ChangeInputs(version) PROVE RunInv'
<1>1. faults' \in 0 .. MaxFaults
  BY RunAssumption DEF RunInv, ChangeInputs
<1> QED BY <1>1 DEF RunInv, ChangeInputs, runVars

(* The attempts have other contents, and nothing else has changed. *)
LEMMA ContentsTyped ==
  ASSUME RunInv, NEW c \in Conditions, NEW n \in 1 .. Len(attempts[c]),
         NEW a \in Attempt, attempts' = With(c, n, a)
  PROVE  /\ attempts' \in [Conditions -> Seq(Attempt)]
         /\ \A d \in Conditions : Len(attempts'[d]) = Len(attempts[d])
         /\ \A d \in Conditions : Len(attempts'[d]) <= MaxAttempts
BY WithTyped DEF RunInv

LEMMA DamageTyped ==
  ASSUME RunInv, NEW c \in Conditions, NEW n \in Nat, DamageAttempt(c, n)
  PROVE  RunInv'
<1> DEFINE a == [attempts[c][n] EXCEPT !.artifacts = "damaged"]
<1>1. n \in 1 .. Len(attempts[c]) /\ attempts' = With(c, n, a)
  BY DEF DamageAttempt
<1>2. attempts[c][n] \in Attempt
  BY <1>1, ElementOfSeq DEF RunInv
<1>3. a \in Attempt
  BY <1>2 DEF Attempt, Artifacts
<1>4. /\ attempts' \in [Conditions -> Seq(Attempt)]
      /\ \A d \in Conditions : Len(attempts'[d]) = Len(attempts[d])
      /\ \A d \in Conditions : Len(attempts'[d]) <= MaxAttempts
  BY <1>1, <1>3, ContentsTyped
<1>5. faults' \in 0 .. MaxFaults
  BY RunAssumption DEF RunInv, DamageAttempt
<1> QED BY <1>4, <1>5 DEF RunInv, DamageAttempt

LEMMA BeginTyped ==
  ASSUME RunInv, NEW c \in Conditions, BeginCondition(c) PROVE RunInv'
<1>1. captured' \in Inputs
  BY DEF BeginCondition, IdentityOf, RunInv
<1>2. CASE Found(c, captured') # {} /\ UNCHANGED <<attempts, torn>>
  <2>1. /\ rpc' = "returned" /\ stage' = "COMPLETED" /\ target' = c
        /\ current' \in Found(c, captured')
    BY <1>2 DEF BeginCondition
  <2>2. current' \in 1 .. Len(attempts[c])
    BY <2>1 DEF Found
  <2> QED BY <1>1, <1>2, <2>1, <2>2 DEF RunInv, BeginCondition, environmentVars, States
<1>3. CASE Found(c, captured') = {}
  <2> DEFINE a == [ manifest |-> None, artifacts |-> "none", logged |-> None,
                    began |-> inputs, ran |-> None ]
             s == Append(attempts[c], a)
  <2>1. /\ rpc' = "write" /\ stage' = "REGISTERED" /\ target' = c
        /\ current' = Len(attempts[c]) + 1 /\ Len(attempts[c]) < MaxAttempts
        /\ attempts' = [attempts EXCEPT ![c] = s] /\ UNCHANGED torn
    BY <1>3 DEF BeginCondition
  <2>2. a \in Attempt
    BY DEF Attempt, Artifacts, RunInv
  <2>3. attempts[c] \in Seq(Attempt) /\ Len(attempts[c]) \in Nat
    BY LenProperties DEF RunInv
  <2>4. s \in Seq(Attempt) /\ Len(s) = Len(attempts[c]) + 1
    BY <2>2, <2>3, AppendProperties
  <2> HIDE DEF s
  <2>5. /\ attempts' \in [Conditions -> Seq(Attempt)]
        /\ \A d \in Conditions : attempts'[d] = IF d = c THEN s ELSE attempts[d]
    BY <2>1, <2>4 DEF RunInv
  <2>6. \A d \in Conditions : Len(attempts'[d]) <= MaxAttempts
    BY <2>1, <2>3, <2>4, <2>5, RunAssumption DEF RunInv
  <2>7. current' \in 1 .. Len(attempts'[c])
    BY <2>1, <2>3, <2>4, <2>5
  <2> QED BY <1>1, <2>1, <2>5, <2>6, <2>7 DEF RunInv, BeginCondition, environmentVars, States
<1> QED BY <1>2, <1>3 DEF BeginCondition

LEMMA WriteTyped == ASSUME RunInv, WriteManifest PROVE RunInv'
<1> DEFINE a == [This EXCEPT !.manifest =
                   [state |-> stage, inputs |-> captured, metric |-> FALSE]]
<1>1. /\ target \in Conditions /\ current \in 1 .. Len(attempts[target])
      /\ captured \in Inputs /\ stage \in States
      /\ attempts' = With(target, current, a)
  BY DEF RunInv, WriteManifest
<1>2. This \in Attempt
  BY <1>1, ElementOfSeq DEF RunInv, This
<1>3. a \in Attempt
  BY <1>1, <1>2 DEF Attempt, Manifest
<1>4. /\ attempts' \in [Conditions -> Seq(Attempt)]
      /\ \A d \in Conditions : Len(attempts'[d]) = Len(attempts[d])
      /\ \A d \in Conditions : Len(attempts'[d]) <= MaxAttempts
  BY <1>1, <1>3, ContentsTyped
<1> QED BY <1>1, <1>4 DEF RunInv, WriteManifest, environmentVars

LEMMA LogTyped == ASSUME RunInv, LogManifest PROVE RunInv'
<1> DEFINE a == [This EXCEPT !.logged = stage]
<1>1. /\ target \in Conditions /\ current \in 1 .. Len(attempts[target])
      /\ captured \in Inputs /\ stage \in States
      /\ attempts' = With(target, current, a)
  BY DEF RunInv, LogManifest
<1>2. This \in Attempt
  BY <1>1, ElementOfSeq DEF RunInv, This
<1>3. a \in Attempt
  BY <1>1, <1>2 DEF Attempt
<1>4. /\ attempts' \in [Conditions -> Seq(Attempt)]
      /\ \A d \in Conditions : Len(attempts'[d]) = Len(attempts[d])
      /\ \A d \in Conditions : Len(attempts'[d]) <= MaxAttempts
  BY <1>1, <1>3, ContentsTyped
<1>5. stage' \in States /\ rpc' \in {"write", "process", "returned"}
  BY <1>1 DEF LogManifest, States
<1> QED BY <1>1, <1>4, <1>5 DEF RunInv, LogManifest, environmentVars

LEMMA ProcessTyped ==
  ASSUME RunInv, NEW artifacts \in Artifacts, RunProcess(artifacts) PROVE RunInv'
<1> DEFINE a == [This EXCEPT !.artifacts = artifacts, !.ran = inputs]
<1>1. /\ target \in Conditions /\ current \in 1 .. Len(attempts[target])
      /\ captured \in Inputs /\ attempts' = With(target, current, a)
  BY DEF RunInv, RunProcess
<1>2. This \in Attempt
  BY <1>1, ElementOfSeq DEF RunInv, This
<1>3. a \in Attempt
  BY <1>2 DEF Attempt, RunInv
<1>4. /\ attempts' \in [Conditions -> Seq(Attempt)]
      /\ \A d \in Conditions : Len(attempts'[d]) = Len(attempts[d])
      /\ \A d \in Conditions : Len(attempts'[d]) <= MaxAttempts
  BY <1>1, <1>3, ContentsTyped
<1>5. stage' \in States /\ rpc' = "write"
  BY DEF RunProcess, States
<1>6. faults' \in 0 .. MaxFaults
  BY RunAssumption DEF RunInv, RunProcess
<1> QED BY <1>1, <1>4, <1>5, <1>6 DEF RunInv, RunProcess

LEMMA RunnerTyped == ASSUME RunInv, RunnerStep PROVE RunInv'
BY WriteTyped, LogTyped, ProcessTyped DEF RunnerStep
=============================================================================
