SPECIFICATION StudySpec
CONSTANTS
  Conditions <- TwoConditions
  Inputs <- TwoInputs
  Commits <- TwoCommits
  MaxAttempts = 4
  MaxFaults = 3
  None = None
CHECK_DEADLOCK FALSE
INVARIANTS
  StudyTypeOK
  EarlierAttemptsFailed
  FailureIsFaithful
  CountedRanRegistered
PROPERTIES
  MeasurementsAreKept
  StudyCompletes
