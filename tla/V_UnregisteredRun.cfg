SPECIFICATION MapSpec
CONSTANTS
  MaxTracks = 0
  Enter = 14
  Exit = 8
  Gain = 7
  Loss = 4
  Certain = 20
  Unknown = 5
  MinConfirming = 3
  MaxMisses = 5
  Conditions <- OneCondition
  Sequence = 1
  Inputs <- TwoInputs
  MaxAttempts = 2
  MaxFaults = 2
  None = None
CHECK_DEADLOCK FALSE
INVARIANT
  CompleteIsRegistered
