SPECIFICATION FairSpec
CONSTANTS
  FewKeyFrames = 1
  Nobody = Nobody
  Mapper = Mapper
  Closer = Closer
  Main = Main
  g1 = g1
  g2 = g2
  GBAs <- OneGBAs
  Callers <- OneGBACallers
  MaxEpoch = 1
  MaxId = 1
  MaxLoops = 1
  MaxToggles = 1
  MaxQueued = 2
  CanShutdown = TRUE
CHECK_DEADLOCK FALSE
PROPERTIES
  ResetCompletes
  ShutdownCompletes
  CorrectionProceeds
  LocalizationEntered
