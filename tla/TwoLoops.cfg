SPECIFICATION Spec
CONSTANTS
  FewKeyFrames = 1
  Nobody = Nobody
  Mapper = Mapper
  Closer = Closer
  Main = Main
  g1 = g1
  g2 = g2
  GBAs <- TwoGBAs
  Callers <- TwoGBACallers
  MaxEpoch = 0
  MaxId = 2
  MaxLoops = 2
  MaxToggles = 0
  MaxQueued = 2
  CanShutdown = FALSE
INVARIANTS CorrectionExcludesGBA AbortedGBADiscarded NoInsertionDuringCorrection
