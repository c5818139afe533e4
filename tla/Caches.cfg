SPECIFICATION FairCachesSpec
CONSTANTS
  NFrames = 2
  Commits <- TwoCommits
  Times <- TwoTimes
  MaxFaults = 2
  Absent = Absent
INVARIANTS
  CachesTypeOK
  SealedIsWhole
  DynamicIsDerived
PROPERTIES
  CachesAreSealedStores
  CachesComplete
