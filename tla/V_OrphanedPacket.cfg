SPECIFICATION FairCachesSpec
CONSTANTS
  NFrames = 2
  Commits <- TwoCommits
  Times <- TwoTimes
  MaxFaults = 1
  Absent = Absent
PROPERTIES
  PartialRunIsResumed
