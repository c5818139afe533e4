SPECIFICATION OnlineFairSpec
CONSTANTS
  MaxFrame = 3
  Gaps <- MCGaps
  Waits <- MCWaits
  MaxAge = 2
  Interval = 1
  LedgerSize = 3
  HistorySize = 3
  Leftovers <- MCLeftovers
  Nothing = Nothing
INVARIANTS
  OnlineTypeOK
  ScoresAreFresh
  EachAnswerOnce
  NeverThrows
  AnswersAreKnown
PROPERTY RunnerEnds
