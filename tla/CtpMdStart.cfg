CONSTANTS
  Symbols = {rb, ma}
  Days = {d1, d2}
  NoDay = NoDay
  Day0 = Day0
  Unspecified = Unspecified
  MaxDrops = 3
  MaxTokens = 3
SPECIFICATION FairSpec
INVARIANTS TypeOK StartedMeansSubscribed StampOfDay
PROPERTIES SilenceIsFinal StartReturns
CHECK_DEADLOCK FALSE
