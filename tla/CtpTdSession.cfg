CONSTANTS
  MaxParts = 2
  MaxPending = 2
  Rate = 2
  MaxDrops = 2
  MaxTokens = 3
SPECIFICATION FairSpec
INVARIANTS TypeOK
PROPERTIES OwnAnswer BinaryRespected StartReturns CallsReturn
