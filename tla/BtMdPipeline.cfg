CONSTANTS
  BufSize = 2
  WordSize = 4
  Values = {1, 2, 3, 4, 5}
  MaxRows = 5
  Blank = Blank
  NullOpt = NullOpt
  StaleReads = TRUE
  MaxCalls = 2
  Nothing = Nothing
  ma = ma
  rb = rb
  au = au
  Lists <- MCLists
SPECIFICATION BtFairSpec
INVARIANTS TypeOK NeverLapped NoDataRace RowsInOrder OnlySeamsLost
PROPERTIES ImplementsFifo AllRowsConsumed
