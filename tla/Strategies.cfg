CONSTANTS
  N = 6
  NaN = NaN
  PosInf = PosInf
  NegInf = NegInf
  NoOrder = NoOrder
  Prices = {1, 2, 4, NaN, PosInf, NegInf}
  Feeds = {{1, 2, 4}, {1, 2, NaN}, {1, 4, NaN}, {1, 2, NegInf}, {1, NaN, NegInf}, {4, NaN, PosInf}, {2, PosInf, NegInf}}
SPECIFICATION MCSpec
INVARIANTS TypeOK WindowExact HeldFromEntry
PROPERTIES OpensAtBand ClosesAtMean ImplementTrader ReopensAtOnce
