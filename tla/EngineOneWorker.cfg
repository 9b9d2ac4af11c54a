CONSTANTS
  rb = rb
  rb2 = rb2
  abb = abb
  dual = dual
  NullOpt = NullOpt
  Nobody = Nobody
  NoOrder = NoOrder
  NoTask = NoTask
  Workers = {w1}
  Symbols <- MCOneSymbol
  Strategies <- MCTwoStrategies
  SymbolOf <- MCTwoSymbolOf
  Matched <- MCOneMatched
  BufSize = 2
  WordSize = 4
  MaxTicks = 2
SPECIFICATION FairSpec
INVARIANTS PositionExplained TradesPairUp
PROPERTIES Exits OrdersLeave
