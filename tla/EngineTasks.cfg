CONSTANTS
  rb = rb
  rb2 = rb2
  abb = abb
  dual = dual
  NullOpt = NullOpt
  Nobody = Nobody
  NoOrder = NoOrder
  NoTask = NoTask
  Workers = {w1, w2}
  Symbols <- MCSymbols
  Strategies <- MCOneStrategy
  SymbolOf <- MCOneSymbolOf
  Matched <- MCMatched
  BufSize = 2
  WordSize = 4
  MaxTicks = 3
SYMMETRY MCWorkersAlike
SPECIFICATION Spec
INVARIANTS TypeOK StopIsFinal
PROPERTIES NothingAfterReturn
