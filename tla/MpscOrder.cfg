CONSTANTS
  BufSize = 2
  WordSize = 4
  Producers = {p1, p2}
  Values = {a, b}
  Blank = Blank
  NullOpt = NullOpt
  Nobody = Nobody
SPECIFICATION FairSpec
INVARIANTS TypeOK
PROPERTIES ImplementsTicketQueue PushReturns
