CONSTANTS
  BufSize = 2
  WordSize = 6
  Producers = {p1, p2, p3}
  Values = {a}
  Blank = Blank
  NullOpt = NullOpt
  Nobody = Nobody
SPECIFICATION Spec
INVARIANTS OverrunBounded NoDataRace
PROPERTIES NotifyReachesOwner
