CONSTANTS
  BufSize = 2
  WordSize = 4
  Producers = {p1, p2}
  Values = {a}
  Blank = Blank
  NullOpt = NullOpt
  Nobody = Nobody
SPECIFICATION Spec
PROPERTIES RefusedOnlyWhenFull
