CONSTANTS
  Interval = 2
  Times = {0, 1, 2, 3}
  Prices = {1, 2, 3}
  Volumes = {0, 2, 5}
  NoBar = NoBar
  NoTick = NoTick
SPECIFICATION Spec
INVARIANTS TypeOK BarIsItsTicks VolumeConserved
