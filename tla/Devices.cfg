SPECIFICATION DevicesSpec
CONSTANTS
  Bluetooth = {1, 2}
  Known = {1}
  Wired = 3
  Workers = {1, 2}
  MaxMoves = 2
  Infos = {i1, i2, i3}
  NoInfo = NoInfo
  MaxChanges = 5
  Daemons = {d1}
  AirPodsKeys = {k1, k2}
  Unset = Unset
  MaxSaves = 3
  MaxEnds = 2
  MaxFails = 2
  MaxEdits = 1
  AdThreads = {t1, t2}
  MaxLockMoves = 6
INVARIANTS ActiveFollows OutputFollows MapFollowsUnlessMissed FileFollows CircleOnlyUnderLocker
PROPERTIES ImplementsDurable
CHECK_DEADLOCK FALSE
