SPECIFICATION Spec
CONSTANTS
  AdThreads = {d1, d2}
  MaxMoves = 6
INVARIANT NoCircle
CHECK_DEADLOCK FALSE
