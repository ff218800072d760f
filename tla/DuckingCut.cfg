SPECIFICATION Spec
CONSTANTS
  Full = 8
  Share = 2
  STEPS = 2
  MaxReports = 4
  MaxAbsences = 0
  Resets = FALSE
INVARIANT BroughtBack
CHECK_DEADLOCK FALSE
