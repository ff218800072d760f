SPECIFICATION CapabilitiesSpec
CONSTANTS
  Handles = {lsr, transparency}
  NoHandle = none
  Setters = {s1, s2}
  MaxWrites = 3
  MaxStops = 2
  Ignoring = TRUE
  Late = FALSE
  Full = 8
  Share = 2
  STEPS = 2
  MaxReports = 4
  MaxAbsences = 1
  Players = {p1, p2}
  MaxMoves = 5
  Shared = TRUE
  Resets = TRUE
  Headphones = {h1, h2}
  NoChain = none
  MaxRoutes = 3
SYMMETRY AnyHeadphones
INVARIANTS RightHandle WaitsForAnother LoweredUnlessCut BroughtBackUnlessCut FollowsUnlessStrayed ChainFollowsUnlessStrayed
CHECK_DEADLOCK FALSE
