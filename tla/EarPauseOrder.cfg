SPECIFICATION Spec
CONSTANTS
  Players = {p1, p2}
  MaxMoves = 3
  Shared = FALSE
  Resets = FALSE
INVARIANT PutBackResumes
