SPECIFICATION Spec
CONSTANTS
  Workers = {w1, w2}
  Environments <- TakeoverEnvironments
  MaxInbox = 1
  MaxJobs = 1
INVARIANTS TypeOK OneTakeover ResumesWhatItPaused
SYMMETRY WorkerSymmetry
