SPECIFICATION FairSpec
CONSTANTS
  Workers = {w1}
  Environments <- OwnershipEnvironments
  MaxInbox = 1
  MaxJobs = 1
INVARIANT ConfirmedIsTheirsUnlessCrossed
PROPERTIES LearnsItLostThem TakeoverEnds WaitedAudioComesOn
