SPECIFICATION FairSpec
CONSTANTS
  Threads = {t1, t2, t3}
  Listeners = {1, 2}
  None = none
INVARIANTS NotCalledAfterUnsubscribe OneCallAtATime
PROPERTIES UnsubscribeReturns
\* Listeners that unsubscribe each other may wait for each other (Event.h says they must not).
CHECK_DEADLOCK FALSE
