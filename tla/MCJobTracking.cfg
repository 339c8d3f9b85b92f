CONSTANTS
  Names = {n1}
  Writers = {w1, w2}
  Jobs = {j1, j2}
  MaxFailures = 1
SPECIFICATION TrackingSpec
CONSTRAINT OneAtATime
INVARIANTS ListIsEarned RepositoryIsTrue OneUpdateAfterStop
PROPERTIES
  PollingEnds
CHECK_DEADLOCK FALSE
