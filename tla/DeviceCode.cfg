CONSTANTS
  Expiries <- StatedExpiries
  Intervals <- StatedIntervals
  MaxWaits = {0, 3, 5, 8, 30}
  DefaultExpiry = 7
  DefaultInterval = 2
  SlowDownStep = 1
  HttpTimeout = 2
  InstantMax = 20
  Patience = 3
SPECIFICATION FairSpec
INVARIANTS
  TypeOK
  BoundedWait
  TimeoutIsEarned
  GrantReturned
  PanicIsOwn
  DecisionReported
PROPERTIES
  EarlyPollOnlyAtDeadline
  PollReturns
CHECK_DEADLOCK FALSE
