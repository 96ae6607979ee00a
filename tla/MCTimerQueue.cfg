SPECIFICATION FairSpec
CONSTANTS
  Timers = {1, 2, 3}
  Interval <- MCInterval
  Delays = {0, 1}
  MaxTime = 3
  MaxQueue = 1
INVARIANTS
  TypeOK
  SetsInSync
  ArmedForEarliest
  GoneForGood
PROPERTY
  EveryTimerExpires
CHECK_DEADLOCK FALSE
