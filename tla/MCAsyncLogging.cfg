SPECIFICATION Spec
CONSTANTS
  RollSize = 2
  CheckEveryN = 2
  Period = 2
  MaxSecond = 4
  MaxLines = 5
  BufSize = 2
  Null = Null
INVARIANTS
  TypeOK
  BuffersGoRound
  NothingLost
  PeriodsApart
PROPERTIES
  EveryLineWritten
  StopReturns
CHECK_DEADLOCK FALSE
