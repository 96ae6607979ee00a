SPECIFICATION FairSpec
CONSTANTS
  s1 = s1
  s2 = s2
  w1 = w1
  Main = Main
  SizeT = 8
  MaxConns = 2
  MaxSends = 1
  Fds = {7}
  SubLoops = {s1}
  Workers = {}
  TimedConns = {}
PROPERTY
  ReadReturns
CHECK_DEADLOCK FALSE
