SPECIFICATION FairSpec
CONSTANTS
  t1 = t1
  t2 = t2
  f1 = f1
  f2 = f2
  f3 = f3
  q1 = q1
  Callers <- MCCallers
  Functors <- MCFunctors
  QuitFunctors <- MCQuitFunctors
INVARIANTS
  TypeOK
  NoLostWakeup
  WakeReadFindsCount
PROPERTIES
  ImplementsFunctorQueue
  EveryFunctorRuns
  QuitStopsLoop
CHECK_DEADLOCK FALSE
