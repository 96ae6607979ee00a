SPECIFICATION Spec
CONSTANTS
  Inputs <- MCPost
  SizeT = 65536
  ShortNext = TRUE
  BodyApart = FALSE
INVARIANT
  WholeRequestsAnswered
CHECK_DEADLOCK FALSE
