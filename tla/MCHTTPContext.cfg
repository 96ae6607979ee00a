SPECIFICATION Spec
CONSTANTS
  Inputs <- MCInputs
  SizeT = 65536
  ShortNext = TRUE
  BodyApart = TRUE
INVARIANTS
  TypeOK
  RequestsAsSent
  TokensInOrder
  WholeRequestsAnswered
CHECK_DEADLOCK FALSE
