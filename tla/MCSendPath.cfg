SPECIFICATION FairSpec
CONSTANTS
  Message <- MCMessage
  File <- MCFile
  Capacity = 2
  RegistrationRace = FALSE
  Resets = TRUE
INVARIANTS
  TypeOK
  OutputHasInterest
  NothingLost
  LeftBytesMatch
  MessagesAndFilesInOrder
PROPERTY
  EverythingSent
CHECK_DEADLOCK FALSE
