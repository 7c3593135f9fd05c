SPECIFICATION FairSpec
CONSTANTS
  WORD = 64
  RETRIEVE_LIMIT = 5
  MayFail = TRUE
INVARIANTS
  TypeOK
  ReadIsFirstPart
  WholeRead
PROPERTIES
  OnlyForward
  Ends
CHECK_DEADLOCK FALSE
