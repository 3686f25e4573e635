\* enough new memes between two fetches
SPECIFICATION Spec
CONSTANTS
  GETSIZE = 2
  MaxPosted = 6
  Busy = TRUE
INVARIANTS
  TypeOK
  UsedInOrder
  BrandNew
CHECK_DEADLOCK FALSE
