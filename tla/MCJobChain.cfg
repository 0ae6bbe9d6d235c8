SPECIFICATION Spec
CONSTANTS
  Dates = {1, 2}
  MaxScripts = 2
  MaxFaults = 2
INVARIANTS
  TypeOK
  OwnDate
  OneAtATime
  StuckOnlyBehindIngest
  PublishedIsComplete
PROPERTIES
  GoodProductsKept
  Settles
CHECK_DEADLOCK FALSE
