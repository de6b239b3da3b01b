SPECIFICATION FairSpec
CONSTANTS
  Base = 3
  EndHeight = 9
  Concurrency = 2
  MaxQ = 2
  MaxBackLog = 2
  MayFail <- MCMayFail
CHECK_DEADLOCK FALSE
INVARIANTS NoHeightLost NeverStalls RequestsBounded BacklogBounded
PROPERTY Completes
