SPECIFICATION Spec
CONSTANTS
  Block <- Tall
  NoBlock = "null"
  Prev <- TallPrev
  Genesis = "G"
  DL_CONCURRENCY = 2
  MaxQ = 2
  Depth = 2
  MaxTasks = 3
  MaxChanges = 1
  MaxReorg = 1
  MaxBranch = 4
  MaxFailures = 1
  InIBD = {TRUE, FALSE}
  ZmqAvailable = {FALSE}
  InvalidUndoHeight = 99
CHECK_DEADLOCK FALSE
INVARIANTS NeverStuck NextFollowsTip UpToDateUnlessInterrupted RecentBlocksUndoable RewindsWithinDepth
