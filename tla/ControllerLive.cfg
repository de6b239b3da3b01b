SPECIFICATION FairSpec
CONSTANTS
  Block <- LongFork
  NoBlock = "null"
  Prev <- LongForkPrev
  Genesis = "G"
  DL_CONCURRENCY = 1
  MaxQ = 2
  Depth = 2
  MaxTasks = 3
  MaxChanges = 2
  MaxReorg = 1
  MaxBranch = 2
  MaxFailures = 1
  InIBD = {TRUE, FALSE}
  ZmqAvailable = {TRUE, FALSE}
  InvalidUndoHeight = 99
CHECK_DEADLOCK FALSE
PROPERTIES Converges EventuallyAnnounced
