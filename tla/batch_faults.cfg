SPECIFICATION FairSpec
CONSTANTS
  a = a
  b = b
  c = c
  Dirs = {a, b}
  Names = {a, b}
  RepoName <- SameNames
  Parallelism = 1
  MaxAttempts = 2
  MaxPolls = 2
  MaxSessions = 2
  Faults = {"save", "unlink", "thread", "unreadable"}
INVARIANTS EveryTaskReported
PROPERTIES SessionEnds
CHECK_DEADLOCK FALSE
