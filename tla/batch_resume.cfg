SPECIFICATION Spec
CONSTANTS
  a = a
  b = b
  c = c
  Dirs = {a, b, c}
  Names = {a, b, c}
  RepoName <- SameNames
  Parallelism = 2
  MaxAttempts = 2
  MaxPolls = 1
  MaxSessions = 3
  Faults = {}
INVARIANTS TypeOK CheckpointSound ProgressIsDurable
PROPERTIES ProgressIsKept SkippedWereUploaded CompleteMeansUploaded KeepsPromise
CHECK_DEADLOCK FALSE
SYMMETRY DirSymmetry
