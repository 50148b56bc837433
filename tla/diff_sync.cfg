SPECIFICATION FairSpec
CONSTANTS
  f = f
  g = g
  Reqs = {1, 2}
  Files = {f, g}
  Commits = {0, 1, 2, 3}
  Tree <- History
  Base <- MergeBase
  Attempts = 2
INVARIANTS NotifiedIsWhole IngestOnce
PROPERTIES SyncIsExact RequestsEnd
CHECK_DEADLOCK FALSE
