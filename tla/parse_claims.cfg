SPECIFICATION Spec
CONSTANTS
  Runs = {1}
  N = 2
  Jobs <- PoolAndSequential
  PerWorker = 1
  Faults = {"claims"}
INVARIANTS BadEntryCostsItself
CHECK_DEADLOCK FALSE
