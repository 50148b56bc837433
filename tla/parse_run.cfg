SPECIFICATION FairSpec
CONSTANTS
  Runs = {1, 2}
  N = 3
  Jobs <- PoolAndSequential
  PerWorker = 1
  Faults = {"claims", "worker", "sink"}
INVARIANTS TypeOK ReportIsTrue TempIsOwn IndexDirOutlivesPool
PROPERTIES ArtifactOutlivesFailures RunEnds
CHECK_DEADLOCK FALSE
