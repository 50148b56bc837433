SPECIFICATION FairSpec
CONSTANTS
  c1 = c1
  c2 = c2
  Closers = {c1, c2}
  Overlap = FALSE
  MaxLines = 4
  HeldMax = 1
  PipeMax = 2
INVARIANTS TypeOK KeyMeansComplete UploadErrorSurfaces
PROPERTIES WriteEnds CloseAnswers KeepsContract
CHECK_DEADLOCK FALSE
