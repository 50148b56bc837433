SPECIFICATION FairSpec
CONSTANTS
  f = f
  g = g
  h = h
  Files = {f, g, h}
  MaxRetries = 1
  MaxPages = 2
  Listed = 2
INVARIANTS DirIsHead CommentedOnce
PROPERTIES KeepsPromise CallEnds
CHECK_DEADLOCK FALSE
