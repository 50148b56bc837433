SPECIFICATION FairSpec
CONSTANTS
  h1 = h1
  h2 = h2
  h3 = h3
  c = c
  cpp = cpp
  Shared = {h1, h2, h3}
  Known = {c, cpp}
  Langs = {"c", "cpp"}
  Language <- Speaks
  Folder <- Place
  Provers = {"cpp"}
  Includes <- CanInclude
  DefaultFor = {"cpp"}
  First = "c"
INVARIANTS AnswersAreReach DecisionsIgnoreOrder
PROPERTIES OwnersAreDecided
CHECK_DEADLOCK FALSE
