SPECIFICATION Spec
CONSTANTS
  MaxLines = 2
  Files <- TreeFiles
  Parent <- TreeParent
  Kinds = {"c", "cpp", "h", "html", "big", "gone"}
  Modes <- RunModes
INVARIANTS SelectionIsDeclared AccountedOnce
CHECK_DEADLOCK FALSE
