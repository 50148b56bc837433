SPECIFICATION Spec
CONSTANTS
  a = a
  b = b
  k = k
  Schemas = {"hr", "sales"}
  Current = "hr"
  Columns = {a, b}
  ConNames = {k}
  MaxStatements = 5
  MaxNotes = 2
  Forms = {}
INVARIANTS StructureIsRead FlagsFollowConstraints AnnotationsAreRead
CHECK_DEADLOCK FALSE
SYMMETRY NameSymmetry
