SPECIFICATION Spec
CONSTANTS
  a = a
  b = b
  c = c
  Groups = {a, b, c}
  Frameworks = {"go", "fastify", "angular", "nest", "fastapi"}
  Segments = {"x"}
  MaxEdges = 5
  Shapes = {}
INVARIANTS ResolvedIsServed OnlyDoubtIsNull OrderFree
CHECK_DEADLOCK FALSE
SYMMETRY GroupSymmetry
