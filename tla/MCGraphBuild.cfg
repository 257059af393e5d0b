SPECIFICATION Spec
CONSTANTS
  Node = {a, b, c}
  Caller = {p, q}
  MaxEdges = 3
SYMMETRY Symmetry
CONSTRAINTS LargeGraphsAlone OneLateEdge
CHECK_DEADLOCK FALSE
INVARIANTS
  OrderSound
  CycleExact
  InputsOnce
  FailsOnlyToAnother
