CONSTANTS
  g1 = g1
  g2 = g2
  i1 = i1
  i2 = i2
  None = None
  Request = {r1, r2}
  Item <- Items
  Grid <- Grids
  Owner <- Pages
  Operation = {"create", "page", "clone", "grid", "copy", "attach", "disk", "rename", "local", "publish", "restore", "empty"}
  MaxMoves = 1
SPECIFICATION LiveSpec
INVARIANTS
  Serialised
  DescriptorsClosed
PROPERTIES
  WritesInside
  RequestEnds
CHECK_DEADLOCK FALSE
