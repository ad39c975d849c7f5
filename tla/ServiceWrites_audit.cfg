CONSTANTS
  g1 = g1
  g2 = g2
  i1 = i1
  i2 = i2
  None = None
  Request = {r1, r2}
  Item <- Items
  Grid <- Grids
  Owner <- Pages
  Operation = {"rename", "local", "publish", "restore", "empty"}
  MaxMoves = 1
SPECIFICATION Spec
INVARIANTS
  Audited
