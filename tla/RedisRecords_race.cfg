CONSTANTS
  new = new
  old = old
  Key = {new, old}
  Replica = {a, b}
  Request = {r1, r2}
  Value = {v1, v2, v3}
  OldRing <- Both
  NewRing <- Both
  Rewrites = TRUE
SPECIFICATION Spec
SYMMETRY Symmetry
INVARIANTS
  PresentIsFound
