CONSTANTS
  new = new
  old = old
  Key = {new, old}
  Replica = {a, b}
  Request = {r1, r2}
  Value = {v1, v2, v3}
  OldRing <- OldOnly
  NewRing <- Both
  Rewrites = TRUE
SPECIFICATION Spec
SYMMETRY Symmetry
INVARIANTS
  ConsumedOnce
PROPERTIES
  ImplementsAtomic
