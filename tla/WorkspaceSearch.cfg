CONSTANTS
  f1 = f1
  f2 = f2
  f3 = f3
  f4 = f4
  other = other
  p1 = p1
  p2 = p2
  File <- Files
  Matching <- Wanted
  WikiPage = {p1, p2}
  Limit = 2
  BatchMax = 3
  MaxScans = 3
  Window = 2
  MaxOffset = 4
  MaxChanges = 2
  MaxKey = 1
SPECIFICATION Spec
SYMMETRY Symmetry
INVARIANTS
  NoRepeat
  NoSkip
CHECK_DEADLOCK FALSE
