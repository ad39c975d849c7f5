CONSTANTS
  Replica = {a, b}
  Request = {r1, r2}
  MaxGrant = 2
  MaxAccess = 3
SPECIFICATION FairSpec
INVARIANTS
  RefreshedOnce
  GrantInForce
  ForgetsOwn
PROPERTIES
  ResolveEnds
