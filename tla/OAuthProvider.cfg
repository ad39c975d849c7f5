CONSTANTS
  Client = {c1, c2}
  User = {u1}
  State = {s1, s2}
  Code = {k1, k2}
  Pair = {p1, p2, p3}
  Request = {r1, r2}
  MaxLevel = 2
  ClientId = {p1, p2, p3}
  Peer = {s1, s2}
  Replica = {a, b}
  Key = {new, old}
  Cap = 2
  Lifetime = 1
  MaxTime = 2
SPECIFICATION ProviderSpec
SYMMETRY Symmetry
INVARIANTS
  StateSingleUse
  OneLivePair
  PrincipalBound
  RevokedForGood
  CapHolds
PROPERTIES
  ImplementsLifecycle
  RefusedOnlyWhenFull
CHECK_DEADLOCK FALSE
