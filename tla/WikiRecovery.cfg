SPECIFICATION LiveSpec
CONSTANTS
  Request = {r1, r2}
  Closer = closer
  Principal = {alice, bob}
  Page = {p1, p2}
  Handle = {h1, h2}
  None = None
INVARIANTS
  SentOnce
  Recoverable
  ClosedEmpty
PROPERTIES
  OtherUnharmed
  TasksEnd
