CONSTANTS
  Job = {j1, j2}
  Capacity = 1
  TTL = 1
  MaxTime = 1
  Configurations <- Representative
  Call = {c1}
  MaxRestarts = 1
SPECIFICATION AppSpec
INVARIANT NetworkClientsClose
CHECK_DEADLOCK FALSE
