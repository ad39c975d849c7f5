CONSTANTS
  FirstDelay = 1
  MaxDelay = 3
  MaxClock = 25
  Timeout = 8
  PollDelay = 2
  LeastTimeout = 2
  MaxPolls = 3
SPECIFICATION LiveSpec
INVARIANTS
  AttemptsBounded
  InTime
  PollingInTime
PROPERTIES
  Ends
CHECK_DEADLOCK FALSE
