\* The documented cap on a dead endpoint, with a share below the timeout.
SPECIFICATION Spec
CHECK_DEADLOCK FALSE
CONSTANTS
  N = 4
  Total = 9
  Timeout = 3
  MaxTimeouts = 2
INVARIANT
  DeadEndpointCapped
