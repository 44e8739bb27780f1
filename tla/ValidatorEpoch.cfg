\* The chain stops at MaxEpoch and the validator has nothing left to do.
SPECIFICATION FairSpec
CHECK_DEADLOCK FALSE
CONSTANTS
  MaxEpoch = 3
  SlotsPerEpoch = 3
  CollectSlot = 1
  DeadlineSlot = 2
  RateLimit = 1
  MaxAttempts = 2
  MaxFaults = 1
  Down = Down
INVARIANTS
  EpochSafety
PROPERTIES
  UpdatesBuildOnChain
  CaughtUp
  OnceTerminates
