\* The chain, the boots and the attempts are bounded, and a run ends.
SPECIFICATION MCSpec
CHECK_DEADLOCK FALSE
CONSTANTS
  Operators = {1, 2}
  Payload <- MCPayload
  MaxPending = 1
  MaxNonces = 3
  MaxBoots = 2
  Nobody = Nobody
  NumCalls = 3
  Cost <- MCCost
  Concurrency = 2
  Patience = 10
  OpTimeout = 9
  LeastTimeout = 1
  MaxOps = 2
  MaxTries = 2
  RetryBudget = 6
  MaxWait = 1
  TolNum = 1
  TolDen = 20
  Validators = {v1, v2}
  HeadHashes = {h1, h2}
  EpochLen = 2
  CollectOffset = 1
  MaxBlock = 5
  MaxRestarts = 1
  None = None
INVARIANTS
  ProvisionSafety
  HarnessSafety
  LoopSafety
PROPERTIES
  BenchmarkEnds
  PunctualIsCollected
  LoopCommitmentSticks
