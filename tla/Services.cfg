\* The parts are bounded, and what has been decided stays so.
SPECIFICATION MCSpec
CHECK_DEADLOCK FALSE
CONSTANTS
  N = 4
  Total = 9
  Timeout = 3
  MaxTimeouts = 2
  NumWorkers = 2
  WorstTokens <- MCWorst
  MostTokens = 3
  CanonicalPrice = 1
  LivePrice = 2
  Cap = 9
  Retries = 2
  MaxReservations = 4
  Hotkeys = {a, b}
  Validators = {a}
  Params = {"registration", "tempo"}
  Amount = 5
  Yields = {3, 5}
  MaxSubnets = 2
  MaxRuns = 3
  Callers = {c}
  ServeTries = 3
  LastProof = 2
  MaxCrashes = 2
  MaxFaults = 1
  MaxMoves = 1
  Capacity = 2
  MaxLines = 4
  LastBoot = 2
  Watched = {v1}
  RevealRoots = {v1, v2}
  EpochLength = 4
  CollectAfter = 2
  DeadlineMargin = 1
  SubmitTries = 2
  RateLimit = 1
  ConfirmSlack = 1
  Grace = 1
  Settle = 3
  LookEpochs = 1
  CommitBlocks = {4, 5}
  LastHead = 7
  Chosen <- MCChosen
  Price <- MCPrice
  MaxUsd = 3
  Threads = 2
  Batch = 2
  Identities = {i1, i2}
  MaxLogRuns = 2
INVARIANTS
  BudgetIsFair
  VerdictIsEarned
  CircuitIsEvidence
  SpendSafety
  SubnetSafety
  ServingSafety
  LogSafety
  WatchSafety
  CallLogSafety
