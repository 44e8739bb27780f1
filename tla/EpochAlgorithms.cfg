\* Every computation ends, and the frame's epochs are bounded.
SPECIFICATION MCSpec
CHECK_DEADLOCK FALSE
CONSTANTS
  N = 4
  MaxKey = 3
  MaxScore = 1
  NumBenches = 4
  PoolSizes = {1, 3, 20}
  Sizes = {1, 5, 12}
  NumModels = 2
  FactorNum = 3
  FactorDen = 2
  Priced = {1, 2, 3}
  Costs = {0, 1, 3}
  MaxCost = 3
  Top = 3
  MinTrials = 1
  FloorNum = 4
  FloorDen = 5
  NumUids = 4
  BurnUid = 1
  ScoreLevels = 1
  PaidLevels = 2
  Units = 10
  Delta = 3
  u1 = u1 u2 = u2 u3 = u3 u4 = u4 m1 = m1 m2 = m2
  Uids = {u1, u2, u3, u4}
  NumColdkeys = 3
  Models = {m1, m2}
  Owner <- MCOwner
  Answers <- MCAnswers
  Unit = 4
  MinVoters = 3 MinJudged = 2 MaxDisagree = 40
  MinSamples = 2 Margin = 55
  MaxEpoch = 1
  PriorStrength = 1 Precision = 4 BootTrials = 2 BootSuccesses = 1
  NoState = NoState
INVARIANTS
  FrameSafety
  MinorityCannotMove
  ConsensusIsMajoritys
  CopiesSafety
  AssignmentSafety
  FrontierSafety
  WeightsSafety
