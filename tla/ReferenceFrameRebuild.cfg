SPECIFICATION FrameSpec
CONSTANTS
  u1 = u1 u2 = u2 u3 = u3 u4 = u4 m1 = m1 m2 = m2
  Uids = {u1, u2, u3, u4}
  NumColdkeys = 3
  Models = {m1, m2}
  Owner <- MCOwner
  Answers <- MCAnswers
  Unit = 4
  MinVoters = 3 MinJudged = 2 MaxDisagree = 40
  MinSamples = 2 Margin = 55
  MaxEpoch = 1
  PriorStrength = 1 Precision = 4 BootTrials = 2 BootSuccesses = 1
  NoState = NoState
INVARIANTS RebuildReproducesLive
CHECK_DEADLOCK FALSE
