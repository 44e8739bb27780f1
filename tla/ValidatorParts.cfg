\* The parts are bounded, and a stopped one stays so.
SPECIFICATION MCSpec
CHECK_DEADLOCK FALSE
CONSTANTS
  NoFile = NoFile
  Torn = Torn
  Down = Down
  MaxStates = 4
  MaxFaults = 4
  MaxEpoch = 4
  Periods = {0, 2}
  Overrides = {3}
  MaxFailures = 3
  NoReveal = NoReveal
  HalfReveal = HalfReveal
  Benches = {"math", "gpqa", "code"}
  Ungradable = {"code"}
  PinnedSkip = {"gpqa"}
  MinPool = 1
  Readers = {v1, v2}
  ChainUids = {0, 1}
  Keys = {a, b, c}
  Boundary = 2
  Collect = 3
  LastBlock = 4
  MaxRefused = 1
  HeadUids = {0, 1}
  HeadHashes = {g, h}
  LastEpoch = 2
  MaxCalls = 3
  MaxTrouble = 2
  ReportChoices <- MCReports
  SubnetUids = 5
  MinValidators = 2
  ScoreThreshold = 15
  WeightThreshold = 20
  GapThreshold = 30
  MaxReports = 3
  CaNames = {i, j}
  VendoredName = i
  RootName = root
  CaKeys = {k1, k2}
  VendoredKey = k1
  RootKey = k0
  Junk = junk
  MaxCarried = 2
  MaxWalk = 8
INVARIANTS
  DiskSafety
  RevealSafety
  StartupSafety
  ReadsSafety
  ArchiveSafety
  AuditSafety
  ChainSafety
PROPERTIES
  KeepsStoreContract
  HeldAndForward
