SPECIFICATION MCSpec
CONSTANTS
  Uids = {u1, u2}
  Hotkeys = {h1, h2, h3}
  Heads = {a, b}
  MaxEpoch = 4
  MaxMissed = 2
  MaxFalls = 2
  NoRecord = NoRecord
  AskedHotkey = ann
  OtherHotkey = bob
  LastNonce = 2
  MaxBoots = 2
  MaxStarts = 2
  MaxBundles = 2
INVARIANTS
  RecordsAreOwn
  NoGaps
  
  OneFrontier
  
SYMMETRY Symmetry
CHECK_DEADLOCK FALSE
