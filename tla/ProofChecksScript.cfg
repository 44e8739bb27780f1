\* verify_live_miner.py's promise, against the proofs of an honest miner.
SPECIFICATION ChecksSpec
CHECK_DEADLOCK FALSE
CONSTANTS
  AskedHotkey = ann
  OtherHotkey = bob
  LastNonce = 2
  MaxBoots = 2
  MaxStarts = 2
  MaxBundles = 2
INVARIANT
  ScriptConfirmsHonest
