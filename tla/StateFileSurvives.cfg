\* The documented survival of a restart, against the two renames of save_state.
SPECIFICATION Spec
CHECK_DEADLOCK FALSE
CONSTANTS
  NoFile = NoFile
  Torn = Torn
  Down = Down
  MaxStates = 2
  MaxFaults = 1
PROPERTY
  StateSurvivesRestarts
