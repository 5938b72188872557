SPECIFICATION HistorySpec
CONSTANTS
  Threshold = 4
  Keep = 2
  HardMax = 5
  HardKeep = 3
  RestoreLimit = 4
  MaxIterations = 2
  MaxTurns = 2
  HistoryFaults = {"crash"}
PROPERTY RestartRemembers
CHECK_DEADLOCK FALSE
