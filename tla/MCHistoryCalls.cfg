SPECIFICATION HistorySpec
CONSTANTS
  Threshold = 4
  Keep = 2
  HardMax = 5
  HardKeep = 3
  RestoreLimit = 4
  MaxIterations = 3
  MaxTurns = 2
  HistoryFaults = {"summary", "context"}
INVARIANT ResultsKeepCalls
CHECK_DEADLOCK FALSE
