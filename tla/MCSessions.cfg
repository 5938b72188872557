SPECIFICATION BothSpec
CONSTANTS
  Threshold = 4
  Keep = 2
  HardMax = 5
  HardKeep = 3
  RestoreLimit = 4
  MaxIterations = 3
  MaxTurns = 2
  HistoryFaults = {"summary", "context", "store", "crash"}
  c1 = c1
  c2 = c2
  c3 = c3
  None = None
  Calls = {c1, c2, c3}
  MaxRestarts = 2
  MaxNotes = 1
  Faults = {"timeout", "crash", "error", "spawn"}
INVARIANTS ContextBounded ContextComplete  InStep OwnAnswer StartsAreOrderly
PROPERTIES CallsReturn
CHECK_DEADLOCK FALSE
