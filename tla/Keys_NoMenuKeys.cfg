SPECIFICATION KeysSpec
CONSTANTS
  QueueSize = 4
  MaxTaps = 3
  MaxRuns = 2
INVARIANTS NoMenuKeys
CHECK_DEADLOCK FALSE
