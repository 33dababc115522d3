SPECIFICATION HubSpec
CONSTANTS
  Client = {"c"}
  MaxVersion = 3
  MaxOpen = 2
  BatchSize = 2
  BufferSize = 1
  MaxPurges = 1
  MaxCuts = 1
INVARIANT NothingMissed
CHECK_DEADLOCK FALSE
