SPECIFICATION PlatformSpec
CONSTANTS
  Source = {"s"}
  Heartbeat = {"s"}
  Worker = {"w1", "w2"}
  Threshold = {2}
  Batch = 1
  Client = {"c"}
  MaxVersion = 3
  MaxOpen = 2
  BatchSize = 2
  BufferSize = 1
  MaxPurges = 1
  MaxCuts = 1
  NotesWorker = {"n1", "n2"}
  MaxEditions = 1
  MaxNotesOps = 1
  MaxNotesFaults = 1
INVARIANTS MonitoringInv WakesForNews
PROPERTIES ConclusionsAreEarned  ImplementsFeed ProofIsEarned NotesReach
CHECK_DEADLOCK FALSE
