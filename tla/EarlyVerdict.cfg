SPECIFICATION NotesSpec
CONSTANTS
  NotesWorker = {"n1"}
  MaxEditions = 2
  MaxNotesOps = 0
  MaxNotesFaults = 0
INVARIANT AwaitingIsPending
CHECK_DEADLOCK FALSE
