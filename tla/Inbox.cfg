SPECIFICATION InAppFairSpec
CONSTANTS
  Channel = {"in_app"}
  InApp = "in_app"
  Routed <- SubscribedAll
  Critical = 1
  Worker = {"w1"}
  Device = {"phone"}
  Pauses = FALSE
  Evolution = {"acknowledge", "resolve", "resume"}
  MaxRevision = 3
  MaxResumption = 1
  MaxChange = 1
  MaxFailure = 1
  MaxCrash = 1
INVARIANTS InboxInv
PROPERTIES InboxFollows NoEndWithoutBeginning
