SPECIFICATION FairSpec
CONSTANTS
  Channel = {"mattermost"}
  InApp = "in_app"
  Routed <- SubscribedAll
  Critical = 2
  Worker = {"w1"}
  Pauses = FALSE
  Evolution = {"revise", "extend", "acknowledge", "resolve", "resume", "maintain"}
  MaxRevision = 4
  MaxResumption = 1
  MaxFailure = 1
  MaxCrash = 1
PROPERTIES  OpeningsReach
