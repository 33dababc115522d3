SPECIFICATION InAppSpec
CONSTANTS
  Channel = {"in_app"}
  InApp = "in_app"
  Routed <- SubscribedAll
  Critical = 1
  Worker = {"w1"}
  Device = {"phone"}
  Pauses = FALSE
  Evolution = {"resolve", "resume"}
  MaxRevision = 5
  MaxResumption = 2
  MaxChange = 0
  MaxFailure = 0
  MaxCrash = 2
PROPERTIES NeverAnEndAlone
