SPECIFICATION Spec
CONSTANTS
  Identity <- MixedIdentity
  Target = {"a", "b"}
  Nature = {"avail", "hook"}
  Owner <- MixedOwner
  IncidentId = {1, 2}
  Mode <- MixedMode
  OwnerOf <- MixedOwnerOf
  ScopeOf <- MixedScopeOf
  KeyOf <- MCKeyOf
  Eligible <- MCEligible
  Interval <- MixedInterval
  Signal <- MixedSignal
  MinWindow = 1
  MaxWindow = 2
  ResumptionWindow = 1
  ExtendedTargets = 3
  ExtendedMinimum = 2
  ExtendedRatio = 1
  MaxTime = 2
  MaxFacts = 1
  MaxLag = 1
  MaxResumptions = 2
INVARIANTS  OneVoice 
PROPERTIES SilencedUntilHealthy
