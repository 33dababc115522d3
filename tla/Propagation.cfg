SPECIFICATION FairSpec
CONSTANTS
  Identity <- ZabbixIdentity
  Target = {"a", "b"}
  Nature = {"cpu"}
  Owner = {"zabbix"}
  IncidentId = {1, 2}
  Mode <- ZabbixMode
  OwnerOf <- ZabbixOwnerOf
  ScopeOf <- ZabbixScopeOf
  KeyOf <- MCKeyOf
  Eligible <- MCEligible
  Interval <- ZabbixInterval
  Signal <- SpreadSignal
  MinWindow = 1
  MaxWindow = 2
  ResumptionWindow = 1
  ExtendedTargets = 3
  ExtendedMinimum = 2
  ExtendedRatio = 1
  MaxTime = 2
  MaxFacts = 2
  MaxLag = 1
  MaxResumptions = 2
INVARIANTS TypeOK ImpactsFollowEvidence IncidentsFollowImpacts 
PROPERTIES ClosedIsFrozen EmptyIncidentsEnd
