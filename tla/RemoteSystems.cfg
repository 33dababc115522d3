SPECIFICATION RemoteSpec
CONSTANTS
  Object = {"a", "b"}
  Legacy = {"a"}
  Kind = {"zabbix", "uptime_kuma", "patchmon", "argus", "proxmox"}
  Syncers <- SyncersOf
  MaxChange = 1
  MaxOps = 2
  MaxFault = 1
  Receiver = {"r1", "r2"}
  Approver = {"a1", "a2"}
  MaxEvents = 3
  MaxHookFaults = 2
  MaxHookOps = 1
  Event = {1}
  Incident = {"i"}
  Connector = {"A"}
  IncidentOf <- OneIncidentOf
  ConnectorOf <- OneConnectorOf
  Reachable = {"A"}
  Batch = 1
  MaxRows = 2
  MaxCrashes = 1
  Browser = {"b1"}
  Synchronizer = {"s1", "s2"}
  MaxGroups = 1
  MaxDrafts = 2
  MaxFlows = 1
  MaxExtFaults = 1
INVARIANTS NothingLost  AckIsShared ActiveWasTested
PROPERTIES WorkersYield   LoginsPrevail AccessConverges
CHECK_DEADLOCK FALSE
