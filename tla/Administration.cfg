SPECIFICATION AdministrationSpec
CONSTANTS
  Target = {"a", "b"}
  Source = {"s"}
  Operation = {o1, o2}
  Processor = {x, y}
  None = None
  FirstTarget <- OneSource
  MaxAttempts = 3
  Endpoint = {"e1", "e2"}
  Admin = {"a1", "a2"}
  AccessKind = {"zabbix", "uptime_kuma", "patchmon", "argus", "proxmox"}
  MaxCredOps = 4
  MaxCredFaults = 1
  User = {"u1", "u2"}
  Handler = {"h1", "h2"}
  MaxAcctOps = 5
  MaxSessions = 3
  Phone = {"p1", "p2"}
  Window = {"x", "y"}
  MaxPairings = 2
  MaxComponent = 1
  MaxNumbers = 2
  MaxRank = 2
  CommitLike <- LongHexadecimals
  MaxIdentifiers = 2
  MaxRelease = 5
  Sizes <- FewSizes
  MaxPages = 4
  MaxCallFaults = 1
INVARIANTS   AccountsAgree ConfirmedIsSeen  CollectionIsHonest
PROPERTIES ReportsAreFinal PinsAdvance ChangesCloseSessions
SYMMETRY Alike
CHECK_DEADLOCK FALSE
