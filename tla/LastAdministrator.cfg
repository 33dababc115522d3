SPECIFICATION AcctSpec
CONSTANTS
  User = {"u1", "u2"}
  Handler = {"h1", "h2"}
  MaxAcctOps = 5
  MaxSessions = 3
INVARIANT KeepsAnAdministrator
CHECK_DEADLOCK FALSE
