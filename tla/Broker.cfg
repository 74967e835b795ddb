SPECIFICATION PartsSpec
CONSTANTS
  Processes = {"p1", "p2"}
  Nobody = Nobody
  Ttl = 2
  Fence = 1
  Grace = 2
  Command = 1
  Late = {"p1", "p2"}
  MaxAge = 1
  MaxStatements = 1
  Accounts = {"a1"}
  MaxSessions = 1
  StartConcurrency = 2
  MaxStarts = 2
  MaxFaults = 3
  MaxMoves = 2
  Assets = {1}
  Commands = {1, 2}
  MaxSocketStarts = 2
  MaxSocketFaults = 2
  ServiceAccounts = {1, 2, 3}
  Good = 2
  Leaving = {3}
  Failures = {"start", "lost", "rejected", "refused", "read"}
  FailoverGrace = 1
  ReserveReady = 2
  Retry = 3
INVARIANTS TrustedIsHeld OneCommandPath ManagerSafe SocketSafe FeedSafe
CHECK_DEADLOCK FALSE
