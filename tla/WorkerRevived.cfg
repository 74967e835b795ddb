SPECIFICATION PartsSpec
CONSTANTS
  Processes = {"p1", "p2"}
  Intents = {"i1"}
  Rank <- Ranked
  Heartbeat = 2
  Timeout = 1
  Fence = 7
  Ttl = 8
  DrainTail = 4
  Recovery = 3
  MaxPublished = 1
  MaxFaults = 0
  Requests = {1, 2, 3, 4}
  TokenTtl = 1
  Skew = 5
  Budget = 3
  MaxTokens = 3
  MaxNow = 0
  MaxEvictions = 1
  Signals = {"socket"}
  Keys = {1, 2, 3}
  WindowMs = 2
  MinFailures = 2
  FailurePercent = 60
  MaxBreakerNow = 4
  MaxTripFaults = 1
INVARIANTS NoOrphan
CHECK_DEADLOCK FALSE
