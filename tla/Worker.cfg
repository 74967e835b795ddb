SPECIFICATION PartsSpec
CONSTANTS
  Processes = {"p1", "p2"}
  Intents = {"i1"}
  Rank <- Ranked
  Heartbeat = 1
  Timeout = 0
  Fence = 3
  Ttl = 4
  DrainTail = 2
  Recovery = 3
  MaxPublished = 1
  MaxFaults = 1
  Requests = {1, 2, 3, 4}
  TokenTtl = 1
  Skew = 5
  Budget = 3
  MaxTokens = 3
  MaxNow = 0
  MaxEvictions = 1
  Signals = {"socket"}
  Keys = {1, 2, 3}
  WindowMs = 2
  MinFailures = 2
  FailurePercent = 60
  MaxBreakerNow = 4
  MaxTripFaults = 1
INVARIANTS RoutingHolds CacheForgets
PROPERTIES BreakerTrips
CHECK_DEADLOCK FALSE
