SPECIFICATION PartsSpec
CONSTANTS
  MaxResults = 2
  MaxCards = 1
  MaxFaults = 1
  MaxWaits = 1
INVARIANTS NoticesSafe
PROPERTIES WaitSafe
CHECK_DEADLOCK FALSE
