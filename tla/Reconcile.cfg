SPECIFICATION PartsSpec
CONSTANTS
  Intents = {i1, i2}
  Foreign = {f1}
  MaxChanges = 3
  MaxLinks = 2
  MaxFaults = 1
  Trades = {1, 2, 3}
  Matching = {2, 3}
  Ours = 2
  WindowStart = 2
  MaxPages = 2
  PageSize = 3
  Caps = {1, 2, 3}
  NewestFirst = TRUE
  OffsetHonoured = FALSE
  MaxGap = 1
  Retry = 3
  Timeout = 1
  MaxPagesFaults = 1
INVARIANTS AlarmsAreTrue
PROPERTIES PagesSafe RowSafe
CHECK_DEADLOCK FALSE
