SPECIFICATION PartsSpec
CONSTANTS
  Martingale = TRUE
  Unit = 2
  Percent = 20
  Payouts = {0, 17, 20, 30}
  Bases = {4, 6}
  MaxSteps = 3
  MaxStakeTimes = 6
  MaxLossTimes = 5
  Minimums = {1, 9}
  Balances = {5, 50}
  MaxTrades = 4
  Sessions = {s1, s2}
  BatchSize = 1
  Tick = 1
  Deadline = 2
  Retry = 2
  Check = 1
  MaxEnds = 1
  MaxFailures = 2
INVARIANTS LossBounded WinRecovers LeastStake WakesAreServed
PROPERTIES DriverRepeats TrackerSafe
CHECK_DEADLOCK FALSE
