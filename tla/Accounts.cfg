SPECIFICATION PartsSpec
CONSTANTS
  Callers = {"c1", "c2", "c3"}
  Procs = {"p1", "p2"}
  NoCaller = "none"
  ProcOf <- Homes
  PolicyOf <- Options
  KeyOf <- OneKey
  LegacyRow = FALSE
  ServiceRow = FALSE
  MaxPairs = 3
  MaxFaults = 1
  MaxEdits = 1
  Users = {"u1", "u2"}
  Accounts = {"a1"}
  Posts = {"p1", "p2", "p3"}
  Deposits = {"d1", "d2"}
  NoUser = "nobody"
  Inviter <- Chain
  Partner = {"a1"}
  Trader <- TraderOne
  Payment <- PaymentOne
  Ways = {"email", "callback", "confirm"}
  MaxToggles = 1
  SwitchUsers = {"u1"}
  SwitchAccounts = {"a1", "a2"}
  Owner <- OneOwner
  SwitchDeposits = {1, 2}
  AccountOf <- TwoAccounts
  Processes = {"p", "q"}
  DemoOnly = {"q"}
  ScanLimit = 2
  MaxSets = 2
  MaxThrows = 1
  MaxEvents = 1
  Buyers = {"u1"}
  Charges = {"charge"}
  NoBuyer = "nobody"
  BuyerOf <- OneBuyer
  Verdicts <- Checks
  Tokens <- TwoTokens
  Staff = {"cli", "admin"}
  NewestFirst = TRUE
  PageSize = 1
  MaxPages = 3
  MaxRequests = 1
  MaxReports = 2
  MaxStarFaults = 2
INVARIANTS LinkSafe StarsSafe
PROPERTIES TokensSafe SwitchSafe
CHECK_DEADLOCK FALSE
