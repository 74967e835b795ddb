\* A session's demo intent and a real intent of the bot, in turn on one account of one user.
SPECIFICATION StoreSpec
CONSTANTS
  u1 = u1  a1 = a1  i1 = i1  i2 = i2  s1 = s1  t1 = t1
  NoSession = NoSession
  NoTrade = NoTrade
  Users = {u1}
  Accounts = {a1}
  Sessions = {s1}
  Intents = {i1, i2}
  Trades = {t1}
  Terms <- ModeTerms
  OwnerOf <- OneOwner
  AccountOf <- OneAccountOf
  TermsOf <- DemoReal
  SessionOf <- FirstSession
  SessionAccount <- S1Account
  SessionMode <- S1Mode
  ApiDemoOnly = FALSE
  WorkerDemoOnly = TRUE
  InitialBalance = 1
  MaxAttempts = 1
  MaxVersion = 6
  MaxEdits = 3
INVARIANTS TypeOK CacheIsLedgerSum TokenFollowsStatus TradeFollowsStatus WaitingHasDelivery SessionRunsInUserMode
PROPERTIES RowsMoveOn EscrowSpec
CHECK_DEADLOCK FALSE
